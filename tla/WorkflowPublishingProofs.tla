----------------------- MODULE WorkflowPublishingProofs -----------------------
(***************************************************************************)
(* Proofs about WorkflowPublishing, for any definitions, requests, keys,    *)
(* inputs and number of writes.                                             *)
(*                                                                         *)
(* The argument: a stamp names one write of the row, so a publisher that    *)
(* finds the stamp it read finds the definition it validated; the lock      *)
(* keeps the row as it is until the commit, and the number computed         *)
(* meanwhile stays the next one.                                            *)
(*                                                                         *)
(* At the end, for any rate, burst, calls and clock: RateLimiter is exact in*)
(* the times the script is given, and exact on the clock up to the rounding *)
(* of these times.                                                          *)
(***************************************************************************)
EXTENDS WorkflowPublishing, FiniteSetTheorems, TLAPS

InTx == {"number", "commit"}

(* The lock is held by the request in the transaction, if there is one.     *)
LockOwner == \A c \in Caller : call[c].pc \in InTx <=> lock = c

(* What a request k knows of the row r and the versions v at time t: it     *)
(* waits for the lock with a valid definition, the current one if the stamp *)
(* is; in the transaction the row is as validated and the number the next   *)
(* one; and an execution is started with a version that exists.             *)
CallInv(k, r, v, t) ==
  /\ k.stamp <= t
  /\ k.pc = "lock" => k.def \in Valid /\ (k.stamp = r.stamp => k.def = r.def)
  /\ k.pc \in InTx => /\ r.status \in {"draft", "published"}
                      /\ k.def = r.def /\ r.def \in Valid
                      /\ k.pc = "commit" => k.version = Newest(DOMAIN v) + 1
  /\ k.pc \in {"select", "find", "insert"} => k.key \in Key /\ k.input \in Input
  /\ k.pc \in {"find", "insert"} => k.version \in DOMAIN v /\ k.def = v[k.version]

(* Versions are numbered 1 to Latest, and valid.                            *)
Numbered ==
  /\ Latest \in Nat /\ DOMAIN versions = 1..Latest
  /\ \A n \in DOMAIN versions : versions[n] \in Valid

IInv == /\ TypeOK
        /\ LockOwner
        /\ row.stamp <= clock
        /\ \A c \in Caller : CallInv(call[c], row, versions, clock)
        /\ Numbered
        /\ PublishedIsLatest
        /\ ExecutionPinned
        /\ IdempotentStart
-----------------------------------------------------------------------------
(* MAX(version) of versions numbered without gaps.                          *)
LEMMA NewestInterval == ASSUME NEW n \in Nat PROVE Newest(1..n) = n
  <1>1. CASE n = 0
    <2>1. 1..n = {}  BY <1>1
    <2> QED  BY <1>1, <2>1 DEF Newest
  <1>2. CASE n # 0
    <2>1. n \in 1..n /\ \A m \in 1..n : m <= n  BY <1>2
    <2>2. \A k \in 1..n : (\A m \in 1..n : m <= k) => k = n  BY <2>1
    <2>3. 1..n # {}  BY <2>1
    <2> QED  BY <2>1, <2>2, <2>3 DEF Newest
  <1> QED  BY <1>1, <1>2

(* A caller without a request.                                              *)
LEMMA IdleCall ==
  /\ Idle \in Call /\ Idle.pc \notin InTx
  /\ \A r, v : \A t \in Nat : CallInv(Idle, r, v, t)
  <1>1. Idle \in Call  BY DEF Idle, Call
  <1>2. Idle.pc = "idle" /\ Idle.stamp = 0  BY DEF Idle
  <1>3. \A t \in Nat : 0 <= t  OBVIOUS
  <1> QED  BY <1>1, <1>2, <1>3 DEF CallInv, InTx

(* The initial state satisfies the invariant.                               *)
LEMMA InitIInv == Init => IInv
  <1> SUFFICES ASSUME Init PROVE IInv  OBVIOUS
  <1> USE PublishingAssumption
  <1>1. DOMAIN versions = {}  BY DEF Init
  <1>2. TypeOK
    <2>1. IsFiniteSet(executions)  BY FS_EmptySet DEF Init
    <2>2. row \in Row  BY DEF Init, Row
    <2>3. call \in [Caller -> Call]  BY DEF Init, Call, Idle
    <2> QED  BY <1>1, <2>1, <2>2, <2>3 DEF Init, TypeOK
  <1>3. LockOwner  BY DEF Init, LockOwner, Idle, InTx
  <1>4. \A c \in Caller : CallInv(call[c], row, versions, clock)
    BY DEF Init, CallInv, Idle, InTx
  <1>5. Numbered  BY <1>1 DEF Numbered, Latest, Newest
  <1> QED  BY <1>2, <1>3, <1>4, <1>5
           DEF Init, IInv, PublishedIsLatest, ExecutionPinned, IdempotentStart

(* A step of a request that writes no row keeps the invariant if it knows   *)
(* what it has to afterwards.                                               *)
LEMMA CallStep ==
  ASSUME IInv, UNCHANGED <<row, versions, executions, clock, answers>>,
         NEW c \in Caller, NEW r \in Call, call' = [call EXCEPT ![c] = r],
         CallInv(r, row, versions, clock),
         \/ lock' = lock /\ (r.pc \in InTx <=> call[c].pc \in InTx)
         \/ lock \in {None, c} /\ lock' = IF r.pc \in InTx THEN c ELSE None
  PROVE  IInv'
  <1> USE PublishingAssumption
  <1>1. call' \in [Caller -> Call] /\ lock' \in Caller \cup {None}
    BY DEF IInv, TypeOK
  <1>2. TypeOK'  BY <1>1 DEF IInv, TypeOK
  <1>3. \A k \in Caller : call'[k] = IF k = c THEN r ELSE call[k]
    BY DEF IInv, TypeOK
  <1>4. LockOwner'
    <2> SUFFICES ASSUME NEW k \in Caller PROVE call'[k].pc \in InTx <=> lock' = k
      BY DEF LockOwner
    <2>1. call[k].pc \in InTx <=> lock = k  BY DEF IInv, LockOwner
    <2>2. call[c].pc \in InTx <=> lock = c  BY DEF IInv, LockOwner
    <2>3. None # k /\ None # c  OBVIOUS
    <2>4. CASE k = c  BY <1>3, <2>2, <2>3, <2>4
    <2>5. CASE k # c  BY <1>3, <2>1, <2>3, <2>5
    <2> QED  BY <2>4, <2>5
  <1>5. \A k \in Caller : CallInv(call'[k], row', versions', clock')
    BY <1>3 DEF IInv
  <1>6. Numbered' /\ PublishedIsLatest'
    BY DEF IInv, Numbered, PublishedIsLatest, Latest
  <1>7. ExecutionPinned' /\ IdempotentStart'
    BY DEF IInv, ExecutionPinned, IdempotentStart
  <1> QED  BY <1>2, <1>4, <1>5, <1>6, <1>7 DEF IInv

(* A write of the row outside of a publication: nobody is in a transaction, *)
(* the stamp is new, and the workflow does not show as published.           *)
LEMMA RowStep ==
  ASSUME IInv, UNCHANGED <<versions, executions, lock, answers>>,
         NEW c \in Caller, lock = None, clock' = clock + 1,
         row' = row \/ (row' \in Row /\ row'.stamp = clock' /\ row'.status # "published"),
         call[c].pc \notin InTx, call' \in {call, [call EXCEPT ![c] = Idle]}
  PROVE  IInv'
  <1> USE PublishingAssumption
  <1>1. Idle \in Call  BY Zenon, IdleCall
  <1>2. call' \in [Caller -> Call]  BY <1>1 DEF IInv, TypeOK
  <1>3. clock \in Nat /\ row.stamp \in Nat /\ row.stamp <= clock
    BY DEF IInv, TypeOK, Row
  <1>4. TypeOK'  BY <1>2, <1>3 DEF IInv, TypeOK
  <1>5. \A k \in Caller : call'[k] \in {call[k], Idle}
    BY DEF IInv, TypeOK
  <1>6. \A k \in Caller : call[k].pc \notin InTx
    BY DEF IInv, LockOwner
  <1>7. Idle.pc \notin InTx  BY Zenon, IdleCall
  <1>8. LockOwner'  BY <1>5, <1>6, <1>7 DEF LockOwner
  <1>9. row'.stamp <= clock'  BY <1>3
  <1>10. ASSUME NEW k \in Caller PROVE CallInv(call'[k], row', versions', clock')
    <2>1. CASE call'[k] = Idle
      BY Zenon, <1>4, <2>1, IdleCall DEF TypeOK
    <2>2. CASE call'[k] = call[k]
      <3>1. CallInv(call[k], row, versions, clock)  BY DEF IInv
      <3>2. call[k].stamp \in Nat  BY DEF IInv, TypeOK, Call
      <3>3. call[k].stamp <= clock'  BY <1>3, <3>1, <3>2 DEF CallInv
      <3>4. row' # row => call[k].stamp # row'.stamp
        BY <1>3, <3>1, <3>2 DEF CallInv
      <3> QED  BY ZenonT(60), <1>6, <2>2, <3>1, <3>3, <3>4 DEF CallInv
    <2> QED  BY <1>5, <2>1, <2>2
  <1>11. Numbered' /\ PublishedIsLatest'
    BY DEF IInv, Numbered, PublishedIsLatest, Latest
  <1>12. ExecutionPinned' /\ IdempotentStart'
    BY DEF IInv, ExecutionPinned, IdempotentStart
  <1> QED  BY ZenonT(60), <1>4, <1>8, <1>9, <1>10, <1>11, <1>12 DEF IInv

(* The commit of a publication: the new version is the next one and holds   *)
(* the definition of the row.                                               *)
LEMMA CommitStep == ASSUME IInv, NEW c \in Caller, PublishCommit(c) PROVE IInv'
  <1> USE PublishingAssumption
  <1> DEFINE n == Latest + 1
  <1>1. /\ call[c].pc = "commit" /\ lock = c /\ call[c].version = n
        /\ call[c].def = row.def /\ row.def \in Valid
    BY DEF IInv, LockOwner, CallInv, PublishCommit, InTx, Latest
  <1>2. Latest \in Nat /\ DOMAIN versions = 1..Latest /\ n \in Nat \ {0}
    BY DEF IInv, Numbered
  <1>3. DOMAIN versions' = 1..n
    <2>1. DOMAIN versions' = DOMAIN versions \cup {n}  BY <1>1 DEF PublishCommit
    <2> QED  BY <1>2, <2>1
  <1>4. versions'[n] = row.def  BY <1>1, <1>3, <1>2 DEF PublishCommit
  <1>5. \A i \in DOMAIN versions : i \in DOMAIN versions' /\ versions'[i] = versions[i]
    BY <1>1, <1>2, <1>3 DEF PublishCommit
  <1>6. Latest' = n
    <2>1. Newest(1..n) = n  BY <1>2, NewestInterval
    <2> QED  BY <1>3, <2>1 DEF Latest
  <1> HIDE DEF n
  <1>7. Numbered'
    <2>1. \A i \in DOMAIN versions' : i \in DOMAIN versions \/ i = n
      BY <1>1 DEF PublishCommit
    <2>2. \A i \in DOMAIN versions : versions[i] \in Valid  BY DEF IInv, Numbered
    <2> QED  BY <1>1, <1>2, <1>3, <1>4, <1>5, <1>6, <2>1, <2>2 DEF Numbered
  <1>8. /\ clock \in Nat /\ clock' = clock + 1 /\ row.stamp <= clock
        /\ row' = [row EXCEPT !.status = "published", !.stamp = clock']
    BY DEF IInv, TypeOK, PublishCommit, Stamps
  <1>9. /\ row' \in Row /\ row'.def = row.def
        /\ row'.status = "published" /\ row'.stamp = clock + 1
    <2>1. row \in Row  BY DEF IInv, TypeOK
    <2>2. clock' \in Nat /\ clock' = clock + 1  BY <1>8
    <2>3. row' \in Row  BY Zenon, <1>8, <2>1, <2>2 DEF Row
    <2>4. row'.def = row.def /\ row'.status = "published" /\ row'.stamp = clock'
      BY <1>8, <2>1 DEF Row
    <2> QED  BY <2>2, <2>3, <2>4
  <1>10. /\ call' = [call EXCEPT ![c] = Idle] /\ lock' = None
         /\ UNCHANGED <<executions, answers>>
    BY DEF PublishCommit, Return
  <1>11. call' \in [Caller -> Call]
    BY <1>10 DEF IInv, TypeOK, Idle, Call
  <1>12. TypeOK'
    <2>1. /\ executions' \subseteq Execution /\ IsFiniteSet(executions')
          /\ answers' \subseteq [id : Nat, key : Key, version : Nat, input : Input]
      BY Zenon, <1>10 DEF IInv, TypeOK
    <2>2. DOMAIN versions' \subseteq Nat /\ \A i \in DOMAIN versions' : versions'[i] \in Def
      BY <1>7, PublishingAssumption DEF Numbered
    <2>3. row' \in Row /\ clock' \in Nat
      BY <1>8, <1>9
    <2> QED  BY Zenon, <1>10, <1>11, <2>1, <2>2, <2>3 DEF TypeOK
  <1>13. \A k \in Caller : call'[k] = IF k = c THEN Idle ELSE call[k]
    BY ZenonT(60), <1>10 DEF IInv, TypeOK
  <1>14. \A k \in Caller : k # c => call[k].pc \notin InTx
    BY <1>1 DEF IInv, LockOwner
  <1>15. LockOwner'  BY <1>10, <1>13, <1>14 DEF LockOwner, Idle, InTx
  <1>16. ASSUME NEW k \in Caller PROVE CallInv(call'[k], row', versions', clock')
    <2>1. CASE k = c
      <3>1. call'[k] = Idle  BY Zenon, <1>13, <2>1
      <3>2. clock' \in Nat  BY <1>8
      <3> QED  BY Zenon, <3>1, <3>2, IdleCall
    <2>2. CASE k # c
      <3>1. CallInv(call[k], row, versions, clock)  BY DEF IInv
      <3>2. call[k].stamp \in Nat  BY DEF IInv, TypeOK, Call
      <3>3. call[k].stamp <= clock' /\ call[k].stamp # row'.stamp
        BY <1>8, <1>9, <3>1, <3>2 DEF CallInv
      <3> QED  BY <1>5, <1>13, <1>14, <2>2, <3>1, <3>3 DEF CallInv
    <2> QED  BY <2>1, <2>2
  <1>17. PublishedIsLatest'
    BY <1>2, <1>3, <1>4, <1>6, <1>9 DEF PublishedIsLatest
  <1>18. ExecutionPinned'  BY <1>5, <1>10 DEF IInv, ExecutionPinned
  <1>19. IdempotentStart'  BY <1>10 DEF IInv, IdempotentStart
  <1>20. row'.stamp <= clock'  BY <1>8, <1>9
  <1> QED  BY ZenonT(60), <1>7, <1>12, <1>15, <1>16, <1>17, <1>18, <1>19, <1>20 DEF IInv

(* A request that gets an execution, its own or that of an equal request.   *)
LEMMA StartStep ==
  ASSUME IInv, NEW c \in Caller, StartFind(c) \/ StartInsert(c),
         call' = [call EXCEPT ![c] = Idle]
  PROVE  IInv'
  <1> USE PublishingAssumption
  <1>1. /\ call[c].pc \in {"find", "insert"}
        /\ UNCHANGED <<row, versions, lock, clock>>
    BY ZenonT(60) DEF StartFind, StartInsert
  <1>2. /\ call[c].key \in Key /\ call[c].input \in Input
        /\ call[c].version \in DOMAIN versions /\ call[c].def = versions[call[c].version]
    BY <1>1 DEF IInv, CallInv
  <1>3. /\ call[c].version \in Nat /\ call[c].def \in Valid /\ call[c].def \in Def
    BY ZenonT(60), <1>2 DEF IInv, TypeOK, Numbered
  <1> DEFINE x == [id |-> Cardinality(executions) + 1, key |-> call[c].key,
                   version |-> call[c].version, input |-> call[c].input,
                   nodes |-> call[c].def]
             a(y) == [id |-> y.id, key |-> call[c].key, version |-> call[c].version,
                      input |-> call[c].input]
  <1>4. x \in Execution
    <2>1. Cardinality(executions) \in Nat  BY ZenonT(60), FS_CardinalityType DEF IInv, TypeOK
    <2> QED  BY <1>2, <1>3, <2>1 DEF Execution
  <1>5. \/ UNCHANGED <<executions, answers>>
        \/ /\ executions' = executions
           /\ \E y \in executions : /\ y.key = call[c].key /\ y.input = call[c].input
                                    /\ y.version = call[c].version
                                    /\ answers' = answers \cup {a(y)}
        \/ /\ \A y \in executions : y.key # call[c].key
           /\ executions' = executions \cup {x} /\ answers' = answers \cup {a(x)}
    <2>1. CASE StartFind(c)
      <3>1. call[c].pc = "find" /\ call'[c] = Idle
        BY <2>1 DEF StartFind, IInv, TypeOK
      <3>2. PICK y \in executions : Reuse(c, y)
        BY <2>1, <3>1 DEF StartFind, Idle, IInv, TypeOK
      <3> QED  BY <3>2 DEF Reuse, Answer, SameRequest
    <2>2. CASE StartInsert(c)
      <3>1. CASE \E y \in executions : Reuse(c, y)
        BY ZenonT(30), <3>1 DEF Reuse, Answer, SameRequest
      <3>2. CASE ~\E y \in executions : Reuse(c, y)
        BY ZenonT(60), <2>2, <3>2 DEF StartInsert, Answer, Taken
      <3> QED  BY ZenonT(30), <3>1, <3>2
    <2> QED  BY ZenonT(60), <2>1, <2>2
  <1>6. \A y \in Execution : y.key = call[c].key =>
          a(y) \in [id : Nat, key : Key, version : Nat, input : Input]
    BY ZenonT(60), <1>2, <1>3 DEF Execution
  <1>7. executions' \subseteq Execution /\ IsFiniteSet(executions')
    <2>1. executions \subseteq Execution /\ IsFiniteSet(executions)  BY Zenon DEF IInv, TypeOK
    <2>2. executions' = executions \/ executions' = executions \cup {x}  BY ZenonT(60), <1>5
    <2> HIDE DEF x, a
    <2>3. executions' \subseteq Execution  BY <1>4, <2>1, <2>2
    <2>4. IsFiniteSet(executions')  BY ZenonT(60), <2>1, <2>2, FS_AddElement
    <2> QED  BY <2>3, <2>4
  <1>8. answers' \subseteq [id : Nat, key : Key, version : Nat, input : Input]
    <2>1. executions \subseteq Execution  BY DEF IInv, TypeOK
    <2>2. x.key = call[c].key  BY ZenonT(60)
    <2>3. answers \subseteq [id : Nat, key : Key, version : Nat, input : Input]
      BY Zenon DEF IInv, TypeOK
    <2> HIDE DEF x, a
    <2>4. answers' = answers \/ \E y \in Execution : /\ y.key = call[c].key
                                                    /\ answers' = answers \cup {a(y)}
      BY ZenonT(60), <1>4, <1>5, <2>1, <2>2
    <2> QED  BY ZenonT(60), <1>6, <2>3, <2>4
  <1>9. call' \in [Caller -> Call]  BY ZenonT(60), IdleCall DEF IInv, TypeOK
  <1>10. TypeOK'  BY ZenonT(60), <1>1, <1>7, <1>8, <1>9 DEF IInv, TypeOK
  <1>11. \A k \in Caller : call'[k] = IF k = c THEN Idle ELSE call[k]
    BY DEF IInv, TypeOK
  <1>12. LockOwner'  BY <1>1, <1>11 DEF IInv, LockOwner, Idle, InTx
  <1>13. \A k \in Caller : CallInv(call'[k], row', versions', clock')
    <2>1. CallInv(Idle, row, versions, clock)  BY Zenon, IdleCall DEF IInv, TypeOK
    <2> QED  BY ZenonT(60), <1>1, <1>11, <2>1 DEF IInv
  <1>14. Numbered' /\ PublishedIsLatest'
    <2>1. Numbered'  BY <1>1 DEF IInv, Numbered, Latest
    <2>2. PublishedIsLatest'  BY ZenonT(60), <1>1 DEF IInv, PublishedIsLatest, Latest
    <2> QED  BY ZenonT(60), <2>1, <2>2
  <1>15. ExecutionPinned'
    <2>1. /\ x.version \in DOMAIN versions /\ x.nodes = versions[x.version]
          /\ x.nodes \in Valid
      BY ZenonT(60), <1>2, <1>3
    <2>2. \A y \in executions' : y \in executions \/ y = x  BY ZenonT(60), <1>5
    <2> HIDE DEF x, a
    <2> QED  BY ZenonT(60), <1>1, <2>1, <2>2 DEF IInv, ExecutionPinned
  <1>16. IdempotentStart'
    <2>1. \A y, z \in executions' : y.key = z.key => y = z
      <3>1. \A y, z \in executions : y.key = z.key => y = z  BY Zenon DEF IInv, IdempotentStart
      <3>2. x.key = call[c].key  BY ZenonT(60)
      <3> HIDE DEF x, a
      <3>3. CASE executions' = executions  BY Zenon, <3>1, <3>3
      <3>4. CASE (\A y \in executions : y.key # x.key) /\ executions' = executions \cup {x}
        <4>1. \A y \in executions' : y \in executions \/ y = x  BY Zenon, <3>4
        <4> QED  BY ZenonT(60), <3>1, <3>4, <4>1
      <3> QED  BY ZenonT(60), <1>5, <3>2, <3>3, <3>4
    <2>2. ASSUME NEW b \in answers'
          PROVE  \E y \in executions' : /\ y.id = b.id /\ y.key = b.key
                                        /\ y.version = b.version /\ y.input = b.input
      <3>1. CASE b \in answers
        BY <1>5, <3>1 DEF IInv, IdempotentStart
      <3>2. CASE b \notin answers
        <4>1. PICK y \in executions' : /\ y.key = call[c].key /\ y.input = call[c].input
                                       /\ y.version = call[c].version
                                       /\ answers' = answers \cup {a(y)}
          BY Zenon, <1>5, <3>2
        <4>2. b = a(y)  BY ZenonT(60), <3>2, <4>1
        <4>3. /\ y.id = b.id /\ y.key = b.key
              /\ y.version = b.version /\ y.input = b.input
          BY ZenonT(60), <4>1, <4>2
        <4> QED  BY Zenon, <4>3
      <3> QED  BY ZenonT(60), <3>1, <3>2
    <2> QED  BY ZenonT(60), <2>1, <2>2 DEF IdempotentStart
  <1> QED  BY <1>1, <1>10, <1>12, <1>13, <1>14, <1>15, <1>16 DEF IInv

(* Every step of every request keeps the invariant.                         *)
LEMMA StepIInv == IInv /\ [Next]_vars => IInv'
  <1> SUFFICES ASSUME IInv, [Next]_vars PROVE IInv'  BY Zenon
  <1> USE PublishingAssumption
  <1>0. call \in [Caller -> Call] /\ row \in Row /\ clock \in Nat /\ row.stamp <= clock
    BY ZenonT(60) DEF IInv, TypeOK
  <1>1. ASSUME NEW c \in Caller, CallInv(Idle, row, versions, clock),
               CreateWorkflow(c) \/ EditWrite(c) \/ DeleteWorkflow(c)
        PROVE  IInv'
    <2>1. call[c].pc \notin InTx  BY <1>1 DEF CreateWorkflow, EditWrite, DeleteWorkflow, InTx
    <2>2. lock = None /\ clock' = clock + 1 /\ clock' \in Nat
      BY <1>0, <1>1, <2>1 DEF CreateWorkflow, EditWrite, DeleteWorkflow, Stamps, IInv, LockOwner
    <2>3. row' = row \/ (row' \in Row /\ row'.stamp = clock' /\ row'.status # "published")
      <3>1. CASE CreateWorkflow(c)  BY <2>2, <3>1 DEF CreateWorkflow, Row
      <3>2. CASE EditWrite(c)  BY <2>2, <3>2 DEF EditWrite, Edited, Row
      <3>3. CASE DeleteWorkflow(c)  BY Zenon, <1>0, <2>2, <3>3 DEF DeleteWorkflow, Row
      <3> QED  BY <1>1, <3>1, <3>2, <3>3
    <2>4. /\ UNCHANGED <<versions, executions, lock, answers>>
          /\ call' \in {call, [call EXCEPT ![c] = Idle]}
      BY <1>1 DEF CreateWorkflow, EditWrite, DeleteWorkflow, Return
    <2> QED  BY <2>1, <2>2, <2>3, <2>4, RowStep
  <1>2. CallInv(Idle, row, versions, clock) /\ Idle \in Call /\ Idle.pc \notin InTx
    BY <1>0 DEF CallInv, Idle, InTx, Call
  <1>3. ASSUME NEW c \in Caller, EditRead(c) PROVE IInv'
    <2>1. PICK r \in Call : r = [call[c] EXCEPT !.pc = "edit"]
      <3>1. call[c] \in Call  BY <1>0
      <3>2. [call[c] EXCEPT !.pc = "edit"] \in Call  BY Zenon, <3>1 DEF Call
      <3> QED  BY <3>2
    <2>2. call' = [call EXCEPT ![c] = r]  BY <1>0, <1>3, <2>1 DEF EditRead
    <2>3. CallInv(call[c], row, versions, clock)  BY DEF IInv
    <2>4. /\ r.pc = "edit" /\ r.stamp = call[c].stamp /\ r.pc \notin InTx
          /\ call[c].pc \notin InTx
      BY ZenonT(60), <1>0, <1>3, <2>1 DEF EditRead, InTx, Call
    <2>5. CallInv(r, row, versions, clock)  BY <2>3, <2>4 DEF CallInv
    <2> QED  BY Zenon, <1>3, <2>2, <2>4, <2>5, CallStep DEF EditRead
  <1>4. ASSUME NEW c \in Caller, PublishRead(c) PROVE IInv'
    <2>1. PICK r \in Call : r = [Idle EXCEPT !.pc = "lock", !.def = row.def, !.stamp = row.stamp]
      BY Zenon, <1>0 DEF Call, Idle, Row
    <2>2. r.pc = "lock" /\ r.def = row.def /\ r.stamp = row.stamp
      BY <2>1 DEF Idle
    <2>3. r.pc \notin InTx /\ call[c].pc \notin InTx  BY <1>4, <2>2 DEF PublishRead, InTx
    <2>4. CallInv(r, row, versions, clock)  BY <1>0, <1>4, <2>2, <2>3 DEF CallInv, PublishRead
    <2> QED  BY Zenon, <1>4, <2>1, <2>3, <2>4, CallStep DEF PublishRead
  <1>5. ASSUME NEW c \in Caller, PublishLock(c) PROVE IInv'
    <2>1. CASE UnchangedSince(c)
      <3>1. PICK r \in Call : r = [call[c] EXCEPT !.pc = "number", !.def = row.def]
        <4>1. call[c] \in Call /\ row.def \in Def  BY <1>0 DEF Row
        <4>2. [call[c] EXCEPT !.pc = "number", !.def = row.def] \in Call  BY Zenon, <4>1 DEF Call
        <4> QED  BY <4>2
      <3>2. call' = [call EXCEPT ![c] = r] /\ lock = None /\ lock' = c
        BY ZenonT(30), <1>0, <1>5, <2>1, <3>1 DEF PublishLock
      <3>3. r.pc = "number" /\ r.def = row.def /\ r.stamp = call[c].stamp
        BY <1>0, <3>1 DEF Call
      <3>4. CallInv(call[c], row, versions, clock)  BY DEF IInv
      <3>5. row.def \in Valid /\ row.status \in {"draft", "published"}
        <4>1. call[c].pc = "lock" /\ Visible /\ row.stamp = call[c].stamp
          BY Zenon, <1>5, <2>1 DEF PublishLock, UnchangedSince
        <4> QED  BY <3>4, <4>1 DEF CallInv, Visible
      <3>6. CallInv(r, row, versions, clock) /\ r.pc \in InTx
        BY <3>3, <3>4, <3>5 DEF CallInv, InTx
      <3> QED  BY Zenon, <1>5, <3>2, <3>6, CallStep DEF PublishLock
    <2>2. CASE ~UnchangedSince(c)
      <3>1. call' = [call EXCEPT ![c] = Idle] /\ lock' = lock /\ call[c].pc \notin InTx
        BY <1>5, <2>2 DEF PublishLock, Return, InTx
      <3> QED  BY Zenon, <1>2, <1>5, <3>1, CallStep DEF PublishLock
    <2> QED  BY <2>1, <2>2
  <1>6. ASSUME NEW c \in Caller, PublishNumber(c) PROVE IInv'
    <2>1. Latest \in Nat  BY DEF IInv, Numbered
    <2>2. PICK r \in Call : r = [call[c] EXCEPT !.pc = "commit", !.version = Latest + 1]
      <3>1. call[c] \in Call /\ Latest + 1 \in Nat  BY <1>0, <2>1
      <3>2. [call[c] EXCEPT !.pc = "commit", !.version = Latest + 1] \in Call  BY Zenon, <3>1 DEF Call
      <3> QED  BY <3>2
    <2>3. call' = [call EXCEPT ![c] = r]  BY Zenon, <1>0, <1>6, <2>2 DEF PublishNumber
    <2>4. /\ r.pc = "commit" /\ r.version = Latest + 1
          /\ r.def = call[c].def /\ r.stamp = call[c].stamp
      BY <1>0, <2>2 DEF Call
    <2>5. CallInv(call[c], row, versions, clock)  BY DEF IInv
    <2>6. r.pc \in InTx /\ call[c].pc \in InTx  BY ZenonT(60), <1>6, <2>4 DEF PublishNumber, InTx
    <2>7. CallInv(r, row, versions, clock)  BY <2>4, <2>5, <2>6 DEF CallInv, Latest
    <2> QED  BY Zenon, <1>6, <2>3, <2>6, <2>7, CallStep DEF PublishNumber
  <1>7. ASSUME NEW c \in Caller, Abandon(c) PROVE IInv'
    <2>1. lock = c <=> call[c].pc \in InTx  BY ZenonT(60) DEF IInv, LockOwner
    <2>2. \/ lock' = lock /\ (Idle.pc \in InTx <=> call[c].pc \in InTx)
          \/ lock \in {None, c} /\ lock' = IF Idle.pc \in InTx THEN c ELSE None
      BY <1>2, <1>7, <2>1 DEF Abandon
    <2> QED  BY Zenon, <1>2, <1>7, <2>2, CallStep DEF Abandon, Return
  <1>8. ASSUME NEW c \in Caller, StartCheck(c) PROVE IInv'
    <2>1. PICK k \in Key, i \in Input, n \in 0..(Latest + 1) :
            call' = [call EXCEPT ![c] = [Idle EXCEPT !.pc = "select", !.key = k,
                                                     !.input = i, !.version = n]]
      BY Zenon, <1>8 DEF StartCheck
    <2>2. n \in Nat  BY DEF IInv, Numbered
    <2>3. PICK r \in Call : r = [Idle EXCEPT !.pc = "select", !.key = k,
                                             !.input = i, !.version = n]
      BY Zenon, <2>2 DEF Call, Idle
    <2>4. r.pc = "select" /\ r.key = k /\ r.input = i /\ r.stamp = 0
      BY <2>3 DEF Idle
    <2>5. r.pc \notin InTx /\ call[c].pc \notin InTx  BY ZenonT(60), <1>8, <2>4 DEF StartCheck, InTx
    <2>6. CallInv(r, row, versions, clock)  BY <1>0, <2>4, <2>5 DEF CallInv
    <2> QED  BY ZenonT(30), <1>8, <2>1, <2>3, <2>5, <2>6, CallStep DEF StartCheck
  <1>9. ASSUME NEW c \in Caller, StartSelect(c) PROVE IInv'
    <2>1. CASE call' = [call EXCEPT ![c] = Idle]
      BY Zenon, <1>2, <1>9, <2>1, CallStep DEF StartSelect, InTx
    <2>2. CASE ~(call' = [call EXCEPT ![c] = Idle])
      <3>1. PICK n \in DOMAIN versions :
              call' = [call EXCEPT ![c].pc = "find", ![c].version = n, ![c].def = versions[n]]
        BY Zenon, <1>9, <2>2 DEF StartSelect, Return, Snapshot
      <3>2. n \in Nat /\ versions[n] \in Def  BY DEF IInv, TypeOK
      <3>3. PICK r \in Call : r = [call[c] EXCEPT !.pc = "find", !.version = n, !.def = versions[n]]
        <4>1. call[c] \in Call  BY <1>0
        <4>2. [call[c] EXCEPT !.pc = "find", !.version = n, !.def = versions[n]] \in Call
          BY Zenon, <3>2, <4>1 DEF Call
        <4> QED  BY <4>2
      <3>4. call' = [call EXCEPT ![c] = r]  BY Zenon, <1>0, <3>1, <3>3
      <3>5. /\ r.pc = "find" /\ r.version = n /\ r.def = versions[n]
            /\ r.stamp = call[c].stamp /\ r.key = call[c].key /\ r.input = call[c].input
        BY <1>0, <3>3 DEF Call
      <3>6. CallInv(call[c], row, versions, clock)  BY DEF IInv
      <3>7. r.pc \notin InTx /\ call[c].pc = "select" /\ call[c].pc \notin InTx
        BY ZenonT(60), <1>9, <3>5 DEF StartSelect, InTx
      <3>8. CallInv(r, row, versions, clock)  BY ZenonT(60), <3>5, <3>6, <3>7 DEF CallInv
      <3> QED  BY ZenonT(30), <1>9, <3>4, <3>7, <3>8, CallStep DEF StartSelect
    <2> QED  BY <2>1, <2>2
  <1>10. ASSUME NEW c \in Caller, StartFind(c) \/ StartInsert(c) PROVE IInv'
    <2>1. CASE call' = [call EXCEPT ![c] = Idle]  BY Zenon, <1>10, <2>1, StartStep
    <2>2. CASE ~(call' = [call EXCEPT ![c] = Idle])
      <3>1. /\ call[c].pc = "find" /\ call' = [call EXCEPT ![c].pc = "insert"]
            /\ UNCHANGED <<row, versions, executions, lock, clock, answers>>
        BY <1>10, <2>2 DEF StartFind, StartInsert, Reuse, Return
      <3>2. PICK r \in Call : r = [call[c] EXCEPT !.pc = "insert"]
        <4>1. call[c] \in Call  BY <1>0
        <4>2. [call[c] EXCEPT !.pc = "insert"] \in Call  BY Zenon, <4>1 DEF Call
        <4> QED  BY <4>2
      <3>3. call' = [call EXCEPT ![c] = r]  BY <1>0, <3>1, <3>2
      <3>4. /\ r.pc = "insert" /\ r.version = call[c].version /\ r.def = call[c].def
            /\ r.stamp = call[c].stamp /\ r.key = call[c].key /\ r.input = call[c].input
        BY <1>0, <3>2 DEF Call
      <3>5. CallInv(call[c], row, versions, clock)  BY DEF IInv
      <3>6. r.pc \notin InTx /\ call[c].pc \notin InTx  BY <3>1, <3>4 DEF InTx
      <3>7. CallInv(r, row, versions, clock)  BY <3>1, <3>4, <3>5, <3>6 DEF CallInv
      <3> QED  BY Zenon, <3>1, <3>3, <3>6, <3>7, CallStep
    <2> QED  BY <2>1, <2>2
  <1>11. CASE UNCHANGED vars
    <2>1. TypeOK' /\ LockOwner' /\ Numbered'
      <3>1. TypeOK'  BY ZenonT(60), <1>11 DEF vars, IInv, TypeOK
      <3>2. LockOwner' /\ Numbered'
        BY ZenonT(60), <1>11 DEF vars, IInv, LockOwner, Numbered, Latest
      <3> QED  BY <3>1, <3>2
    <2>2. PublishedIsLatest' /\ ExecutionPinned' /\ IdempotentStart'
      BY ZenonT(60), <1>11 DEF vars, IInv, PublishedIsLatest, ExecutionPinned, IdempotentStart,
         Latest
    <2>3. row'.stamp <= clock' /\ \A c \in Caller : CallInv(call'[c], row', versions', clock')
      BY <1>11 DEF vars, IInv
    <2> QED  BY ZenonT(60), <2>1, <2>2, <2>3 DEF IInv
  <1> QED
    BY ZenonT(60), <1>1, <1>2, <1>3, <1>4, <1>5, <1>6, <1>7, <1>8, <1>9, <1>10, <1>11, CommitStep
    DEF Next

(* The inductive invariant holds in every reachable state.                  *)
THEOREM IInvHolds == Spec => []IInv
  BY InitIInv, StepIInv, PTL DEF Spec

(* All tables and requests keep their types.                                *)
THEOREM TypeCorrect == Spec => []TypeOK
  <1>1. IInv => TypeOK  BY DEF IInv
  <1> QED  BY <1>1, IInvHolds, PTL

(* Whatever edits and publications overlap (workflow_repository.go:145),    *)
(* versions are numbered without gaps, and every one of them is valid.      *)
THEOREM VersionsSoundHolds == Spec => []VersionsSound
  <1>1. IInv => VersionsSound
    <2> SUFFICES ASSUME IInv PROVE VersionsSound  OBVIOUS
    <2>1. /\ Latest \in Nat /\ DOMAIN versions = 1..Latest
          /\ \A n \in DOMAIN versions : versions[n] \in Valid
      BY DEF IInv, Numbered
    <2>2. Latest \in DOMAIN versions \cup {0}  BY <2>1
    <2> QED  BY <2>1, <2>2 DEF VersionsSound
  <1> QED  BY <1>1, IInvHolds, PTL

(* A workflow that shows as published is what its latest version holds.     *)
THEOREM PublishedIsLatestHolds == Spec => []PublishedIsLatest
  <1>1. IInv => PublishedIsLatest  BY DEF IInv
  <1> QED  BY <1>1, IInvHolds, PTL

(* The node rows of an execution are those of the valid version it is       *)
(* pinned to (workflow_execution_service.go:104).                           *)
THEOREM ExecutionPinnedHolds == Spec => []ExecutionPinned
  <1>1. IInv => ExecutionPinned  BY DEF IInv
  <1> QED  BY <1>1, IInvHolds, PTL

(* One key starts one execution, and only equal requests are answered with  *)
(* it (workflow_execution_repository.go:40).                                *)
THEOREM IdempotentStartHolds == Spec => []IdempotentStart
  <1>1. IInv => IdempotentStart  BY DEF IInv
  <1> QED  BY <1>1, IInvHolds, PTL

(* Edits, publications and deletions, in whatever overlap, do what module   *)
(* VersionLog allows: no version ever changes or disappears, each new one   *)
(* is the valid draft, and nothing happens to a deleted workflow.           *)
THEOREM LogRefinement == Spec => ImplementsLog
  <1> USE PublishingAssumption
  <1>1. Init => Log!LogInit  BY DEF Init, Log!LogInit
  <1>2. IInv /\ [Next]_vars =>
          [Log!Edit \/ Log!Publish \/ Log!Delete]_<<row.status, row.def, versions>>
    <2> SUFFICES ASSUME IInv, [Next]_vars,
                        ~(UNCHANGED <<row.status, row.def, versions>>)
                 PROVE  Log!Edit \/ Log!Publish \/ Log!Delete
      OBVIOUS
    <2>0. row \in Row  BY DEF IInv, TypeOK
    <2>1. ~(UNCHANGED <<row, versions>>)  BY Zenon
    <2>2. PICK c \in Caller : CreateWorkflow(c) \/ EditWrite(c) \/ DeleteWorkflow(c) \/ PublishCommit(c)
      BY ZenonT(30), <2>1 DEF Next, vars, EditRead, PublishRead, PublishLock, PublishNumber,
                  StartCheck, StartSelect, StartFind, StartInsert, Abandon
    <2>3. CASE CreateWorkflow(c)
      BY <2>3 DEF CreateWorkflow, Log!Edit, Log!Live
    <2>4. CASE EditWrite(c)
      BY <2>1, <2>4 DEF EditWrite, Writable, Edited, Log!Edit, Log!Live
    <2>5. CASE DeleteWorkflow(c)
      <3>1. row'.status = "deleted" /\ row'.def = row.def  BY <2>0, <2>5 DEF DeleteWorkflow, Row
      <3> QED  BY <2>5, <3>1 DEF DeleteWorkflow, Visible, Log!Delete, Log!Live
    <2>6. CASE PublishCommit(c)
      <3>1. call[c].version = Latest + 1 /\ call[c].def = row.def /\ row.def \in Valid
        BY ZenonT(60), <2>6 DEF IInv, CallInv, PublishCommit, InTx, Latest
      <3>2. Latest \in Nat /\ DOMAIN versions = 1..Latest  BY DEF IInv, Numbered
      <3>3. row'.status = "published" /\ row'.def = row.def  BY <2>0, <2>6 DEF PublishCommit, Row
      <3>4. (DOMAIN versions) \cup {Latest + 1} = 1..(Latest + 1) /\ Latest \in DOMAIN versions \cup {0}
        BY <3>2
      <3>5. versions' = [i \in 1..(Latest + 1) |-> IF i = Latest + 1 THEN row.def ELSE versions[i]]
        BY <2>6, <3>1, <3>4 DEF PublishCommit
      <3> QED
        BY ZenonT(60), <2>6, <3>1, <3>2, <3>3, <3>4, <3>5 DEF PublishCommit, Writable, Log!Publish, Log!Live
    <2> QED  BY <2>2, <2>3, <2>4, <2>5, <2>6
  <1> QED  BY <1>1, <1>2, IInvHolds, PTL DEF Spec, ImplementsLog, Log!LogSpec
-----------------------------------------------------------------------------
(* Every set of natural numbers has a smallest element.                    *)
LEMMA Smallest ==
  ASSUME NEW C, C \subseteq Nat, C # {}
  PROVE  \E x \in C : \A y \in C : x <= y
<1> DEFINE R == OpToRel(<, Nat)
<1>1. IsWellFoundedOn(R, Nat)
  BY NatLessThanWellFounded
<1>2. \A x, y \in Nat : x < y => <<x, y>> \in R
  BY DEF OpToRel
<1> HIDE DEF R
<1>3. PICK x \in C : \A y \in C : ~(<<y, x>> \in R)
  BY Zenon, <1>1, WFMin
<1>4. \A y \in C : ~(y < x)
  BY Zenon, <1>2, <1>3
<1> QED BY <1>4

(* A set of numbers that holds 0 and, with a number, the next one.         *)
LEMMA Counting ==
  ASSUME NEW S, 0 \in S, \A n \in Nat : n \in S => n + 1 \in S
  PROVE  Nat \subseteq S
<1> SUFFICES ASSUME Nat \ S # {} PROVE FALSE
  BY Zenon
<1>1. PICK x \in Nat \ S : \A y \in Nat \ S : x <= y
  <2>1. Nat \ S \subseteq Nat
    BY Zenon
  <2> QED BY Zenon, <2>1, Smallest
<1>2. x # 0
  BY Zenon
<1>3. x - 1 \in Nat /\ (x - 1) + 1 = x /\ ~(x <= x - 1)
  BY <1>2
<1>4. x - 1 \in S
  BY Zenon, <1>1, <1>3
<1> QED BY Zenon, <1>3, <1>4

(* f has the values of a loop of n rounds, g[i] being what round i does.    *)
Values(f, n, T, a, g) ==
  f \in [0..n -> T] /\ f[0] = a /\ \A i \in 1..n : f[i] = g[i][f[i - 1]]

(* Every loop has its values.                                              *)
LEMMA Rounds ==
  ASSUME NEW T, NEW a \in T, NEW g \in [Nat -> [T -> T]], NEW n \in Nat
  PROVE  \E f : Values(f, n, T, a, g)
<1> DEFINE S == {m \in Nat : \E f : Values(f, m, T, a, g)}
<1>1. 0 \in S
  <2> DEFINE f == [i \in 0..0 |-> a]
  <2>1. Values(f, 0, T, a, g)
    BY DEF Values
  <2> QED BY <2>1
<1>2. ASSUME NEW m \in Nat, m \in S PROVE m + 1 \in S
  <2>1. PICK f : Values(f, m, T, a, g)
    BY <1>2
  <2> DEFINE h == [i \in 0..(m + 1) |-> IF i = m + 1 THEN g[m + 1][f[m]] ELSE f[i]]
  <2>2. h \in [0..(m + 1) -> T]
    <3>1. g[m + 1][f[m]] \in T
      BY <2>1 DEF Values
    <3>2. ASSUME NEW i \in 0..(m + 1), i # m + 1 PROVE f[i] \in T
      BY <2>1, <3>2 DEF Values
    <3> QED BY <3>1, <3>2
  <2>3. h[0] = f[0] /\ h[m + 1] = g[m + 1][h[(m + 1) - 1]]
    OBVIOUS
  <2>4. ASSUME NEW i \in 1..m PROVE h[i] = g[i][h[i - 1]]
    <3>1. h[i] = f[i] /\ h[i - 1] = f[i - 1]
      OBVIOUS
    <3> QED BY Zenon, <2>1, <3>1 DEF Values
  <2>5. \A i \in 1..(m + 1) : i \in 1..m \/ i = m + 1
    OBVIOUS
  <2> HIDE DEF h
  <2>6. Values(h, m + 1, T, a, g)
    BY Zenon, <2>1, <2>2, <2>3, <2>4, <2>5 DEF Values
  <2> QED BY <2>6
<1> HIDE DEF S
<1>3. n \in S
  BY Zenon, <1>1, <1>2, Counting
<1> QED BY <1>3 DEF S
-----------------------------------------------------------------------------
(* Products grow with their factors.                                       *)
LEMMA Products ==
  /\ \A a, b \in Nat : a * b \in Nat /\ a * b = b * a
  /\ \A a, b, c \in Nat : a * (b + c) = a * b + a * c /\ (b + c) * a = b * a + c * a
  /\ \A a, b, c \in Nat : a * (b * c) = (a * b) * c
  /\ \A a, b, c \in Nat : a <= b => a * c <= b * c
<1>1. \A a, b \in Nat : a * b \in Nat /\ a * b = b * a
  OBVIOUS
<1>2. \A a, b, c \in Nat : a * (b + c) = a * b + a * c /\ (b + c) * a = b * a + c * a
  OBVIOUS
<1>3. \A a, b, c \in Nat : a * (b * c) = (a * b) * c
  OBVIOUS
<1>4. ASSUME NEW a \in Nat, NEW b \in Nat, NEW c \in Nat, a <= b PROVE a * c <= b * c
  <2>1. PICK d \in Nat : b = a + d
    <3>1. b - a \in Nat /\ b = a + (b - a)
      BY <1>4
    <3> QED BY Zenon, <3>1
  <2>2. (a + d) * c = a * c + d * c /\ d * c \in Nat /\ a * c \in Nat
    BY <1>2
  <2> QED BY <2>1, <2>2
<1> QED BY Zenon, <1>1, <1>2, <1>3, <1>4

(* A bucket that was used: its last call was not before its reading.       *)
Filled == [tokens : Nat, ts : Nat, allowed : BOOLEAN, at : Nat]
Used == {b \in Filled : b.at >= b.ts}

(* The tokens a call finds.                                                *)
LEMMA RefilledExactly ==
  ASSUME NEW rate \in Nat, NEW burst \in Nat, NEW now \in Nat, burst <= rate * Expiry
  PROVE  /\ Refilled(NoBucket, now, rate, burst) = burst * Grain
         /\ \A last \in Used :
              Refilled(last, now, rate, burst) =
                Lower(burst * Grain, last.tokens + rate * Higher(0, now - last.ts))
<1>0. Grain \in Nat /\ Expiry \in Nat /\ burst * Grain \in Nat
  BY RateAssumption
<1>1. Refilled(NoBucket, now, rate, burst) = burst * Grain
  BY Zenon DEF Refilled
<1>2. ASSUME NEW last \in Used
      PROVE  Refilled(last, now, rate, burst) =
               Lower(burst * Grain, last.tokens + rate * Higher(0, now - last.ts))
  <2> DEFINE d == Higher(0, now - last.ts)
  <2>1. last.tokens \in Nat /\ last.ts \in Nat /\ last.at \in Nat /\ last # NoBucket
    BY <1>2 DEF Used, Filled, NoBucket
  <2>2. d \in Nat /\ now - last.ts <= d
    BY <2>1 DEF Higher
  <2> HIDE DEF d
  <2>3. rate * d \in Nat /\ d * rate = rate * d
    BY Zenon, <2>2, Products
  <2>4. CASE Expired(last, now)
    <3>1. Expiry * Grain \in Nat /\ Expiry * Grain <= d
      BY <1>0, <1>2, <2>1, <2>2, <2>4 DEF Expired, Used
    <3>2. (Expiry * Grain) * rate <= d * rate
      BY Zenon, <2>2, <3>1, Products
    <3>3. burst * Grain <= (rate * Expiry) * Grain
      BY Zenon, <1>0, Products
    <3>4. (rate * Expiry) * Grain = (Expiry * Grain) * rate
      <4>1. rate * (Expiry * Grain) = (rate * Expiry) * Grain
        BY <1>0
      <4>2. rate * (Expiry * Grain) = (Expiry * Grain) * rate
        BY Zenon, <3>1, Products
      <4> QED BY Zenon, <4>1, <4>2
    <3>5. burst * Grain <= rate * d /\ (Expiry * Grain) * rate \in Nat
      <4>1. (Expiry * Grain) * rate \in Nat
        BY Zenon, <3>1, Products
      <4> QED BY <1>0, <2>3, <3>2, <3>3, <3>4, <4>1
    <3>6. Refilled(last, now, rate, burst) = burst * Grain
      BY Zenon, <2>4 DEF Refilled
    <3> QED BY <1>0, <2>1, <2>3, <3>5, <3>6 DEF Lower, d
  <2>5. CASE ~Expired(last, now)
    BY Zenon, <2>1, <2>3, <2>5 DEF Refilled, d
  <2> QED BY Zenon, <2>4, <2>5
<1> QED BY Zenon, <1>0, <1>1, <1>2

(* One run of the script.                                                  *)
LEMMA Allowed ==
  ASSUME NEW rate \in Nat, NEW burst \in Nat, NEW now \in Nat, burst <= rate * Expiry,
         NEW last \in Used \cup {NoBucket},
         NEW T, T = Refilled(last, now, rate, burst),
         NEW c, c = Allow(last, now, rate, burst)
  PROVE  /\ c \in Used /\ c.ts = now /\ T \in Nat
         /\ c.allowed <=> T >= Grain
         /\ c.tokens = IF c.allowed THEN T - Grain ELSE T
<1>0. Grain \in Nat \ {0} /\ burst * Grain \in Nat
  BY RateAssumption
<1>1. T \in Nat
  <2>1. CASE last = NoBucket
    BY <1>0, <2>1, RefilledExactly
  <2>2. CASE last \in Used
    <3>1. last.tokens \in Nat /\ Higher(0, now - last.ts) \in Nat
      BY <2>2 DEF Used, Filled, Higher
    <3>2. rate * Higher(0, now - last.ts) \in Nat
      BY Zenon, <3>1, Products
    <3>3. T = Lower(burst * Grain, last.tokens + rate * Higher(0, now - last.ts))
      BY <2>2, RefilledExactly
    <3> QED BY <1>0, <3>1, <3>2, <3>3 DEF Lower
  <2> QED BY Zenon, <2>1, <2>2
<1>2. last.at \in Nat
  BY DEF Used, Filled, NoBucket
<1>3. c = [tokens |-> IF T >= Grain THEN T - Grain ELSE T,
           ts |-> now, allowed |-> T >= Grain, at |-> Higher(last.at, now)]
  BY Zenon DEF Allow
<1>4. /\ Higher(last.at, now) \in Nat /\ Higher(last.at, now) >= now
      /\ (T >= Grain) \in BOOLEAN /\ (IF T >= Grain THEN T - Grain ELSE T) \in Nat
  BY <1>0, <1>1, <1>2 DEF Higher
<1>5. /\ c.ts = now /\ c.at = Higher(last.at, now) /\ c.allowed = (T >= Grain)
      /\ c.tokens = IF T >= Grain THEN T - Grain ELSE T
  BY <1>3
<1>6. c \in Filled
  BY <1>3, <1>4 DEF Filled
<1> QED BY Zenon, <1>1, <1>4, <1>5, <1>6 DEF Used

(* The runs of the script one after the other.                             *)
LEMMA CallsInTurn ==
  ASSUME NEW rate \in Nat, NEW burst \in Nat, burst <= rate * Expiry,
         NEW n \in Nat, NEW now \in [1..n -> Nat], NEW c, c = Calls(now, rate, burst)
  PROVE  \A i \in 1..n :
           /\ c[i] \in Used
           /\ c[i] = Allow(IF i = 1 THEN NoBucket ELSE c[i - 1], now[i], rate, burst)
<1> DEFINE T == Used \cup {NoBucket}
           g == [i \in Nat |-> [b \in T |-> IF i \in 1..n THEN Allow(b, now[i], rate, burst) ELSE b]]
           Is(e) == e = [i \in DOMAIN now |->
                           Allow(IF i = 1 THEN NoBucket ELSE e[i - 1], now[i], rate, burst)]
<1>0. DOMAIN now = 1..n /\ \A i \in 1..n : i \in Nat /\ now[i] \in Nat
  OBVIOUS
<1>1. ASSUME NEW i \in 1..n, NEW b \in T PROVE Allow(b, now[i], rate, burst) \in Used
  BY Zenon, <1>0, Allowed
<1>2. PICK f : Values(f, n, T, NoBucket, g)
  <2>1. g \in [Nat -> [T -> T]]
    BY Zenon, <1>1
  <2>2. NoBucket \in T
    BY Zenon
  <2> HIDE DEF g, T
  <2> QED BY Zenon, <2>1, <2>2, Rounds
<1>3. f[0] = NoBucket /\ \A i \in 0..n : f[i] \in T
  BY Zenon, <1>2 DEF Values
<1>4. \A i \in 1..n : i - 1 \in 0..n /\ i \in 0..n /\ (i # 1 => i - 1 \in 1..n)
  OBVIOUS
<1>5. \A i \in 1..n : f[i] = Allow(f[i - 1], now[i], rate, burst)
  <2> SUFFICES ASSUME NEW i \in 1..n PROVE f[i] = Allow(f[i - 1], now[i], rate, burst)
    BY Zenon
  <2>1. f[i] = g[i][f[i - 1]] /\ f[i - 1] \in T
    BY Zenon, <1>2, <1>3, <1>4 DEF Values
  <2> HIDE DEF T
  <2> QED BY Zenon, <1>0, <2>1
<1> DEFINE h == [i \in 1..n |-> f[i]]
<1>6. Is(h)
  <2>1. ASSUME NEW i \in 1..n
        PROVE  h[i] = Allow(IF i = 1 THEN NoBucket ELSE h[i - 1], now[i], rate, burst)
    <3>1. CASE i = 1
      <4>1. f[i - 1] = NoBucket
        BY <1>3, <3>1
      <4> QED BY Zenon, <1>5, <3>1, <4>1
    <3>2. CASE i # 1
      BY Zenon, <1>4, <1>5, <3>2
    <3> QED BY Zenon, <3>1, <3>2
  <2>2. h = [i \in 1..n |-> h[i]]
    BY Zenon
  <2> HIDE DEF h
  <2> QED BY Zenon, <1>0, <2>1, <2>2
<1>7. c = CHOOSE e : Is(e)
  BY Zenon DEF Calls
<1>8. Is(c)
  BY Zenon, <1>6, <1>7
<1>9. \A i \in 1..n : c[i] = Allow(IF i = 1 THEN NoBucket ELSE c[i - 1], now[i], rate, burst)
  BY Zenon, <1>0, <1>8
<1>10. \A i \in 1..n : c[i] \in Used
  <2> DEFINE S == {m \in Nat : m <= n /\ m # 0 => c[m] \in Used}
  <2>1. 0 \in S
    OBVIOUS
  <2>2. ASSUME NEW m \in Nat, m \in S PROVE m + 1 \in S
    <3>1. ASSUME m + 1 <= n PROVE c[m + 1] \in Used
      <4>1. m + 1 \in 1..n /\ (m + 1) - 1 = m /\ (m + 1 # 1 => c[m] \in Used)
        BY <2>2, <3>1
      <4>2. c[m + 1] = Allow(IF m + 1 = 1 THEN NoBucket ELSE c[m], now[m + 1], rate, burst)
        BY Zenon, <1>9, <4>1
      <4> QED BY Zenon, <1>1, <4>1, <4>2
    <3> QED BY <3>1
  <2> HIDE DEF S
  <2>3. Nat \subseteq S
    BY Zenon, <2>1, <2>2, Counting
  <2>4. \A m \in 1..n : m \in Nat /\ m <= n /\ m # 0
    OBVIOUS
  <2> QED BY Zenon, <2>3, <2>4 DEF S
<1> QED BY Zenon, <1>9, <1>10

(* The calls of a window that were allowed, counted up to its last call.   *)
LEMMA GrantedNext ==
  ASSUME NEW c, NEW j \in Nat, NEW i \in Nat, j <= i,
         NEW x \in {0, 1}, c[i].allowed <=> x = 1
  PROVE  /\ Granted(c, j, i) = Granted(c, j, i - 1) + x
         /\ Granted(c, j, i - 1) \in Nat /\ Granted(c, i, i - 1) = 0
<1> DEFINE S == {k \in j..(i - 1) : c[k].allowed}
<1>1. IsFiniteSet(S) /\ Cardinality(S) \in Nat
  <2>1. j \in Int /\ i - 1 \in Int
    OBVIOUS
  <2>2. IsFiniteSet(j..(i - 1)) /\ S \in SUBSET (j..(i - 1))
    BY Zenon, <2>1, FS_Interval
  <2> HIDE DEF S
  <2> QED BY Zenon, <2>2, FS_Subset, FS_CardinalityType
<1>2. i \notin j..(i - 1) /\ \A k : k \in j..i <=> k \in j..(i - 1) \/ k = i
  OBVIOUS
<1>3. Granted(c, j, i) = Cardinality(S) + x
  <2>1. CASE c[i].allowed
    <3>1. {k \in j..i : c[k].allowed} = S \cup {i} /\ i \notin S /\ x = 1
      BY Zenon, <1>2, <2>1
    <3> HIDE DEF S
    <3>2. Cardinality(S \cup {i}) = Cardinality(S) + 1
      BY Zenon, <1>1, <3>1, FS_AddElement
    <3> QED BY Zenon, <3>1, <3>2 DEF Granted
  <2>2. CASE ~c[i].allowed
    <3>1. {k \in j..i : c[k].allowed} = S /\ x = 0
      BY Zenon, <1>2, <2>2
    <3> HIDE DEF S
    <3>2. Cardinality(S) + 0 = Cardinality(S)
      BY <1>1
    <3> QED BY Zenon, <3>1, <3>2 DEF Granted
  <2> QED BY Zenon, <2>1, <2>2
<1>4. Granted(c, i, i - 1) = 0
  <2>1. {k \in i..(i - 1) : c[k].allowed} = {}
    OBVIOUS
  <2> QED BY Zenon, <2>1, FS_EmptySet DEF Granted
<1> QED BY Zenon, <1>1, <1>3, <1>4 DEF Granted

(* The time that passes in a window, added up to its last call.            *)
LEMMA PassedNext ==
  ASSUME NEW n \in Nat, NEW now \in [1..n -> Nat]
  PROVE  \E s : /\ s \in [0..n -> Nat]
                /\ \A i \in 1..n : i # 1 => s[i] = s[i - 1] + Higher(0, now[i] - now[i - 1])
                /\ \A i \in 1..n, j \in 1..n : j <= i =>
                     s[i] - s[j] \in Nat /\ Passed(now, j, i) = s[i] - s[j]
<1> DEFINE Step(i) == Higher(0, now[i] - now[i - 1])
           g == [i \in Nat |-> [x \in Nat |-> IF i \in 1..n /\ i # 1 THEN x + Step(i) ELSE x]]
<1>1. ASSUME NEW i \in 1..n, i # 1 PROVE Step(i) \in Nat
  <2>1. now[i] \in Nat /\ now[i - 1] \in Nat
    BY <1>1
  <2> QED BY <2>1 DEF Higher
<1>2. PICK s : Values(s, n, Nat, 0, g)
  <2>1. g \in [Nat -> [Nat -> Nat]]
    <3>1. ASSUME NEW i \in Nat, NEW x \in Nat
          PROVE  (IF i \in 1..n /\ i # 1 THEN x + Step(i) ELSE x) \in Nat
      <4> HIDE DEF Step
      <4> QED BY <1>1
    <3> HIDE DEF Step
    <3> QED BY Zenon, <3>1
  <2>2. 0 \in Nat
    OBVIOUS
  <2> HIDE DEF g
  <2> QED BY Zenon, <2>1, <2>2, Rounds
<1>3. s \in [0..n -> Nat]
  BY Zenon, <1>2 DEF Values
<1>4. \A i \in 1..n : i # 1 => s[i] = s[i - 1] + Step(i)
  <2> SUFFICES ASSUME NEW i \in 1..n, i # 1 PROVE s[i] = s[i - 1] + Step(i)
    BY Zenon
  <2>1. i \in Nat /\ i - 1 \in 0..n
    OBVIOUS
  <2>2. s[i] = g[i][s[i - 1]] /\ s[i - 1] \in Nat
    BY Zenon, <1>2, <1>3, <2>1 DEF Values
  <2> HIDE DEF Step
  <2> QED BY Zenon, <2>1, <2>2
<1>5. ASSUME NEW i \in 1..n, NEW j \in 1..n, j <= i
      PROVE  s[i] - s[j] \in Nat /\ Passed(now, j, i) = s[i] - s[j]
  <2> DEFINE Is(e) == e = [k \in j..i |-> IF k = j THEN 0 ELSE e[k - 1] + Step(k)]
             h == [k \in j..i |-> s[k] - s[j]]
             p == CHOOSE e : Is(e)
  <2>0. /\ \A k \in j..i : k \in 1..n /\ k \in 0..n /\ (k # j => k # 1 /\ k - 1 \in j..i)
        /\ i \in j..i /\ j \in j..i /\ i \in Nat /\ j \in Nat
    BY <1>5
  <2>1. \A k \in j..i : s[k] \in Nat /\ h[k] = s[k] - s[j]
    BY Zenon, <1>3, <2>0
  <2>2. Is(h)
    <3>1. h = [k \in j..i |-> h[k]]
      BY Zenon
    <3> HIDE DEF h, Step
    <3>2. ASSUME NEW k \in j..i PROVE h[k] = IF k = j THEN 0 ELSE h[k - 1] + Step(k)
      <4>1. CASE k = j
        <5>1. h[k] = s[j] - s[j] /\ s[j] \in Nat
          BY Zenon, <2>0, <2>1, <4>1
        <5> QED BY <4>1, <5>1
      <4>2. CASE k # j
        <5>1. /\ s[k] = s[k - 1] + Step(k) /\ Step(k) \in Nat
              /\ s[k] \in Nat /\ s[k - 1] \in Nat /\ s[j] \in Nat
              /\ h[k] = s[k] - s[j] /\ h[k - 1] = s[k - 1] - s[j]
          BY Zenon, <1>1, <1>4, <2>0, <2>1, <4>2
        <5>2. PICK a \in Nat, b \in Nat, y \in Nat : a = s[k - 1] /\ b = s[j] /\ y = Step(k)
          BY Zenon, <5>1
        <5>3. (a + y) - b = (a - b) + y
          OBVIOUS
        <5> QED BY Zenon, <4>2, <5>1, <5>2, <5>3
      <4> QED BY Zenon, <4>1, <4>2
    <3> QED BY Zenon, <3>1, <3>2
  <2>3. Passed(now, j, i) = p[i]
    BY DEF Passed
  <2>4. Is(p)
    BY Zenon, <2>2
  <2> HIDE DEF p, h, Step
  <2>5. \A k \in j..i : p[k] = IF k = j THEN 0 ELSE p[k - 1] + Step(k)
    BY Zenon, <2>4
  <2>6. \A k \in j..i : p[k] \in Nat /\ p[k] = s[k] - s[j]
    <3> DEFINE S == {m \in Nat : m \in j..i => p[m] \in Nat /\ p[m] = s[m] - s[j]}
    <3>1. ASSUME NEW m \in Nat, m = j PROVE m \in S
      <4>1. p[j] = 0 /\ s[j] \in Nat
        BY Zenon, <2>0, <2>1, <2>5
      <4> QED BY <3>1, <4>1
    <3>2. 0 \in S
      <4>1. 0 \in j..i => 0 = j
        BY <2>0
      <4> QED BY Zenon, <3>1, <4>1
    <3>3. ASSUME NEW m \in Nat, m \in S PROVE m + 1 \in S
      <4>0. m + 1 \in Nat
        OBVIOUS
      <4>1. CASE m + 1 = j \/ m + 1 \notin j..i
        BY Zenon, <3>1, <4>0, <4>1
      <4>2. CASE m + 1 # j /\ m + 1 \in j..i
        <5>1. m \in j..i /\ (m + 1) - 1 = m /\ m + 1 # 1 /\ m + 1 \in 1..n
          BY <2>0, <4>2
        <5>2. p[m] \in Nat /\ p[m] = s[m] - s[j]
          BY Zenon, <3>3, <5>1
        <5>3. /\ p[m + 1] = p[m] + Step(m + 1) /\ s[m + 1] = s[m] + Step(m + 1)
              /\ Step(m + 1) \in Nat /\ s[m] \in Nat /\ s[j] \in Nat
          BY Zenon, <1>1, <1>4, <2>0, <2>1, <2>5, <4>2, <5>1
        <5>4. p[m + 1] \in Nat /\ p[m + 1] = s[m + 1] - s[j]
          <6>1. PICK a \in Nat, b \in Nat, y \in Nat, q \in Nat :
                  a = s[m] /\ b = s[j] /\ y = Step(m + 1) /\ q = p[m]
            BY Zenon, <5>2, <5>3
          <6>2. q = a - b => q + y \in Nat /\ q + y = (a + y) - b
            OBVIOUS
          <6> QED BY Zenon, <5>2, <5>3, <6>1, <6>2
        <5> QED BY Zenon, <4>0, <5>4
      <4> QED BY Zenon, <4>1, <4>2
    <3> HIDE DEF S
    <3>4. Nat \subseteq S
      BY Zenon, <3>2, <3>3, Counting
    <3>5. \A k \in j..i : k \in Nat
      BY <2>0
    <3> QED BY Zenon, <3>4, <3>5 DEF S
  <2> QED BY Zenon, <2>0, <2>3, <2>6
<1> QED BY Zenon, <1>3, <1>4, <1>5

(* The account of a window, and the one of a window of one call.           *)
LEMMA Account ==
  ASSUME NEW B \in Nat, NEW R \in Nat, NEW G \in Nat
  PROVE  B + R - G \in Int /\ B + 0 - 0 = B
  OBVIOUS

(* The tokens that call i finds are the least that a window ending with it *)
(* leaves: the burst and what the time in the window brings, less what its *)
(* earlier calls took.                                                     *)
Balanced(t, c, now, rate, burst, i) ==
  /\ c[i].allowed <=> t >= Grain
  /\ \A j \in 1..i : /\ Passed(now, j, i) \in Nat /\ Granted(c, j, i - 1) \in Nat
                     /\ t <= burst * Grain + rate * Passed(now, j, i)
                               - Granted(c, j, i - 1) * Grain
  /\ \E j \in 1..i : t = burst * Grain + rate * Passed(now, j, i)
                           - Granted(c, j, i - 1) * Grain

(* Every call finds such tokens.                                           *)
LEMMA TokensAreLeast ==
  ASSUME NEW rate \in Nat, NEW burst \in Nat, burst <= rate * Expiry,
         NEW n \in Nat, NEW now \in [1..n -> Nat], NEW c, c = Calls(now, rate, burst),
         NEW i \in 1..n
  PROVE  \E t \in Nat : Balanced(t, c, now, rate, burst, i)
<1> DEFINE A(k) == Refilled(IF k = 1 THEN NoBucket ELSE c[k - 1], now[k], rate, burst)
           B == burst * Grain
           d(k) == Higher(0, now[k] - now[k - 1])
           x(k) == IF c[k].allowed THEN 1 ELSE 0
           D(k) == rate * d(k)
           X(k) == x(k) * Grain
           R(j, k) == rate * Passed(now, j, k)
           G(j, k) == Granted(c, j, k - 1) * Grain
           W(j, k) == B + R(j, k) - G(j, k)
           P(k) == (\A j \in 1..k : A(k) <= W(j, k)) /\ (\E j \in 1..k : A(k) = W(j, k))
<1>0. Grain \in Nat \ {0} /\ B \in Nat
  BY RateAssumption
<1>1. PICK s : /\ s \in [0..n -> Nat]
               /\ \A k \in 1..n : k # 1 => s[k] = s[k - 1] + d(k)
               /\ \A k \in 1..n, j \in 1..n : j <= k =>
                    s[k] - s[j] \in Nat /\ Passed(now, j, k) = s[k] - s[j]
  BY Zenon, PassedNext
<1>2. \A k \in 1..n :
        /\ c[k] \in Used
        /\ c[k] = Allow(IF k = 1 THEN NoBucket ELSE c[k - 1], now[k], rate, burst)
  BY SMTT(30), CallsInTurn
<1>3. \A k \in 1..n : /\ now[k] \in Nat /\ k \in Nat /\ k \in 0..n /\ k \in 1..k
                      /\ k # 1 => k - 1 \in 1..n /\ k - 1 \in 1..(k - 1)
                      /\ \A j \in 1..k : j \in 1..n /\ j <= k /\ j \in Nat
  OBVIOUS
<1>4. \A k \in 1..n : /\ c[k].ts = now[k] /\ A(k) \in Nat
                      /\ c[k].allowed <=> A(k) >= Grain
                      /\ c[k].tokens = IF c[k].allowed THEN A(k) - Grain ELSE A(k)
  <2> SUFFICES ASSUME NEW k \in 1..n
               PROVE  /\ c[k].ts = now[k] /\ A(k) \in Nat
                      /\ c[k].allowed <=> A(k) >= Grain
                      /\ c[k].tokens = IF c[k].allowed THEN A(k) - Grain ELSE A(k)
    BY Zenon
  <2> DEFINE last == IF k = 1 THEN NoBucket ELSE c[k - 1]
  <2>1. last \in Used \cup {NoBucket}
    BY Zenon, <1>2, <1>3
  <2> HIDE DEF last
  <2>2. c[k] = Allow(last, now[k], rate, burst) /\ A(k) = Refilled(last, now[k], rate, burst)
    BY Zenon, <1>2 DEF last
  <2>3. PICK m \in Nat : m = now[k]
    BY Zenon, <1>3
  <2>4. PICK t, v : t = A(k) /\ v = c[k]
    BY Zenon
  <2> HIDE DEF A
  <2>5. v = Allow(last, m, rate, burst) /\ t = Refilled(last, m, rate, burst)
    BY Zenon, <2>2, <2>3, <2>4
  <2>6. /\ v.ts = m /\ t \in Nat /\ (v.allowed <=> t >= Grain)
        /\ v.tokens = IF v.allowed THEN t - Grain ELSE t
    BY SMTT(30), <2>1, <2>5, Allowed
  <2> QED BY Zenon, <2>3, <2>4, <2>6
<1>5. 1 \in 1..n => A(1) = B
  BY <1>3, RefilledExactly
<1>6. ASSUME NEW k \in 1..n, k # 1
      PROVE  A(k) = Lower(B, c[k - 1].tokens + rate * d(k))
  <2>1. c[k - 1] \in Used /\ c[k - 1].ts = now[k - 1] /\ now[k] \in Nat
    BY Zenon, <1>2, <1>3, <1>4, <1>6
  <2>2. A(k) = Refilled(c[k - 1], now[k], rate, burst)
    BY Zenon, <1>6
  <2>3. Refilled(c[k - 1], now[k], rate, burst) =
          Lower(burst * Grain, c[k - 1].tokens + rate * Higher(0, now[k] - c[k - 1].ts))
    <3>1. PICK l \in Used, m \in Nat : l = c[k - 1] /\ m = now[k]
      BY Zenon, <2>1
    <3>2. Refilled(l, m, rate, burst) =
            Lower(burst * Grain, l.tokens + rate * Higher(0, m - l.ts))
      BY SMTT(30), RefilledExactly
    <3> QED BY Zenon, <3>1, <3>2
  <2> QED BY Zenon, <2>1, <2>2, <2>3
<1> HIDE DEF P, W
<1>7. ASSUME NEW k \in 1..n, k # 1
      PROVE  /\ d(k) \in Nat /\ D(k) \in Nat /\ X(k - 1) \in Nat
             /\ c[k - 1].tokens = A(k - 1) - X(k - 1)
             /\ c[k - 1].tokens \in Nat /\ A(k - 1) \in Nat
             /\ x(k - 1) \in {0, 1} /\ (c[k - 1].allowed <=> x(k - 1) = 1)
  <2>1. k - 1 \in 1..n /\ now[k] \in Nat /\ now[k - 1] \in Nat
    BY Zenon, <1>3, <1>7
  <2>2. d(k) \in Nat
    BY <2>1 DEF Higher
  <2>3. c[k - 1].tokens \in Nat
    BY Zenon, <1>2, <2>1 DEF Used, Filled
  <2>4. /\ x(k - 1) \in {0, 1} /\ (c[k - 1].allowed <=> x(k - 1) = 1)
        /\ X(k - 1) = IF c[k - 1].allowed THEN Grain ELSE 0
    BY <1>0
  <2>5. /\ A(k - 1) \in Nat
        /\ c[k - 1].tokens = IF c[k - 1].allowed THEN A(k - 1) - Grain ELSE A(k - 1)
    BY Zenon, <1>4, <2>1
  <2>6. D(k) \in Nat
    <3> HIDE DEF d
    <3> QED BY Zenon, <2>2, Products
  <2> HIDE DEF A, d, x, D, X
  <2> QED BY <1>0, <2>2, <2>3, <2>4, <2>5, <2>6
<1> HIDE DEF A, B, d, x
<1>8. ASSUME NEW k \in 1..n, NEW j \in 1..k
      PROVE  /\ Passed(now, j, k) \in Nat /\ Granted(c, j, k - 1) \in Nat
             /\ R(j, k) \in Nat /\ G(j, k) \in Nat
  <2>1. Passed(now, j, k) \in Nat
    BY Zenon, <1>1, <1>3, <1>8
  <2>2. Granted(c, j, k - 1) \in Nat
    <3>1. j \in Nat /\ k \in Nat /\ j <= k
      OBVIOUS
    <3>2. PICK y \in {0, 1} : c[k].allowed <=> y = 1
      OBVIOUS
    <3> QED BY Zenon, <3>1, <3>2, GrantedNext
  <2> QED BY Zenon, <1>0, <2>1, <2>2, Products
<1>9. ASSUME NEW k \in 1..n PROVE R(k, k) = 0 /\ G(k, k) = 0
  <2>1. Passed(now, k, k) = s[k] - s[k] /\ s[k] \in Nat
    BY Zenon, <1>1, <1>3
  <2>2. Granted(c, k, k - 1) = 0
    <3>1. k \in Nat /\ k <= k
      OBVIOUS
    <3>2. PICK y \in {0, 1} : c[k].allowed <=> y = 1
      OBVIOUS
    <3> QED BY Zenon, <3>1, <3>2, GrantedNext
  <2> QED BY <1>0, <2>1, <2>2
<1>10. ASSUME NEW k \in 1..n, k # 1, NEW j \in 1..(k - 1)
       PROVE  R(j, k) = R(j, k - 1) + D(k) /\ G(j, k) = G(j, k - 1) + X(k - 1)
  <2>0. /\ k - 1 \in 1..n /\ j \in 1..k /\ j \in 1..n /\ j <= k /\ j <= k - 1
        /\ j \in Nat /\ k - 1 \in Nat
    BY <1>10
  <2>1. Passed(now, j, k) = Passed(now, j, k - 1) + d(k)
    <3>1. /\ Passed(now, j, k) = s[k] - s[j] /\ Passed(now, j, k - 1) = s[k - 1] - s[j]
          /\ s[k] = s[k - 1] + d(k) /\ d(k) \in Nat
          /\ s[k] \in Nat /\ s[k - 1] \in Nat /\ s[j] \in Nat
      BY Zenon, <1>1, <1>3, <1>7, <1>10, <2>0
    <3>2. PICK a \in Nat, b \in Nat, y \in Nat : a = s[k - 1] /\ b = s[j] /\ y = d(k)
      BY Zenon, <3>1
    <3>3. (a + y) - b = (a - b) + y
      OBVIOUS
    <3> QED BY Zenon, <3>1, <3>2, <3>3
  <2>2. R(j, k) = R(j, k - 1) + D(k)
    <3>1. PICK a \in Nat, y \in Nat : a = Passed(now, j, k - 1) /\ y = d(k)
      BY Zenon, <1>7, <1>8, <1>10, <2>0
    <3>2. rate * (a + y) = rate * a + rate * y
      OBVIOUS
    <3> QED BY Zenon, <2>1, <3>1, <3>2
  <2>3. Granted(c, j, k - 1) = Granted(c, j, (k - 1) - 1) + x(k - 1)
    <3>1. x(k - 1) \in {0, 1} /\ (c[k - 1].allowed <=> x(k - 1) = 1)
      BY Zenon, <1>7, <1>10
    <3>2. PICK y \in {0, 1}, m \in Nat : y = x(k - 1) /\ m = k - 1
      BY Zenon, <2>0, <3>1
    <3>3. Granted(c, j, m) = Granted(c, j, m - 1) + y
      BY <2>0, <3>1, <3>2, GrantedNext
    <3> QED BY Zenon, <3>2, <3>3
  <2>4. G(j, k) = G(j, k - 1) + X(k - 1)
    <3>1. PICK a \in Nat, y \in {0, 1} : a = Granted(c, j, (k - 1) - 1) /\ y = x(k - 1)
      BY Zenon, <1>7, <1>8, <1>10, <2>0
    <3>2. (a + y) * Grain = a * Grain + y * Grain
      BY <1>0
    <3> QED BY Zenon, <2>3, <3>1, <3>2
  <2> QED BY Zenon, <2>2, <2>4
<1> HIDE DEF R, G, D, X
<1>11. \A k \in 1..n : W(k, k) = B /\ \A j \in 1..k : W(j, k) \in Int
  <2>1. ASSUME NEW k \in 1..n, NEW j \in 1..k PROVE W(j, k) \in Int
    BY Zenon, <1>0, <1>8, Account DEF W
  <2>2. ASSUME NEW k \in 1..n PROVE W(k, k) = B
    <3>1. R(k, k) = 0 /\ G(k, k) = 0 /\ 0 \in Nat
      BY Zenon, <1>3, <1>8, <1>9
    <3> QED BY Zenon, <1>0, <3>1, Account DEF W
  <2> QED BY Zenon, <2>1, <2>2
<1>12. ASSUME NEW k \in 1..n, k # 1, P(k - 1) PROVE P(k)
  <2> DEFINE r == D(k) - X(k - 1)
  <2>0. \A j \in 1..k : j = k \/ j \in 1..(k - 1)
    OBVIOUS
  <2>1. \A j \in 1..(k - 1) : j \in 1..k
    OBVIOUS
  <2>2. A(k) = Lower(B, A(k - 1) + r) /\ A(k - 1) \in Nat /\ r \in Int /\ k - 1 \in 1..n
    <3>1. A(k) = Lower(B, c[k - 1].tokens + D(k))
      BY Zenon, <1>6, <1>12 DEF D
    <3>2. /\ D(k) \in Nat /\ X(k - 1) \in Nat /\ c[k - 1].tokens = A(k - 1) - X(k - 1)
          /\ c[k - 1].tokens \in Nat /\ A(k - 1) \in Nat /\ k - 1 \in 1..n
      BY Zenon, <1>3, <1>7, <1>12
    <3>3. c[k - 1].tokens + D(k) = A(k - 1) + r /\ r \in Int
      <4>1. PICK t \in Nat, a \in Nat, e \in Nat, y \in Nat :
              t = c[k - 1].tokens /\ a = A(k - 1) /\ e = D(k) /\ y = X(k - 1)
        BY Zenon, <3>2
      <4>2. t = a - y
        BY Zenon, <3>2, <4>1
      <4>3. t + e = a + (e - y) /\ e - y \in Int
        BY <4>2
      <4> QED BY Zenon, <4>1, <4>3
    <3> QED BY Zenon, <3>1, <3>2, <3>3
  <2>3. ASSUME NEW j \in 1..(k - 1) PROVE W(j, k) = W(j, k - 1) + r /\ W(j, k - 1) \in Int
    <3>1. /\ R(j, k) = R(j, k - 1) + D(k) /\ G(j, k) = G(j, k - 1) + X(k - 1)
          /\ R(j, k - 1) \in Nat /\ G(j, k - 1) \in Nat /\ D(k) \in Nat /\ X(k - 1) \in Nat
      BY Zenon, <1>7, <1>8, <1>10, <1>12, <2>2
    <3>2. PICK a \in Nat, g \in Nat, e \in Nat, y \in Nat :
            a = R(j, k - 1) /\ g = G(j, k - 1) /\ e = D(k) /\ y = X(k - 1)
      BY Zenon, <3>1
    <3>3. B + (a + e) - (g + y) = (B + a - g) + (e - y) /\ B + a - g \in Int
      BY <1>0
    <3> QED BY Zenon, <3>1, <3>2, <3>3 DEF W
  <2> HIDE DEF r
  <2>4. W(k, k) = B /\ k \in 1..k
    BY Zenon, <1>3, <1>11
  <2>5. A(k) <= B /\ A(k) <= A(k - 1) + r /\ (A(k) = B \/ A(k) = A(k - 1) + r) /\ A(k) \in Int
    <3>1. A(k - 1) + r \in Int
      BY <2>2
    <3>0. PICK z : z = A(k)
      OBVIOUS
    <3>2. PICK b \in Int, e \in Int : b = B /\ e = A(k - 1) + r
      <4>1. B \in Int
        BY <1>0
      <4> QED BY Zenon, <3>1, <4>1
    <3>3. z = Lower(b, e)
      BY Zenon, <2>2, <3>0, <3>2
    <3>4. z <= b /\ z <= e /\ (z = b \/ z = e) /\ z \in Int
      BY <3>3 DEF Lower
    <3> QED BY Zenon, <3>0, <3>2, <3>4
  <2>6. ASSUME NEW j \in 1..(k - 1) PROVE A(k) <= W(j, k)
    <3>1. A(k - 1) <= W(j, k - 1) /\ W(j, k) = W(j, k - 1) + r /\ W(j, k - 1) \in Int
      BY Zenon, <1>12, <2>3 DEF P
    <3>2. PICK z \in Int, a \in Int, e \in Int, w \in Int :
            z = A(k) /\ a = A(k - 1) /\ e = r /\ w = W(j, k - 1)
      <4>1. A(k - 1) \in Int
        BY <2>2
      <4> QED BY Zenon, <2>2, <2>5, <3>1, <4>1
    <3>3. z <= a + e /\ a <= w => z <= w + e
      OBVIOUS
    <3> QED BY Zenon, <2>5, <3>1, <3>2, <3>3
  <2>7. \E j \in 1..k : A(k) = W(j, k)
    <3>1. CASE A(k) = B
      BY Zenon, <2>4, <3>1
    <3>2. CASE A(k) = A(k - 1) + r
      BY Zenon, <1>12, <2>1, <2>3, <3>2 DEF P
    <3> QED BY Zenon, <2>5, <3>1, <3>2
  <2> QED BY Zenon, <2>0, <2>4, <2>5, <2>6, <2>7 DEF P
<1>13. P(i)
  <2> DEFINE S == {m \in Nat : m + 1 \in 1..n => P(m + 1)}
  <2>1. 0 \in S
    <3>1. ASSUME 1 \in 1..n PROVE P(1)
      <4>1. A(1) = W(1, 1) /\ A(1) \in Nat /\ 1 \in 1..1
        BY Zenon, <1>3, <1>4, <1>5, <1>11, <3>1
      <4>2. \A j \in 1..1 : j = 1
        OBVIOUS
      <4>3. A(1) <= W(1, 1)
        BY <4>1
      <4> QED BY Zenon, <4>1, <4>2, <4>3 DEF P
    <3>2. 0 + 1 = 1
      OBVIOUS
    <3> QED BY <3>1, <3>2
  <2>2. ASSUME NEW m \in Nat, m \in S PROVE m + 1 \in S
    <3>1. ASSUME (m + 1) + 1 \in 1..n PROVE P((m + 1) + 1)
      <4> DEFINE k == (m + 1) + 1
      <4>1. k \in 1..n /\ k # 1 /\ k - 1 = m + 1 /\ m + 1 \in 1..n
        BY <3>1
      <4>2. P(k - 1)
        BY Zenon, <2>2, <4>1
      <4> HIDE DEF k
      <4>3. P(k)
        BY Zenon, <1>12, <4>1, <4>2
      <4> QED BY Zenon, <4>3 DEF k
    <3> QED BY <3>1
  <2> HIDE DEF S
  <2>3. Nat \subseteq S
    BY Zenon, <2>1, <2>2, Counting
  <2>4. i - 1 \in Nat /\ (i - 1) + 1 = i
    OBVIOUS
  <2> QED BY Zenon, <2>3, <2>4 DEF S
<1> QED BY Zenon, <1>4, <1>8, <1>13 DEF P, W, B, R, G, Balanced

(* An account that leaves a token, and one that takes no more than it has. *)
LEMMA Suffices ==
  ASSUME NEW t \in Nat, NEW B \in Nat, NEW R \in Nat, NEW G \in Nat, NEW U \in Nat
  PROVE  /\ t >= U /\ t <= B + R - G => G + U <= B + R
         /\ t = B + R - G /\ G + U <= B + R => t >= U
  OBVIOUS

(* The double of a reading is the nearest one, and the later of two         *)
(* readings has the later double.                                           *)
LEMMA SecondsNear ==
  /\ \A x \in Nat : /\ Seconds(x) \in Nat
                    /\ 2 * (Millis * Seconds(x)) <= 2 * (Grain * x) + Millis
                    /\ 2 * (Grain * x) <= 2 * (Millis * Seconds(x)) + Millis
  /\ \A x, y \in Nat : x <= y => Seconds(x) <= Seconds(y)
<1>0. Grain \in Nat /\ Millis \in Nat /\ Millis # 0 /\ 2 * Millis \in Nat \ {0}
  BY RateAssumption
<1>1. \A a \in Nat, b \in Nat \ {0} :
        a \div b \in Nat /\ b * (a \div b) <= a /\ a < b * ((a \div b) + 1)
  OBVIOUS
<1>2. ASSUME NEW x \in Nat
      PROVE  /\ Seconds(x) \in Nat
             /\ (2 * Millis) * Seconds(x) <= 2 * (Grain * x) + Millis
             /\ 2 * (Grain * x) + Millis < (2 * Millis) * (Seconds(x) + 1)
  <2>1. Grain * x \in Nat /\ 2 * x * Grain + Millis = 2 * (Grain * x) + Millis
    BY <1>0
  <2>2. 2 * (Grain * x) + Millis \in Nat
    BY <1>0, <2>1
  <2>3. Seconds(x) = (2 * (Grain * x) + Millis) \div (2 * Millis)
    BY Zenon, <2>1 DEF Seconds
  <2> QED BY Zenon, <1>0, <1>1, <2>2, <2>3
<1>3. ASSUME NEW x \in Nat
      PROVE  /\ 2 * (Millis * Seconds(x)) <= 2 * (Grain * x) + Millis
             /\ 2 * (Grain * x) <= 2 * (Millis * Seconds(x)) + Millis
  <2>1. PICK q \in Nat, g \in Nat : q = Seconds(x) /\ g = Grain * x
    <3>1. Seconds(x) \in Nat /\ Grain * x \in Nat
      BY <1>0, <1>2
    <3> QED BY Zenon, <3>1
  <2>2. PICK m \in Nat : m = Millis * q
    <3>1. Millis * q \in Nat
      BY <1>0
    <3> QED BY Zenon, <3>1
  <2>3. (2 * Millis) * q = 2 * m /\ (2 * Millis) * (q + 1) = 2 * m + 2 * Millis
    BY <1>0, <2>2
  <2>4. 2 * m <= 2 * g + Millis /\ 2 * g + Millis < 2 * m + 2 * Millis
    BY Zenon, <1>2, <2>1, <2>3
  <2>5. 2 * g <= 2 * m + Millis
    BY <1>0, <2>4
  <2> QED BY Zenon, <2>1, <2>2, <2>4, <2>5
<1>4. ASSUME NEW x \in Nat, NEW y \in Nat, x <= y PROVE Seconds(x) <= Seconds(y)
  <2>1. PICK q \in Nat, r \in Nat : q = Seconds(x) /\ r = Seconds(y)
    BY Zenon, <1>2
  <2>2. SUFFICES ASSUME r + 1 <= q PROVE FALSE
    BY <2>1
  <2>3. r + 1 \in Nat
    OBVIOUS
  <2>4. (r + 1) * (2 * Millis) <= q * (2 * Millis)
    BY Zenon, <1>0, <2>2, <2>3, Products
  <2>5. /\ (r + 1) * (2 * Millis) = (2 * Millis) * (r + 1)
        /\ q * (2 * Millis) = (2 * Millis) * q
    BY Zenon, <1>0, <2>3, Products
  <2>6. PICK a \in Nat, b \in Nat : a = (2 * Millis) * (r + 1) /\ b = (2 * Millis) * q
    BY Zenon, <1>0, <2>3, Products
  <2>7. PICK g \in Nat, h \in Nat : g = Grain * x /\ h = Grain * y /\ g <= h
    <3>1. Grain * x = x * Grain /\ Grain * y = y * Grain /\ x * Grain <= y * Grain
      BY Zenon, <1>0, <1>4, Products
    <3>2. Grain * x \in Nat /\ Grain * y \in Nat
      BY Zenon, <1>0, Products
    <3> QED BY Zenon, <3>1, <3>2
  <2>8. b <= 2 * g + Millis /\ 2 * h + Millis < a /\ a <= b
    BY Zenon, <1>2, <2>1, <2>4, <2>5, <2>6, <2>7
  <2> QED BY <1>0, <2>7, <2>8
<1> QED BY Zenon, <1>2, <1>3, <1>4

(* Every window that ends with call i allows it a token.                    *)
Admits(c, now, rate, burst, i) ==
  \A j \in 1..i :
    (Granted(c, j, i - 1) + 1) * Grain <= burst * Grain + rate * Passed(now, j, i)

(* The script admits what every window allows, no more and no less.        *)
LEMMA AllowedExactly ==
  ASSUME NEW rate \in Nat, NEW burst \in Nat, burst <= rate * Expiry,
         NEW n \in Nat, NEW now \in [1..n -> Nat], NEW c, c = Calls(now, rate, burst),
         NEW i \in 1..n
  PROVE  c[i].allowed <=> Admits(c, now, rate, burst, i)
<1>1. Grain \in Nat
  BY RateAssumption
<1>2. PICK t \in Nat : Balanced(t, c, now, rate, burst, i)
  BY Zenon, TokensAreLeast
<1> DEFINE B == burst * Grain
           R(j) == rate * Passed(now, j, i)
           G(j) == Granted(c, j, i - 1) * Grain
<1>3. \A j \in 1..i : /\ B \in Nat /\ R(j) \in Nat /\ G(j) \in Nat
                      /\ (Granted(c, j, i - 1) + 1) * Grain = G(j) + Grain
  <2> SUFFICES ASSUME NEW j \in 1..i
               PROVE  /\ B \in Nat /\ R(j) \in Nat /\ G(j) \in Nat
                      /\ (Granted(c, j, i - 1) + 1) * Grain = G(j) + Grain
    BY Zenon
  <2>1. PICK a \in Nat, g \in Nat : a = Passed(now, j, i) /\ g = Granted(c, j, i - 1)
    BY Zenon, <1>2 DEF Balanced
  <2>2. B \in Nat /\ rate * a \in Nat /\ g * Grain \in Nat /\ (g + 1) * Grain = g * Grain + Grain
    BY <1>1
  <2> QED BY Zenon, <2>1, <2>2
<1>4. \A j \in 1..i : t <= B + R(j) - G(j)
  BY Zenon, <1>2 DEF Balanced
<1>5. PICK j \in 1..i : t = B + R(j) - G(j)
  BY Zenon, <1>2 DEF Balanced
<1> HIDE DEF B, R, G
<1>6. ASSUME t >= Grain, NEW k \in 1..i PROVE G(k) + Grain <= B + R(k)
  <2>1. B \in Nat /\ R(k) \in Nat /\ G(k) \in Nat /\ t <= B + R(k) - G(k)
    BY Zenon, <1>3, <1>4
  <2> QED BY Zenon, <1>1, <1>6, <2>1, Suffices
<1>7. ASSUME G(j) + Grain <= B + R(j) PROVE t >= Grain
  <2>1. B \in Nat /\ R(j) \in Nat /\ G(j) \in Nat
    BY Zenon, <1>3
  <2> QED BY Zenon, <1>1, <1>5, <1>7, <2>1, Suffices
<1> QED BY Zenon, <1>2, <1>3, <1>6, <1>7 DEF B, R, Balanced, Admits

(* A window in 1/Grain seconds, and in the finer units of Fits.             *)
LEMMA FitsScaled ==
  ASSUME NEW c, NEW rate \in Nat, NEW burst \in Nat, NEW j, NEW i,
         NEW g \in Nat, g = Granted(c, j, i - 1), NEW p \in Nat
  PROVE  Fits(c, rate, burst, j, i, Millis * p) <=>
           (g + 1) * Grain <= burst * Grain + rate * p
<1>0. Grain \in Nat /\ Millis \in Nat /\ Millis # 0 /\ g + 1 \in Nat
  BY RateAssumption
<1>1. PICK a \in Nat, b \in Nat, r \in Nat :
        a = (g + 1) * Grain /\ b = burst * Grain /\ r = rate * p
  <2>1. (g + 1) * Grain \in Nat /\ burst * Grain \in Nat /\ rate * p \in Nat
    BY Zenon, <1>0, Products
  <2> QED BY Zenon, <2>1
<1>2. /\ (g + 1) * (Millis * Grain) = a * Millis
      /\ burst * (Millis * Grain) = b * Millis
      /\ rate * (Millis * p) = r * Millis
  <2>1. \A x, y \in Nat : x * (Millis * y) = (x * y) * Millis
    BY <1>0
  <2> QED BY Zenon, <1>0, <1>1, <2>1
<1>3. b + r \in Nat /\ (b + r) * Millis = b * Millis + r * Millis
  BY <1>0
<1>4. ASSUME a <= b + r PROVE a * Millis <= (b + r) * Millis
  BY Zenon, <1>0, <1>3, <1>4, Products
<1>5. ASSUME ~(a <= b + r) PROVE ~(a * Millis <= (b + r) * Millis)
  <2>1. (b + r) + 1 \in Nat /\ (b + r) + 1 <= a
    BY <1>5
  <2>2. ((b + r) + 1) * Millis <= a * Millis
    BY Zenon, <1>0, <2>1, Products
  <2>3. ((b + r) + 1) * Millis = (b + r) * Millis + Millis
    BY <1>0, <1>3
  <2>4. PICK u \in Nat, v \in Nat : u = (b + r) * Millis /\ v = a * Millis
    BY Zenon, <1>0, <1>3, Products
  <2> QED BY <1>0, <2>2, <2>3, <2>4
<1> QED BY Zenon, <1>1, <1>2, <1>3, <1>4, <1>5 DEF Fits

(* A longer time allows no less.                                            *)
LEMMA FitsLonger ==
  ASSUME NEW c, NEW rate \in Nat, NEW burst \in Nat, NEW j, NEW i,
         Granted(c, j, i - 1) \in Nat, NEW y \in Int, NEW z \in Int, y <= z,
         Fits(c, rate, burst, j, i, y)
  PROVE  Fits(c, rate, burst, j, i, z)
<1>0. Grain \in Nat /\ Millis \in Nat
  BY RateAssumption
<1>1. PICK d \in Nat : z = y + d
  <2>1. z - y \in Nat /\ z = y + (z - y)
    OBVIOUS
  <2> QED BY Zenon, <2>1
<1>2. rate * d \in Nat /\ rate * y \in Int /\ rate * (y + d) = rate * y + rate * d
  OBVIOUS
<1>3. PICK u \in Nat, v \in Nat :
        /\ u = (Granted(c, j, i - 1) + 1) * (Millis * Grain)
        /\ v = burst * (Millis * Grain)
  <2>1. Millis * Grain \in Nat /\ Granted(c, j, i - 1) + 1 \in Nat
    BY <1>0
  <2> QED BY Zenon, <2>1, Products
<1>4. u <= v + rate * y
  BY Zenon, <1>3 DEF Fits
<1>5. u <= v + rate * z
  BY <1>1, <1>2, <1>4
<1> QED BY Zenon, <1>3, <1>5 DEF Fits

(* The readings of a run of calls, as doubles.                              *)
LEMMA DoublesTyped ==
  ASSUME NEW n \in Nat, NEW readings \in [1..n -> Nat]
  PROVE  /\ Doubles(readings) \in [1..n -> Nat]
         /\ \A k \in 1..n : Doubles(readings)[k] = Seconds(readings[k])
<1>1. \A k \in 1..n : Seconds(readings[k]) \in Nat
  BY Zenon, SecondsNear
<1> QED BY Zenon, <1>1 DEF Doubles

(* WindowsExact.                                                            *)
LEMMA WindowsAreExact == WindowsExact
<1> SUFFICES ASSUME NEW rate \in 1 .. MaxRate, NEW burst \in 1 .. MaxBurst,
                    NEW readings \in [1 .. MaxCalls -> 0 .. MaxReading],
                    burst <= rate * Expiry, NEW i \in 1 .. MaxCalls,
                    NEW now, now = Doubles(readings),
                    NEW c, c = Calls(now, rate, burst)
             PROVE  c[i].allowed <=>
                      \A j \in 1 .. i : Fits(c, rate, burst, j, i, Millis * Passed(now, j, i))
  BY Zenon DEF WindowsExact
<1>1. /\ rate \in Nat /\ burst \in Nat /\ MaxCalls \in Nat
      /\ readings \in [1 .. MaxCalls -> Nat]
  BY RateAssumption
<1>2. now \in [1 .. MaxCalls -> Nat]
  BY Zenon, <1>1, DoublesTyped
<1>3. PICK t \in Nat : Balanced(t, c, now, rate, burst, i)
  BY Zenon, <1>1, <1>2, TokensAreLeast
<1>4. \A j \in 1..i : Passed(now, j, i) \in Nat /\ Granted(c, j, i - 1) \in Nat
  BY Zenon, <1>3 DEF Balanced
<1>5. \A j \in 1..i :
        Fits(c, rate, burst, j, i, Millis * Passed(now, j, i)) <=>
          (Granted(c, j, i - 1) + 1) * Grain <= burst * Grain + rate * Passed(now, j, i)
  BY Zenon, <1>1, <1>4, FitsScaled
<1>6. c[i].allowed <=> Admits(c, now, rate, burst, i)
  BY Zenon, <1>1, <1>2, AllowedExactly
<1> QED BY Zenon, <1>5, <1>6 DEF Admits

(* One step of the clock, in products: MQ and GP are the times passed in    *)
(* doubles and on the clock, MX and GX the last reading in both, MD the     *)
(* steps back.                                                              *)
Near(MQ, GP, MX, GX, MD) ==
  /\ 2 * (MQ - GP - MX + GX) <= Millis + 2 * MD
  /\ 2 * (MX - GX - MQ + GP) <= Millis + 2 * MD

(* A step forward adds the same to the time passed and to the reading; a    *)
(* step back leaves the time passed.                                        *)
LEMMA NearNext ==
  ASSUME NEW MQ \in Int, NEW GP \in Int, NEW MX \in Int, NEW GX \in Int, NEW MD \in Int,
         NEW MY \in Int, NEW GY \in Int, Near(MQ, GP, MX, GX, MD)
  PROVE  /\ Near(MQ + (MY - MX), GP + (GY - GX), MY, GY, MD)
         /\ Near(0, 0, MX, GX, 0) /\ Near(0, 0, MY, GY, 0)
              => Near(MQ, GP, MY, GY, MD + Millis)
         /\ Near(0, 0, MX, GX, 0)
              => MQ <= GP + (Millis + MD) /\ GP - (Millis + MD) <= MQ
  BY RateAssumption DEF Near

(* The steps back of a run of calls, counted as Granted counts calls.       *)
Back(readings) == [k \in Nat |-> [allowed |-> readings[k] < readings[k - 1]]]

(* Slack counts them.                                                       *)
LEMMA SlackCounts ==
  ASSUME NEW readings, NEW j \in Nat, NEW i \in Nat, j < i
  PROVE  Slack(readings, j, i) = 1 + Granted(Back(readings), j + 1, i)
<1>1. i # j /\ \A k \in (j + 1)..i : k \in Nat
  OBVIOUS
<1>2. {k \in (j + 1)..i : readings[k] < readings[k - 1]}
        = {k \in (j + 1)..i : Back(readings)[k].allowed}
  BY Zenon, <1>1 DEF Back
<1> QED BY Zenon, <1>1, <1>2 DEF Slack, Granted

(* One more call, and its step back if it is one.                           *)
LEMMA BackNext ==
  ASSUME NEW readings, NEW j \in Nat, NEW m \in Nat, j <= m
  PROVE  /\ readings[m + 1] < readings[m] =>
              Granted(Back(readings), j + 1, m + 1) = Granted(Back(readings), j + 1, m) + 1
         /\ ~(readings[m + 1] < readings[m]) =>
              Granted(Back(readings), j + 1, m + 1) = Granted(Back(readings), j + 1, m)
         /\ Granted(Back(readings), j + 1, j) = 0
<1>1. PICK k \in Nat, l \in Nat : k = m + 1 /\ l = j + 1 /\ k - 1 = m /\ l - 1 = j
  OBVIOUS
<1>2. PICK b : b = Back(readings)
  BY Zenon
<1>3. b[k].allowed <=> readings[m + 1] < readings[m]
  <2>1. b[k].allowed <=> readings[k] < readings[k - 1]
    BY Zenon, <1>2 DEF Back
  <2> QED BY Zenon, <1>1, <2>1
<1>4. PICK e \in {0, 1} : b[k].allowed <=> e = 1
  OBVIOUS
<1>5. Granted(b, l, k) = Granted(b, l, k - 1) + e /\ Granted(b, l, k - 1) \in Nat
  <2>1. l <= k
    BY <1>1
  <2>2. Granted(b, l, k) = Granted(b, l, k - 1) + e
    BY <1>4, <2>1, GrantedNext
  <2>3. Granted(b, l, k - 1) \in Nat
    BY Zenon, <1>4, <2>1, GrantedNext
  <2> QED BY Zenon, <2>2, <2>3
<1>6. PICK x \in {0, 1} : b[l].allowed <=> x = 1
  OBVIOUS
<1>7. Granted(b, l, l - 1) = 0
  <2>1. l <= l
    OBVIOUS
  <2> QED BY Zenon, <1>6, <2>1, GrantedNext
<1>8. /\ readings[m + 1] < readings[m] => Granted(b, l, k) = Granted(b, l, k - 1) + 1
      /\ ~(readings[m + 1] < readings[m]) => Granted(b, l, k) = Granted(b, l, k - 1)
  BY <1>3, <1>4, <1>5
<1> QED BY Zenon, <1>1, <1>2, <1>7, <1>8

(* A reading is near its double.                                            *)
LEMMA ReadingNear ==
  ASSUME NEW x \in Nat
  PROVE  /\ Millis * Seconds(x) \in Nat /\ Grain * x \in Nat
         /\ Near(0, 0, Millis * Seconds(x), Grain * x, 0)
<1>1. PICK m \in Nat, g \in Nat : m = Millis * Seconds(x) /\ g = Grain * x
  <2>1. Millis \in Nat /\ Grain \in Nat /\ Seconds(x) \in Nat
    BY RateAssumption, SecondsNear
  <2> QED BY Zenon, <2>1, Products
<1>2. 2 * m <= 2 * g + Millis /\ 2 * g <= 2 * m + Millis
  BY Zenon, <1>1, SecondsNear
<1>3. Near(0, 0, m, g, 0)
  BY <1>2, RateAssumption DEF Near
<1> QED BY Zenon, <1>1, <1>3

(* A product with a number that moves.                                      *)
LEMMA ProductMoved ==
  ASSUME NEW g \in Nat, NEW k \in Int, NEW x \in Nat, NEW y \in Nat
  PROVE  g * (k + (y - x)) = g * k + (g * y - g * x)
<1>1. g * (y - x) = g * y - g * x
  OBVIOUS
<1>2. PICK d \in Int : d = y - x
  OBVIOUS
<1>3. g * (k + d) = g * k + g * d
  OBVIOUS
<1> QED BY Zenon, <1>1, <1>2, <1>3

(* A call at reading y after one at reading x: what it adds to the time     *)
(* passed on the clock, u, and in doubles, w, since v and z, and to the     *)
(* number d of steps back.                                                  *)
Moves(u, v, w, z, d, x, y, X, Y, U, W, e) ==
  /\ u \in Nat /\ v \in Nat /\ w \in Nat /\ z \in Nat /\ d \in Nat /\ x \in Nat /\ y \in Nat
  /\ X = Seconds(x) /\ Y = Seconds(y)
  /\ U = u + Higher(0, y - x) /\ W = w + Higher(0, Y - X)
  /\ (y < x => e = d + 1) /\ (~(y < x) => e = d)
  /\ Near(Millis * (w - z), Grain * (u - v), Millis * X, Grain * x, Millis * d)

(* Both times stay near each other.                                         *)
LEMMA DriftNext ==
  ASSUME NEW u, NEW v, NEW w, NEW z, NEW d, NEW x, NEW y, NEW X, NEW Y,
         NEW U, NEW W, NEW e, Moves(u, v, w, z, d, x, y, X, Y, U, W, e)
  PROVE  e \in Nat /\ Near(Millis * (W - z), Grain * (U - v), Millis * Y, Grain * y, Millis * e)
<1>0. /\ u \in Nat /\ v \in Nat /\ w \in Nat /\ z \in Nat /\ d \in Nat /\ x \in Nat /\ y \in Nat
      /\ X = Seconds(x) /\ Y = Seconds(y)
  BY Zenon DEF Moves
<1>1. Millis \in Nat /\ Grain \in Nat /\ X \in Nat /\ Y \in Nat
  BY <1>0, RateAssumption, SecondsNear
<1>2. PICK MQ \in Int, GP \in Int, MD \in Int :
        MQ = Millis * (w - z) /\ GP = Grain * (u - v) /\ MD = Millis * d
  <2>1. \A a \in Nat, b \in Int : a * b \in Int
    OBVIOUS
  <2>2. w - z \in Int /\ u - v \in Int /\ d \in Int
    BY <1>0
  <2> QED BY Zenon, <1>1, <2>1, <2>2
<1>3. PICK MX \in Int, GX \in Int, MY \in Int, GY \in Int :
        /\ MX = Millis * X /\ GX = Grain * x /\ MY = Millis * Y /\ GY = Grain * y
        /\ Near(0, 0, MX, GX, 0) /\ Near(0, 0, MY, GY, 0)
  <2>1. \A a \in Nat : a \in Int
    OBVIOUS
  <2> QED BY Zenon, <1>0, <2>1, ReadingNear
<1>4. Near(MQ, GP, MX, GX, MD)
  BY Zenon, <1>2, <1>3 DEF Moves
<1>5. CASE y < x
  <2>1. Y <= X
    <3>1. y <= x
      BY <1>0, <1>5
    <3> QED BY Zenon, <1>0, <3>1, SecondsNear
  <2>2. U = u /\ W = w /\ e = d + 1
    <3>1. U = u + Higher(0, y - x) /\ W = w + Higher(0, Y - X) /\ e = d + 1
      BY Zenon, <1>5 DEF Moves
    <3> QED BY <1>0, <1>1, <1>5, <2>1, <3>1 DEF Higher
  <2>3. Millis * (W - z) = MQ /\ Grain * (U - v) = GP
    BY Zenon, <1>2, <2>2
  <2>4. Millis * e = MD + Millis /\ e \in Nat
    BY <1>0, <1>1, <1>2, <2>2
  <2>5. Near(MQ, GP, MY, GY, MD + Millis)
    BY Zenon, <1>3, <1>4, NearNext
  <2> QED BY Zenon, <1>3, <2>3, <2>4, <2>5
<1>6. CASE ~(y < x)
  <2>1. X <= Y
    <3>1. x <= y
      BY <1>0, <1>6
    <3> QED BY Zenon, <1>0, <3>1, SecondsNear
  <2>2. U = u + (y - x) /\ W = w + (Y - X) /\ e = d
    <3>1. U = u + Higher(0, y - x) /\ W = w + Higher(0, Y - X) /\ e = d
      BY Zenon, <1>6 DEF Moves
    <3> QED BY <1>0, <1>1, <1>6, <2>1, <3>1 DEF Higher
  <2>3. Millis * (W - z) = MQ + (MY - MX)
    <3>1. PICK k \in Int : k = w - z /\ W - z = k + (Y - X)
      BY <1>0, <1>1, <2>2
    <3>2. Millis * (k + (Y - X)) = Millis * k + (Millis * Y - Millis * X)
      BY SMTT(30), <1>0, <1>1, ProductMoved
    <3> QED BY Zenon, <1>2, <1>3, <3>1, <3>2
  <2>4. Grain * (U - v) = GP + (GY - GX)
    <3>1. PICK k \in Int : k = u - v /\ U - v = k + (y - x)
      BY <1>0, <1>1, <2>2
    <3>2. Grain * (k + (y - x)) = Grain * k + (Grain * y - Grain * x)
      BY SMTT(30), <1>0, <1>1, ProductMoved
    <3> QED BY Zenon, <1>2, <1>3, <3>1, <3>2
  <2>5. Millis * e = MD /\ e \in Nat
    BY Zenon, <1>0, <1>2, <2>2
  <2>6. Near(MQ + (MY - MX), GP + (GY - GX), MY, GY, MD)
    BY Zenon, <1>3, <1>4, NearNext
  <2> QED BY Zenon, <1>3, <2>3, <2>4, <2>5, <2>6
<1> QED BY Zenon, <1>5, <1>6

(* The time passed in doubles is the time passed on the clock, but for the  *)
(* slack.                                                                   *)
LEMMA Drift ==
  ASSUME NEW n \in Nat, NEW readings \in [1..n -> Nat], NEW now, now = Doubles(readings),
         NEW i \in 1..n, NEW j \in 1..i
  PROVE  /\ Millis * Passed(now, j, i) \in Nat
         /\ Grain * Passed(readings, j, i) \in Nat /\ Millis * Slack(readings, j, i) \in Nat
         /\ Millis * Passed(now, j, i)
              <= Grain * Passed(readings, j, i) + Millis * Slack(readings, j, i)
         /\ Grain * Passed(readings, j, i) - Millis * Slack(readings, j, i)
              <= Millis * Passed(now, j, i)
<1>0. Grain \in Nat /\ Millis \in Nat /\ i \in Nat /\ j \in Nat /\ j \in 1..n /\ j <= i
  BY RateAssumption
<1>1. now \in [1..n -> Nat] /\ \A k \in 1..n : now[k] = Seconds(readings[k])
  BY Zenon, DoublesTyped
<1>2. PICK s : /\ s \in [0..n -> Nat]
               /\ \A k \in 1..n : k # 1 => s[k] = s[k - 1] + Higher(0, readings[k] - readings[k - 1])
               /\ \A k \in 1..n, l \in 1..n : l <= k =>
                    s[k] - s[l] \in Nat /\ Passed(readings, l, k) = s[k] - s[l]
  BY Zenon, PassedNext
<1>3. PICK q : /\ q \in [0..n -> Nat]
               /\ \A k \in 1..n : k # 1 => q[k] = q[k - 1] + Higher(0, now[k] - now[k - 1])
               /\ \A k \in 1..n, l \in 1..n : l <= k =>
                    q[k] - q[l] \in Nat /\ Passed(now, l, k) = q[k] - q[l]
  BY Zenon, <1>1, PassedNext
<1> DEFINE b == Back(readings)
           MQ(m) == Millis * (q[m] - q[j])
           GP(m) == Grain * (s[m] - s[j])
           MX(m) == Millis * now[m]
           GX(m) == Grain * readings[m]
           D(m) == Granted(b, j + 1, m)
           Holds(m) == D(m) \in Nat /\ Near(MQ(m), GP(m), MX(m), GX(m), Millis * D(m))
<1>4. ASSUME NEW m \in 1..n
      PROVE  MX(m) \in Nat /\ GX(m) \in Nat /\ Near(0, 0, MX(m), GX(m), 0)
  <2>1. readings[m] \in Nat /\ now[m] \in Nat
    BY Zenon, <1>1
  <2>2. MX(m) \in Nat /\ GX(m) \in Nat
    BY Zenon, <1>0, <2>1, Products
  <2>3. 2 * MX(m) <= 2 * GX(m) + Millis /\ 2 * GX(m) <= 2 * MX(m) + Millis
    BY Zenon, <1>1, <2>1, SecondsNear
  <2> HIDE DEF MX, GX
  <2> QED BY SMTT(30), <1>0, <2>2, <2>3 DEF Near
<1>5. ASSUME NEW m \in j..i
      PROVE  m \in 1..n /\ m \in Nat /\ q[m] - q[j] \in Nat /\ s[m] - s[j] \in Nat
             /\ MQ(m) \in Nat /\ GP(m) \in Nat
  <2>1. m \in 1..n /\ m \in Nat /\ j <= m
    BY <1>0
  <2>2. q[m] - q[j] \in Nat /\ s[m] - s[j] \in Nat
    BY Zenon, <1>0, <1>2, <1>3, <2>1
  <2> QED BY Zenon, <1>0, <2>1, <2>2, Products
<1>6. Holds(j)
  <2>1. q[j] \in Nat /\ s[j] \in Nat
    <3>1. j \in 0..n
      BY <1>0
    <3> QED BY Zenon, <1>2, <1>3, <3>1
  <2>2. MQ(j) = 0 /\ GP(j) = 0
    BY <1>0, <2>1
  <2>3. D(j) = 0
    <3>1. j <= j
      BY <1>0
    <3> QED BY Zenon, <1>0, <3>1, BackNext
  <2>4. Millis * D(j) = 0 /\ D(j) \in Nat
    BY <1>0, <2>3
  <2> QED BY Zenon, <1>0, <1>4, <2>2, <2>4
<1>7. ASSUME NEW m \in j..i, m + 1 \in j..i, Holds(m) PROVE Holds(m + 1)
  <2>1. /\ m \in Nat /\ m + 1 \in Nat /\ m + 1 # 1 /\ m \in 1..n /\ m + 1 \in 1..n
        /\ (m + 1) - 1 = m /\ j <= m /\ j + 1 \in Nat /\ j + 1 <= m + 1 /\ m \in 0..n /\ j \in 0..n
    BY <1>0, <1>7
  <2>2. readings[m] \in Nat /\ readings[m + 1] \in Nat
    BY Zenon, <2>1
  <2>3. s[m] \in Nat /\ s[j] \in Nat /\ q[m] \in Nat /\ q[j] \in Nat /\ D(m) \in Nat
    BY Zenon, <1>2, <1>3, <1>7, <2>1
  <2>4. now[m] = Seconds(readings[m]) /\ now[m + 1] = Seconds(readings[m + 1])
    BY Zenon, <1>1, <2>1
  <2>5. /\ s[m + 1] = s[m] + Higher(0, readings[m + 1] - readings[m])
        /\ q[m + 1] = q[m] + Higher(0, now[m + 1] - now[m])
    BY Zenon, <1>2, <1>3, <2>1
  <2>6. /\ readings[m + 1] < readings[m] => D(m + 1) = D(m) + 1
        /\ ~(readings[m + 1] < readings[m]) => D(m + 1) = D(m)
    <3>1. j <= m /\ m \in Nat
      BY Zenon, <2>1
    <3> QED BY ZenonT(60), <1>0, <3>1, BackNext
  <2> HIDE DEF D
  <2>7. Near(Millis * (q[m] - q[j]), Grain * (s[m] - s[j]),
             Millis * now[m], Grain * readings[m], Millis * D(m))
    BY Zenon, <1>7
  <2>8. /\ D(m + 1) \in Nat
        /\ Near(Millis * (q[m + 1] - q[j]), Grain * (s[m + 1] - s[j]),
                Millis * now[m + 1], Grain * readings[m + 1], Millis * D(m + 1))
    <3>1. Moves(s[m], s[j], q[m], q[j], D(m), readings[m], readings[m + 1],
                now[m], now[m + 1], s[m + 1], q[m + 1], D(m + 1))
      BY Zenon, <2>2, <2>3, <2>4, <2>5, <2>6, <2>7 DEF Moves
    <3> QED BY Zenon, <3>1, DriftNext
  <2> QED BY Zenon, <2>8
<1> HIDE DEF MQ, GP, MX, GX, D, b
<1>8. Holds(i)
  <2> DEFINE S == {m \in Nat : m \in j..i => Holds(m)}
  <2>1. 0 \in S
    <3>1. 0 \in j..i => 0 = j
      BY <1>0
    <3> QED BY Zenon, <1>6, <3>1
  <2>2. ASSUME NEW m \in Nat, m \in S PROVE m + 1 \in S
    <3>1. m + 1 \in Nat /\ (m + 1 \in j..i => m + 1 = j \/ m \in j..i)
      BY <1>0
    <3> QED BY Zenon, <1>6, <1>7, <2>2, <3>1
  <2> HIDE DEF S
  <2>3. i \in S
    BY Zenon, <1>0, <2>1, <2>2, Counting
  <2>4. i \in j..i
    BY <1>0
  <2> QED BY Zenon, <2>3, <2>4 DEF S
<1>9. Passed(readings, j, i) = s[i] - s[j] /\ Passed(now, j, i) = q[i] - q[j]
  BY Zenon, <1>0, <1>2, <1>3
<1>10. i \in j..i
  BY <1>0
<1>11. MQ(i) \in Nat /\ GP(i) \in Nat
  BY Zenon, <1>5, <1>10
<1>12. CASE i = j
  <2>1. Passed(readings, j, i) = 0 /\ Passed(now, j, i) = 0
    <3>1. j \in 0..n
      BY <1>0
    <3>2. s[j] \in Nat /\ q[j] \in Nat
      BY Zenon, <1>2, <1>3, <3>1
    <3> QED BY <1>9, <1>12, <3>2
  <2>2. Slack(readings, j, i) = 0
    BY Zenon, <1>12 DEF Slack
  <2> QED BY SMTT(30), <1>0, <2>1, <2>2
<1>13. CASE i # j
  <2>1. j < i
    BY <1>0, <1>13
  <2>2. Slack(readings, j, i) = 1 + D(i)
    BY Zenon, <1>0, <2>1, SlackCounts DEF D, b
  <2>3. D(i) \in Nat /\ Millis * D(i) \in Nat
    BY Zenon, <1>0, <1>8, Products
  <2>4. Millis * (1 + D(i)) = Millis + Millis * D(i) /\ Millis + Millis * D(i) \in Nat
    BY <1>0, <2>3
  <2>5. /\ MQ(i) \in Int /\ GP(i) \in Int /\ MX(i) \in Int /\ GX(i) \in Int
        /\ Millis * D(i) \in Int /\ Near(0, 0, MX(i), GX(i), 0)
    <3>1. \A e \in Nat : e \in Int
      OBVIOUS
    <3> QED BY Zenon, <1>4, <1>11, <2>3, <3>1
  <2>6. /\ MQ(i) <= GP(i) + (Millis + Millis * D(i))
        /\ GP(i) - (Millis + Millis * D(i)) <= MQ(i)
    BY Zenon, <1>8, <2>5, NearNext
  <2> QED BY Zenon, <1>9, <1>11, <2>2, <2>4, <2>6 DEF MQ, GP
<1> QED BY Zenon, <1>12, <1>13

(* WindowsOnTime.                                                           *)
LEMMA WindowsAreOnTime == WindowsOnTime
<1> SUFFICES ASSUME NEW rate \in 1 .. MaxRate, NEW burst \in 1 .. MaxBurst,
                    NEW readings \in [1 .. MaxCalls -> 0 .. MaxReading],
                    burst <= rate * Expiry, NEW i \in 1 .. MaxCalls
             PROVE  LET c == Calls(Doubles(readings), rate, burst)
                    IN  /\ c[i].allowed =>
                             \A j \in 1 .. i :
                               Fits(c, rate, burst, j, i, Grain * Passed(readings, j, i)
                                                            + Millis * Slack(readings, j, i))
                        /\ (\A j \in 1 .. i :
                              Fits(c, rate, burst, j, i, Grain * Passed(readings, j, i)
                                                           - Millis * Slack(readings, j, i)))
                             => c[i].allowed
  BY Zenon DEF WindowsOnTime
<1> DEFINE now == Doubles(readings)
           c == Calls(now, rate, burst)
<1>1. /\ rate \in Nat /\ burst \in Nat /\ MaxCalls \in Nat
      /\ readings \in [1 .. MaxCalls -> Nat]
  BY RateAssumption
<1>2. c[i].allowed <=>
        \A j \in 1 .. i : Fits(c, rate, burst, j, i, Millis * Passed(now, j, i))
  BY Zenon, WindowsAreExact DEF WindowsExact
<1>3. now \in [1 .. MaxCalls -> Nat]
  BY Zenon, <1>1, DoublesTyped
<1>4. PICK t \in Nat : Balanced(t, c, now, rate, burst, i)
  BY Zenon, <1>1, <1>3, TokensAreLeast
<1> DEFINE Q(j) == Millis * Passed(now, j, i)
           P(j) == Grain * Passed(readings, j, i)
           L(j) == Millis * Slack(readings, j, i)
<1>5. ASSUME NEW j \in 1..i
      PROVE  /\ Granted(c, j, i - 1) \in Nat
             /\ Q(j) \in Nat /\ P(j) \in Nat /\ L(j) \in Nat
             /\ Q(j) <= P(j) + L(j) /\ P(j) - L(j) <= Q(j)
  <2>1. Granted(c, j, i - 1) \in Nat
    BY Zenon, <1>4 DEF Balanced
  <2> HIDE DEF c
  <2> QED BY Zenon, <1>1, <2>1, Drift
<1> HIDE DEF Q, P, L, c, now
<1>6. ASSUME NEW j \in 1..i
      PROVE  /\ Granted(c, j, i - 1) \in Nat
             /\ Q(j) \in Int /\ P(j) + L(j) \in Int /\ P(j) - L(j) \in Int
             /\ Q(j) <= P(j) + L(j) /\ P(j) - L(j) <= Q(j)
  <2>1. \A a, e \in Nat : a \in Int /\ a + e \in Int /\ a - e \in Int
    OBVIOUS
  <2> QED BY Zenon, <1>5, <2>1
<1>7. ASSUME NEW j \in 1..i, Fits(c, rate, burst, j, i, Q(j))
      PROVE  Fits(c, rate, burst, j, i, P(j) + L(j))
  BY Zenon, <1>1, <1>6, <1>7, FitsLonger
<1>8. ASSUME NEW j \in 1..i, Fits(c, rate, burst, j, i, P(j) - L(j))
      PROVE  Fits(c, rate, burst, j, i, Q(j))
  BY Zenon, <1>1, <1>6, <1>8, FitsLonger
<1> QED BY Zenon, <1>2, <1>7, <1>8 DEF Q, P, L, c, now

(* RateLimited: whatever calls reached the limiter, and in whatever order, it *)
(* admits exactly what the windows of calls allow in the times it is given,   *)
(* and on the clock what they allow up to the rounding of these times.        *)
THEOREM RateLimitedHolds == Spec => []RateLimited
<1>1. RateLimited
  BY Zenon, WindowsAreExact, WindowsAreOnTime DEF RateLimited
<1> QED BY <1>1, PTL
=============================================================================
