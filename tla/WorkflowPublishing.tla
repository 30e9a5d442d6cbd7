------------------------- MODULE WorkflowPublishing -------------------------
(***************************************************************************)
(* TaskCanvas, one workflow: drafts that are edited and deleted, the       *)
(* publishing of versions, and the start of executions, by concurrent API   *)
(* requests over the tables workflows, workflow_versions and                *)
(* workflow_executions.                                                     *)
(*                                                                         *)
(* The grain of atomicity is one SQL statement.  The publishing transaction *)
(* is cut into its statements: it holds the row lock of SELECT ... FOR      *)
(* UPDATE to its end, and what it writes is seen when it commits.           *)
(*                                                                         *)
(* updated_at is only ever compared for equality.  Every write has a stamp  *)
(* of its own: no two happen in one microsecond.  Status archived, which no *)
(* code sets, names and slugs are left out.                                 *)
(***************************************************************************)
EXTENDS FiniteSets, RateLimiter

CONSTANTS Def, Valid,    \* definitions; what ValidateWorkflowDefinition accepts
          Caller,        \* concurrent API requests
          Key, Input,    \* idempotency keys and inputs of start requests
          None,
          MaxWrites      \* bound: stamps

ASSUME PublishingAssumption ==
  /\ Valid \subseteq Def /\ Def # {}
  /\ None \notin Caller \cup Key \cup Input \cup Def
  /\ MaxWrites \in Nat

VARIABLES row,         \* Postgres: workflows
          versions,    \* Postgres: workflow_versions, number -> definition
          executions,  \* Postgres: workflow_executions with their node rows
          lock,        \* the publisher that holds the lock of the row
          clock,       \* stamps taken so far
          call,        \* the API requests
          answers      \* history: successful answers to start requests

vars == <<row, versions, executions, lock, clock, call, answers>>

Row == [status : {"absent", "draft", "published", "deleted"}, def : Def, stamp : Nat]

Execution == [id : Nat, key : Key, version : Nat, input : Input, nodes : Def]

(* pc is the statement a request makes next; def and stamp are what it read *)
(* of the workflow or version; version is the one it publishes or starts,   *)
(* 0 standing for the latest.                                               *)
Call == [pc : {"idle", "edit", "lock", "number", "commit", "select", "find", "insert"},
         def : Def \cup {None}, stamp : Nat, version : Nat,
         key : Key \cup {None}, input : Input \cup {None}]

Idle == [pc |-> "idle", def |-> None, stamp |-> 0, version |-> 0,
         key |-> None, input |-> None]

TypeOK ==
  /\ row \in Row
  /\ DOMAIN versions \subseteq Nat
  /\ \A n \in DOMAIN versions : versions[n] \in Def
  /\ executions \subseteq Execution /\ IsFiniteSet(executions)
  /\ lock \in Caller \cup {None}
  /\ clock \in Nat
  /\ call \in [Caller -> Call]
  /\ answers \subseteq [id : Nat, key : Key, version : Nat, input : Input]

Init ==
  /\ \E d \in Def : row = [status |-> "absent", def |-> d, stamp |-> 0]
  /\ versions = [n \in {} |-> row.def]
  /\ executions = {}
  /\ lock = None
  /\ clock = 0
  /\ call = [c \in Caller |-> Idle]
  /\ answers = {}

(* A statement that writes the row waits for its lock and leaves a stamp.   *)
Stamps(c) == lock \in {None, c} /\ clock < MaxWrites /\ clock' = clock + 1

Return(c) == call' = [call EXCEPT ![c] = Idle]
-----------------------------------------------------------------------------
(* usecase.WorkflowService: drafts.                                         *)

(* GetWorkflowByID finds the row.                                           *)
Visible == row.status \in {"draft", "published"}

CreateWorkflow(c) ==
  /\ call[c].pc = "idle"
  /\ row.status = "absent"
  /\ Stamps(c)
  /\ \E d \in Def : row' = [status |-> "draft", def |-> d, stamp |-> clock']
  /\ UNCHANGED <<versions, executions, lock, call, answers>>

EditRead(c) ==
  /\ call[c].pc = "idle"
  /\ Visible
  /\ call' = [call EXCEPT ![c].pc = "edit"]
  /\ UNCHANGED <<row, versions, executions, lock, clock, answers>>

(* Mutant: an edit leaves the status alone.                                 *)
EditedInPlace(r, d, s) == [r EXCEPT !.def = d, !.stamp = s]

Edited(r, d, s) == [status |-> "draft", def |-> d, stamp |-> s]

(* Mutant: the WHERE clause forgets deleted_at.                             *)
WritableAny(r) == r.status # "absent"

Writable(r) == r.status \in {"draft", "published"}

(* UpdateWorkflow overwrites whatever is there by now.  A request without a *)
(* definition writes back the one it read.                                  *)
EditWrite(c) ==
  /\ call[c].pc = "edit"
  /\ Stamps(c)
  /\ IF Writable(row) THEN \E d \in Def : row' = Edited(row, d, clock')
                      ELSE UNCHANGED row
  /\ Return(c)
  /\ UNCHANGED <<versions, executions, lock, answers>>

DeleteWorkflow(c) ==
  /\ call[c].pc = "idle"
  /\ Visible
  /\ Stamps(c)
  /\ row' = [row EXCEPT !.status = "deleted", !.stamp = clock']
  /\ UNCHANGED <<versions, executions, lock, call, answers>>
-----------------------------------------------------------------------------
(* PublishWorkflow of the service and of the repository.                    *)

(* The service reads the workflow and validates what it read.               *)
PublishRead(c) ==
  /\ call[c].pc = "idle"
  /\ Visible
  /\ row.def \in Valid
  /\ call' = [call EXCEPT ![c] = [Idle EXCEPT !.pc = "lock", !.def = row.def,
                                              !.stamp = row.stamp]]
  /\ UNCHANGED <<row, versions, executions, lock, clock, answers>>

(* Mutant: the conflict check is dropped.                                   *)
UnchangedSinceNot(c) == Visible

UnchangedSince(c) == Visible /\ row.stamp = call[c].stamp

(* SELECT ... FOR UPDATE: the row as it is once the lock is granted.        *)
PublishLock(c) ==
  /\ call[c].pc = "lock"
  /\ lock = None
  /\ IF UnchangedSince(c)
     THEN /\ lock' = c
          /\ call' = [call EXCEPT ![c].pc = "number", ![c].def = row.def]
     ELSE Return(c) /\ UNCHANGED lock
  /\ UNCHANGED <<row, versions, executions, clock, answers>>

(* COALESCE(MAX(version), 0).                                               *)
Newest(S) == IF S = {} THEN 0 ELSE CHOOSE n \in S : \A m \in S : m <= n

Latest == Newest(DOMAIN versions)

PublishNumber(c) ==
  /\ call[c].pc = "number"
  /\ call' = [call EXCEPT ![c].pc = "commit", ![c].version = Latest + 1]
  /\ UNCHANGED <<row, versions, executions, lock, clock, answers>>

(* The version is inserted (its number is unique), the workflow is marked   *)
(* published, and the transaction commits.                                  *)
PublishCommit(c) ==
  LET n == call[c].version IN
  /\ call[c].pc = "commit"
  /\ Stamps(c)
  /\ Writable(row) /\ n \notin DOMAIN versions
  /\ versions' = [i \in DOMAIN versions \cup {n} |->
                    IF i = n THEN call[c].def ELSE versions[i]]
  /\ row' = [row EXCEPT !.status = "published", !.stamp = clock']
  /\ lock' = None
  /\ Return(c)
  /\ UNCHANGED <<executions, answers>>

(* A request is cut short, by an error, a cancelled context or a crash of   *)
(* the API; a transaction is rolled back.                                   *)
Abandon(c) ==
  /\ call[c].pc # "idle"
  /\ Return(c)
  /\ lock' = IF lock = c THEN None ELSE lock
  /\ UNCHANGED <<row, versions, executions, clock, answers>>
-----------------------------------------------------------------------------
(* StartExecution, selectVersion and CreateWorkflowExecution.  What comes   *)
(* after, AdvanceExecution, is in module TaskCanvas.                        *)

StartCheck(c) ==
  /\ call[c].pc = "idle"
  /\ row.status = "published"
  /\ \E k \in Key, i \in Input, n \in 0..(Latest + 1) :
       call' = [call EXCEPT ![c] = [Idle EXCEPT !.pc = "select", !.key = k,
                                                !.input = i, !.version = n]]
  /\ UNCHANGED <<row, versions, executions, lock, clock, answers>>

(* Mutant: the node rows are made from the draft.                           *)
SnapshotDraft(n) == row.def

(* The definition the node rows are made from.                              *)
Snapshot(n) == versions[n]

StartSelect(c) ==
  LET n == IF call[c].version = 0 THEN Latest ELSE call[c].version IN
  /\ call[c].pc = "select"
  /\ IF Visible /\ n \in DOMAIN versions
     THEN call' = [call EXCEPT ![c].pc = "find", ![c].version = n,
                               ![c].def = Snapshot(n)]
     ELSE Return(c)
  /\ UNCHANGED <<row, versions, executions, lock, clock, answers>>

(* Mutant: the fingerprint leaves the version out.                          *)
SameInput(c, x) == x.input = call[c].input

SameRequest(c, x) == x.input = call[c].input /\ x.version = call[c].version

Answer(c, x) ==
  answers' = answers \cup {[id |-> x.id, key |-> call[c].key,
                            version |-> call[c].version, input |-> call[c].input]}

(* An execution with the key is returned to a repetition of its request;    *)
(* any other request is a conflict.                                         *)
Reuse(c, x) ==
  /\ x.key = call[c].key
  /\ IF SameRequest(c, x) THEN Answer(c, x) ELSE UNCHANGED answers
  /\ Return(c)
  /\ UNCHANGED executions

(* getWorkflowExecutionByIdempotency.                                       *)
Taken(k) == \E x \in executions : x.key = k

StartFind(c) ==
  /\ call[c].pc = "find"
  /\ \/ \E x \in executions : Reuse(c, x)
     \/ /\ ~Taken(call[c].key)
        /\ call' = [call EXCEPT ![c].pc = "insert"]
        /\ UNCHANGED <<executions, answers>>
  /\ UNCHANGED <<row, versions, lock, clock>>

(* Rows and node rows are inserted in one transaction.  If another request  *)
(* was faster the unique constraint fails and its execution is looked up.   *)
StartInsert(c) ==
  /\ call[c].pc = "insert"
  /\ \/ \E x \in executions : Reuse(c, x)
     \/ /\ ~Taken(call[c].key)
        /\ LET x == [id |-> Cardinality(executions) + 1, key |-> call[c].key,
                     version |-> call[c].version, input |-> call[c].input,
                     nodes |-> call[c].def]
           IN  executions' = executions \cup {x} /\ Answer(c, x)
        /\ Return(c)
  /\ UNCHANGED <<row, versions, lock, clock>>
-----------------------------------------------------------------------------
Next == \E c \in Caller :
  \/ CreateWorkflow(c) \/ EditRead(c) \/ EditWrite(c) \/ DeleteWorkflow(c)
  \/ PublishRead(c) \/ PublishLock(c) \/ PublishNumber(c) \/ PublishCommit(c)
  \/ StartCheck(c) \/ StartSelect(c) \/ StartFind(c) \/ StartInsert(c)
  \/ Abandon(c)

Spec == Init /\ [][Next]_vars
-----------------------------------------------------------------------------
(* PublishWorkflow validates what the service read (workflow_service.go:156)*)
(* and publishes what the transaction read (workflow_repository.go:186): in *)
(* spite of edits in between, and of concurrent publishes, versions are     *)
(* numbered without gaps and every one of them is valid.                    *)
VersionsSound ==
  /\ \E n \in DOMAIN versions \cup {0} : DOMAIN versions = 1..n
  /\ \A n \in DOMAIN versions : versions[n] \in Valid

(* A workflow that shows as published shows what its latest version holds,  *)
(* although edits overwrite the row (workflow_repository.go:114) whatever   *)
(* was published since they read it.                                        *)
PublishedIsLatest ==
  row.status = "published" =>
    Latest \in DOMAIN versions /\ versions[Latest] = row.def

(* Edits, publishes and deletions in any overlap do what an editable draft  *)
(* with an append-only log of its valid versions does: no version changes   *)
(* or vanishes, and a deleted workflow gets no edit and no version.         *)
Log == INSTANCE VersionLog WITH state <- row.status, draft <- row.def, log <- versions

ImplementsLog == Log!LogSpec

(* The node rows of an execution, made from what selectVersion read         *)
(* (workflow_execution_service.go:104), are those of the version it is      *)
(* pinned to, and that version passed validation: AdvanceExecution relies   *)
(* on both.                                                                 *)
ExecutionPinned ==
  \A x \in executions : /\ x.version \in DOMAIN versions
                        /\ x.nodes = versions[x.version]
                        /\ x.nodes \in Valid

(* docs/taskcanvas.md:656: concurrent and repeated requests with one key    *)
(* start one execution, and only requests for its version and input are     *)
(* answered with it (workflow_execution_repository.go:40).                  *)
IdempotentStart ==
  /\ \A x, y \in executions : x.key = y.key => x = y
  /\ \A a \in answers : \E x \in executions :
       /\ x.id = a.id /\ x.key = a.key
       /\ x.version = a.version /\ x.input = a.input

(* RateLimitMiddleware (api/middleware.go:95) lets a request through, and a *)
(* pool asks the same limiter before each task.  In whatever order the calls*)
(* of several processes reach Redis, the limiter admits what rate and burst *)
(* allow in every window of calls: exactly that in the times the script is  *)
(* given, and up to their rounding by the clock.                            *)
RateLimited == \A c \in Caller : call[c].pc # "idle" => WindowsExact /\ WindowsOnTime
=============================================================================
