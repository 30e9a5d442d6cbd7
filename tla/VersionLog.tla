----------------------------- MODULE VersionLog -----------------------------
(***************************************************************************)
(* What publishing promises of one workflow: a draft that is edited at     *)
(* will, and a log of versions that only grows, one valid draft at a time.  *)
(***************************************************************************)
EXTENDS Naturals

CONSTANTS Def,     \* workflow definitions
          Valid    \* those that may be published

VARIABLES state,   \* absent, draft, published or deleted
          draft,   \* the definition as last edited
          log      \* version number -> definition

Live == state \in {"draft", "published"}

LogInit == state = "absent" /\ draft \in Def /\ log = [n \in {} |-> draft]

Edit == /\ state = "absent" \/ Live
        /\ state' = "draft"
        /\ draft' \in Def
        /\ UNCHANGED log

Publish == /\ Live
           /\ draft \in Valid
           /\ state' = "published"
           /\ \E n \in DOMAIN log \cup {0} :
                /\ DOMAIN log = 1..n
                /\ log' = [i \in 1..(n + 1) |-> IF i = n + 1 THEN draft ELSE log[i]]
           /\ UNCHANGED draft

Delete == Live /\ state' = "deleted" /\ UNCHANGED <<draft, log>>

LogSpec == LogInit /\ [][Edit \/ Publish \/ Delete]_<<state, draft, log>>
=============================================================================
