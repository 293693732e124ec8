---------------------------- MODULE Reconciliation ----------------------------
(***************************************************************************)
(* What a SyncState pass promises, without its loops, phases and API round *)
(* trips (the Manager interface comment, pkg/state/manager.go, and spec    *)
(* sections 5-7).  A pass reconciles the custom resource as it was when   *)
(* the pass began.  While it runs, the operator only writes objects that   *)
(* spec renders, with the fields it renders, and only removes objects of   *)
(* a state that spec disables or renders without them.  Each state        *)
(* reports once, in the configured order.  A state's report is favourable *)
(* (Ready or Ignore) only when no object of it is left over from another   *)
(* spec.  The pass publishes Ready exactly when every report was           *)
(* favourable.  A started pass always ends.                               *)
(***************************************************************************)
EXTENDS Naturals, Sequences, FiniteSets, SequencesExt

CONSTANTS States, Objs, Owner, Configs, NoContent, MaxDisturbances,
          StateOrder, Rendering

VARIABLES
    live, terminating, content, rolledOut, cr, budget,  \* as in ClusterAPI
    busy,        \* a pass is running
    target,      \* the custom-resource spec the pass reconciles
    visited,     \* states that have reported in this pass
    confirmed,   \* states whose report was favourable
    verdict,     \* the status the last finished pass published
    verdictFor   \* the spec that pass reconciled

clusterVars == <<live, terminating, content, rolledOut, cr, budget>>

passVars == <<busy, target, visited, confirmed, verdict, verdictFor>>
avars == <<clusterVars, passVars>>

Desired(s, c) == ToSet(Rendering[s][c].objs)
Tracked(s) == {o \in live : Owner[o] = s}
Stale(s, c) == Tracked(s) \ Desired(s, c)
AllDesired(c) == UNION {Desired(s, c) : s \in States}
\* Objects the spec c lets the operator delete.
Removable(c) ==
    {o \in Objs : LET r == Rendering[Owner[o]][c] IN
                  ~r.enabled \/ (r.renderOk /\ o \notin Desired(Owner[o], c))}

Init ==
    /\ live = {} /\ terminating = {} /\ rolledOut = {}
    /\ content = [o \in Objs |-> NoContent]
    /\ cr \in Configs
    /\ budget = MaxDisturbances
    /\ busy = FALSE
    /\ target = cr
    /\ visited = {}
    /\ confirmed = {}
    /\ verdict = "None"
    /\ verdictFor = cr

Begin ==
    /\ ~busy
    /\ busy' = TRUE
    /\ target' = cr
    /\ visited' = {}
    /\ confirmed' = {}
    /\ UNCHANGED <<clusterVars, verdict, verdictFor>>

\* A failed API call spends a disturbance; nothing else of the cluster
\* other than the objects moves.
CallsOnly == /\ UNCHANGED cr
             /\ budget' \in {budget, budget - 1}

\* The operator writes and deletes objects towards target.
Reconcile ==
    /\ busy
    /\ live' \ live \subseteq AllDesired(target)
    /\ (live \ live') \cup (terminating' \ terminating)
          \subseteq Removable(target)
    /\ \A o \in Objs : content'[o] # content[o] =>
          \/ o \in AllDesired(target) /\ content'[o] = target
          \/ o \in Removable(target) /\ content'[o] = NoContent
    /\ rolledOut' \subseteq rolledOut
    /\ CallsOnly
    /\ UNCHANGED passVars

\* The next state in order reports.  A favourable report needs the state
\* free of left-overs: disabled and owning nothing, or rendered and owning
\* nothing the rendering lacks.
Report(favourable) ==
    /\ busy
    /\ Cardinality(visited) < Len(StateOrder)
    /\ LET s == StateOrder[Cardinality(visited) + 1]
           r == Rendering[s][target]
       IN /\ visited' = visited \cup {s}
          /\ favourable => IF r.enabled THEN r.renderOk /\ Stale(s, target) = {}
                                        ELSE Tracked(s) = {}
          /\ confirmed' = IF favourable THEN confirmed \cup {s} ELSE confirmed
    /\ UNCHANGED <<live, terminating, content, rolledOut>>
    /\ CallsOnly
    /\ UNCHANGED <<busy, target, verdict, verdictFor>>

Publish ==
    /\ busy /\ visited = States
    /\ busy' = FALSE
    /\ verdict' = IF confirmed = States THEN "Ready" ELSE "NotReady"
    /\ verdictFor' = target
    /\ UNCHANGED <<clusterVars, target, visited, confirmed>>

Work == Reconcile \/ Report(TRUE) \/ Report(FALSE) \/ Publish

\* The rest of the cluster: controllers roll objects out, garbage
\* collection and users remove them, users clear their fields; none of
\* them creates an object.  Each user edit of the custom resource spends
\* a disturbance.
Env ==
    /\ live' \subseteq live
    /\ terminating' = terminating \cap live'
    /\ rolledOut' \subseteq live'
    /\ \A o \in Objs : content'[o] # content[o] => content'[o] = NoContent
    /\ budget' \in {budget, budget - 1}
    /\ cr' # cr => budget' = budget - 1
    /\ UNCHANGED passVars

Next == Begin \/ Work \/ Env

\* The hosting controller keeps starting passes, and a started pass hears
\* every state and ends; how many writes it takes is not promised.
Spec == /\ Init /\ [][Next]_avars
        /\ WF_avars(Begin) /\ WF_avars(Publish)
        /\ WF_avars(Report(TRUE) \/ Report(FALSE))
=============================================================================
