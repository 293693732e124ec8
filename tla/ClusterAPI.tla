----------------------------- MODULE ClusterAPI -----------------------------
(***************************************************************************)
(* The live cluster the reconciliation engine converges: the objects the   *)
(* states' templates can render, whether each exists, whether a delete is *)
(* pending on it (a finalizer or propagation delay keeps it alive), which  *)
(* rendering of the custom resource its fields were last written from, and *)
(* whether its rollout (a DaemonSet's counters) has caught up.             *)
(*                                                                         *)
(* Every object carries the Tracked-Object Record of the state whose       *)
(* manifest directory renders it, so the objects a state tracks are the    *)
(* live objects it owns.  The custom resource itself lives here too: the   *)
(* user edits it at any time, independently of the operator.               *)
(*                                                                         *)
(* The other actors of the cluster are the platform's own controllers      *)
(* (rollout, garbage collection after a finalizer) and out-of-band edits  *)
(* and deletions by users ("drift").  Drift, user edits and failed API     *)
(* calls are bounded by MaxDisturbances so that liveness can be stated.    *)
(***************************************************************************)
EXTENDS Naturals, Sequences, FiniteSets, SequencesExt

CONSTANTS
    States,           \* the managed sub-systems (model values)
    Objs,             \* kind/namespace/name identities of renderable objects
    Owner,            \* Owner[o]: the state whose templates render o
    Configs,          \* the custom-resource specs the user may write
    NoContent,        \* fields not written by the operator (model value)
    MaxDisturbances   \* bound on drift, CR edits and failed API calls

ASSUME Owner \in [Objs -> States]
ASSUME NoContent \notin Configs
ASSUME MaxDisturbances \in Nat

VARIABLES
    live,         \* objects that exist in the cluster
    terminating,  \* live objects whose deletion is pending
    content,      \* content[o]: the CR spec o's fields were rendered from
    rolledOut,    \* live objects whose rollout has converged
    cr,           \* the custom resource as the user last wrote it
    budget        \* disturbances left

clusterVars == <<live, terminating, content, rolledOut, cr, budget>>

ClusterTypeOK ==
    /\ live \subseteq Objs
    /\ terminating \subseteq live
    /\ content \in [Objs -> Configs \cup {NoContent}]
    /\ rolledOut \subseteq live
    /\ cr \in Configs
    /\ budget \in 0..MaxDisturbances

\* The live objects labelled as created by state s.
Tracked(s) == {o \in live : Owner[o] = s}

ClusterInit ==
    /\ live = {}
    /\ terminating = {}
    /\ content = [o \in Objs |-> NoContent]
    /\ rolledOut = {}
    /\ cr \in Configs
    /\ budget = MaxDisturbances

---------------------------------------------------------------------------
(* Cluster API operations, used as parts of the operator's steps.          *)

\* Create o with the owner back-reference, or merge the rendered fields
\* onto the live o.  A merge that changes nothing is a no-op; one that does
\* change the object restarts its rollout.
CreateOrUpdate(o, c) ==
    IF o \in live /\ content[o] = c
    THEN UNCHANGED <<live, terminating, content, rolledOut>>
    ELSE /\ live' = live \cup {o}
         /\ content' = [content EXCEPT ![o] = c]
         /\ rolledOut' = rolledOut \ {o}
         /\ UNCHANGED terminating

\* Delete o.  An object without a finalizer disappears at once; one with a
\* finalizer stays, marked as terminating.  Deleting an absent object is a
\* NotFound that the caller ignores.
Delete(o) ==
    \/ /\ o \notin live
       /\ UNCHANGED <<live, terminating, content, rolledOut>>
    \/ /\ o \in live
       /\ live' = live \ {o}
       /\ terminating' = terminating \ {o}
       /\ content' = [content EXCEPT ![o] = NoContent]
       /\ rolledOut' = rolledOut \ {o}
    \/ /\ o \in live
       /\ terminating' = terminating \cup {o}
       /\ UNCHANGED <<live, content, rolledOut>>

\* One disturbance is spent (a failed call, a drift, a CR edit).
Disturb == /\ budget > 0
           /\ budget' = budget - 1

---------------------------------------------------------------------------
(* The other actors of the cluster.                                        *)

\* The platform's workload controller brings o's rollout counters level.
Rollout(o) ==
    /\ o \in live \ rolledOut
    /\ rolledOut' = rolledOut \cup {o}
    /\ UNCHANGED <<live, terminating, content, cr, budget>>

\* Garbage collection completes the pending deletion of o.
Finalize(o) ==
    /\ o \in terminating
    /\ live' = live \ {o}
    /\ terminating' = terminating \ {o}
    /\ content' = [content EXCEPT ![o] = NoContent]
    /\ rolledOut' = rolledOut \ {o}
    /\ UNCHANGED <<cr, budget>>

\* A user deletes a managed object out of band.
ExternalDelete(o) ==
    /\ o \in live \ terminating
    /\ Disturb
    /\ live' = live \ {o}
    /\ content' = [content EXCEPT ![o] = NoContent]
    /\ rolledOut' = rolledOut \ {o}
    /\ UNCHANGED <<terminating, cr>>

\* A user edits a managed object's fields out of band.
ExternalEdit(o) ==
    /\ o \in live \ terminating
    /\ Disturb
    /\ content' = [content EXCEPT ![o] = NoContent]
    /\ rolledOut' = rolledOut \ {o}
    /\ UNCHANGED <<live, terminating, cr>>

\* The user writes a new spec into the custom resource.
EditCR ==
    /\ Disturb
    /\ \E c \in Configs \ {cr} : cr' = c
    /\ UNCHANGED <<live, terminating, content, rolledOut>>

ClusterEnv ==
    \/ \E o \in Objs : Rollout(o) \/ Finalize(o)
                       \/ ExternalDelete(o) \/ ExternalEdit(o)
    \/ EditCR
=============================================================================
