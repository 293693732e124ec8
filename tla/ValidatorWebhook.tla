--------------------------- MODULE ValidatorWebhook ---------------------------
(***************************************************************************)
(* The NicClusterPolicy admission webhook serving requests.               *)
(* SetupNicClusterPolicyWebhookWithManager registers one validator,       *)
(* &nicClusterPolicyValidator{}, and the webhook server calls it from a   *)
(* goroutine per request.  ValidateCreate and ValidateUpdate copy the     *)
(* object under review into the validator's embedded NicClusterPolicy     *)
(* (w.NicClusterPolicy = *obj) and validateNicClusterPolicy then reads    *)
(* w.Spec check by check.  Each request is a process: the copy is one     *)
(* step, each check of validateNicClusterPolicy one step, the verdict one *)
(* step.  Two requests in flight race on w (a Go data race); the model    *)
(* lets each read see whichever copy was written last.                    *)
(***************************************************************************)
EXTENDS NicClusterPolicyValidation

CONSTANTS
    Requests,    \* admission requests in flight (model values)
    Policies     \* the NicClusterPolicy objects a request may carry

Kinds == {"create", "update", "delete"}
Done == Len(Checks) + 2

VARIABLES
    w,         \* the validator's embedded NicClusterPolicy
    reqKind,   \* reqKind[r]: the operation under review
    reqObj,    \* reqObj[r]: the object (for update: the new object)
    pc,        \* 0: not started; i in 1..Len(Checks): next check;
               \* Len(Checks)+1: verdict; Done: answered
    errs,      \* errs[r]: allErrs of r's validateNicClusterPolicy
    allowed    \* allowed[r]: the answer returned to the API server

vars == <<w, reqKind, reqObj, pc, errs, allowed>>

EmptyPolicy == [c \in {} |-> 0]

TypeOK ==
    /\ w \in Policies \cup {EmptyPolicy}
    /\ reqKind \in [Requests -> Kinds]
    /\ reqObj \in [Requests -> Policies]
    /\ pc \in [Requests -> 0..Done]
    /\ allowed \in [Requests -> BOOLEAN]

Init ==
    /\ w = EmptyPolicy
    /\ reqKind \in [Requests -> Kinds]
    /\ reqObj \in [Requests -> Policies]
    /\ pc = [r \in Requests |-> 0]
    /\ errs = [r \in Requests |-> {}]
    /\ allowed = [r \in Requests |-> FALSE]

\* ValidateCreate / ValidateUpdate up to validateNicClusterPolicy: the
\* object is copied into the shared validator.
ValidateCreateOrUpdate(r) ==
    /\ pc[r] = 0
    /\ reqKind[r] \in {"create", "update"}
    /\ w' = reqObj[r]
    /\ pc' = [pc EXCEPT ![r] = 1]
    /\ UNCHANGED <<reqKind, reqObj, errs, allowed>>

\* ValidateDelete: nothing to validate.
ValidateDelete(r) ==
    /\ pc[r] = 0
    /\ reqKind[r] = "delete"
    /\ pc' = [pc EXCEPT ![r] = Done]
    /\ allowed' = [allowed EXCEPT ![r] = TRUE]
    /\ UNCHANGED <<w, reqKind, reqObj, errs>>

\* One check of validateNicClusterPolicy, reading w.Spec as it is now.
RunCheck(r) ==
    /\ pc[r] \in 1..Len(Checks)
    /\ errs' = [errs EXCEPT ![r] = @ \cup CheckErrors(Checks[pc[r]], w)]
    /\ pc' = [pc EXCEPT ![r] = @ + 1]
    /\ UNCHANGED <<w, reqKind, reqObj, allowed>>

\* len(allErrs) == 0 admits; otherwise apierrors.NewInvalid denies.
Respond(r) ==
    /\ pc[r] = Len(Checks) + 1
    /\ allowed' = [allowed EXCEPT ![r] = (errs[r] = {})]
    /\ pc' = [pc EXCEPT ![r] = Done]
    /\ UNCHANGED <<w, reqKind, reqObj, errs>>

Serve(r) ==
    ValidateCreateOrUpdate(r) \/ ValidateDelete(r) \/ RunCheck(r) \/ Respond(r)

Answered == \A r \in Requests : pc[r] = Done

Next ==
    \/ \E r \in Requests : Serve(r)
    \/ Answered /\ UNCHANGED vars

\* Every request handler runs to completion once started: no step blocks.
Spec == Init /\ [][Next]_vars /\ \A r \in Requests : WF_vars(Serve(r))

---------------------------------------------------------------------------
(* Properties.                                                             *)

\* A create or update is admitted exactly when the object under review
\* satisfies every rule the comment on validateNicClusterPolicy lists,
\* together with the repository and container-resource checks: the
\* early returns and the order of the checks lose no rejection, and the
\* verdict is about the request's own object, not the validator's copy.
AdmissionJudgesOwnObject ==
    \A r \in Requests :
        pc[r] = Done /\ reqKind[r] # "delete"
            => (allowed[r] <=> DocumentedValid(reqObj[r]))

\* Each repository error a request gets points at a declared component
\* whose repository does not parse, and each such component gets one.
RepositoryErrorsNameTheirComponent ==
    \A r \in Requests :
        pc[r] = Done /\ reqKind[r] # "delete" =>
            {e.path : e \in {e \in errs[r] : e.why = "repository"}}
              = {ParentPath(c) \o <<c, "repository">> :
                    c \in {c \in DOMAIN reqObj[r] :
                               reqObj[r][c].repo \notin ParsableRepos}}
=============================================================================
