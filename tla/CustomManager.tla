---------------------------- MODULE CustomManager ----------------------------
(***************************************************************************)
(* The manager of custom Modules (pkg/manager/custom.go).  It runs the     *)
(* image a Module names as a pod of the operator's namespace, the runner,  *)
(* puts a service in front of it, and has the runner install, put to       *)
(* sleep, wake and uninstall the application by HTTP calls.  Which pod and *)
(* service belong to a Module, and what the runner last returned, is       *)
(* metadata in an annotation of the Module.  Each Module has a worker of   *)
(* the module controller (ModuleController has it in detail); the workers, *)
(* the kubelet, the clock and restarts of the operator interleave.         *)
(***************************************************************************)
EXTENDS Naturals

CONSTANTS
    Modules,      \* custom Modules
    Scenarios,    \* which Modules there are and what may fail for each
    MaxSeconds,   \* how many different seconds, in the labels of the runner pods
    MaxFlips,     \* per scenario: how often a Module may be put to sleep or woken
    MaxMishaps    \* how often an API call may fail or the operator restart

\* "api": a call of the API server fails; "config": the Module does not render or
\* its workspace cannot be read; "image": the image cannot be pulled; "pod": a
\* runner ends; "slow": no endpoint is ready after 30 seconds; "runner": it answers
\* with an error; "restart": the operator restarts; "pending": a pod need not start;
\* "silent": a runner that is called need not answer.
FaultKinds == {"api", "config", "image", "pod", "slow", "runner", "restart", "pending", "silent"}

ASSUME ConstantsAssumption ==
    /\ \A f \in Scenarios : DOMAIN f \subseteq Modules /\ \A m \in DOMAIN f : f[m] \subseteq FaultKinds
    /\ MaxSeconds \in Nat \ {0} /\ MaxFlips \in [Scenarios -> Nat] /\ MaxMishaps \in Nat \ {0}

VARIABLES
    faults,       \* the scenario: per Module there is, what may fail for it
    phase,        \* per Module: status.phase, "gone" once its finalizer is dropped
    pc,           \* per Module: where its worker is
    err,          \* per Module: the operation has failed
    meta,         \* per Module: the worker's metaData
    data,         \* per Module: metaData in the annotation
    made,         \* per Module: how many runners were started for it
    pods,         \* the runner pods: label and state of each
    services,     \* the services: the label each selects
    secrets,      \* the Secrets with config.json and kubeconfig
    second,       \* time.Now().Format("20060102150405")
    held,         \* per Module: the last state its runner returned, the empty object aside
    installed,    \* per Module: its application is there
    outcome,      \* per Module: how its uninstallation ended
    flips,        \* changes of spec.hibernated so far
    mishaps       \* API errors, restarts and runners with another's label so far

worker == <<pc, err, meta>>
objects == <<pods, services, secrets, made>>
world == <<held, installed>>
clock == <<second, faults>>
vars == <<phase, worker, data, objects, clock, world, outcome, flips, mishaps>>

-----------------------------------------------------------------------------
(* Data *)

\* GenerateName: every runner, with its Secret and service, has a name of its own.
\* A Module starts a second one when its installation failed, and one more only when
\* the annotation could be written neither before nor after an operation.
MaxRunners == 2 + MaxMishaps \div 2
Names == Modules \X (1 .. MaxRunners)
None == <<"none", 0>>
Owner(name) == name[1]
Newest(m) == <<m, made[m]>>

\* CustomMetaDataKeys: the runner's names and the state it is given again.  What a runner
\* returns is its state, numbered.
NoData == [pod |-> None, label |-> 0, service |-> None, inner |-> None]

Settled == {"ready", "sleeped", "failed"}
Begun == [install |-> "installing", sleep |-> "sleeping", resume |-> "resuming",
          uninstall |-> "uninstalling"]
Endpoints == DOMAIN Begun
Transitional == {Begun[e] : e \in Endpoints}
EndpointOf(m) == CHOOSE e \in Endpoints : Begun[e] = phase[m]
Success == [install |-> "ready", sleep |-> "sleeped", resume |-> "ready",
            uninstall |-> "gone"]

Init ==
    /\ faults \in Scenarios
    /\ phase = [m \in Modules |-> ""]
    /\ pc = [m \in Modules |-> "idle"] /\ err = [m \in Modules |-> FALSE]
    /\ meta = [m \in Modules |-> NoData] /\ data = [m \in Modules |-> NoData]
    /\ made = [m \in Modules |-> 0]
    /\ pods = <<>> /\ services = <<>> /\ secrets = {}
    /\ second = 1
    /\ held = [m \in Modules |-> None] /\ installed = [m \in Modules |-> FALSE]
    /\ outcome = [m \in Modules |-> "none"]
    /\ flips = 0 /\ mishaps = 0

-----------------------------------------------------------------------------
(* Steps of a worker *)

\* A resource is created, and resources are deleted.
With(f, x, value) == [y \in DOMAIN f \cup {x} |-> IF y = x THEN value ELSE f[y]]
Without(f, S) == [x \in DOMAIN f \ S |-> f[x]]

At(m, label) == pc[m] = label
GoTo(m, label) == pc' = [pc EXCEPT ![m] = label] /\ UNCHANGED err
Fail(m, label) == pc' = [pc EXCEPT ![m] = label] /\ err' = [err EXCEPT ![m] = TRUE]

Mishap == mishaps < MaxMishaps /\ mishaps' = mishaps + 1
Clash == mishaps' = IF mishaps < MaxMishaps THEN mishaps + 1 ELSE mishaps
ApiFails(m) == "api" \in faults[m] /\ Mishap

\* NewModuleCustomManager creates what the metadata does not name.
FirstStep(d) ==
    CASE d.pod = None                        -> "secret"
      [] d.pod # None /\ d.service = None    -> "service"
      [] OTHER                               -> "ready"

\* The module controller starts an operation on a Module in the right phase.
begin(m, endpoint) ==
    /\ At(m, "idle")
    /\ \/ endpoint = "install" /\ m \in DOMAIN faults /\ phase[m] = "" /\ UNCHANGED flips
       \/ endpoint = "sleep" /\ phase[m] = "ready" /\ flips < MaxFlips[faults] /\ flips' = flips + 1
       \/ endpoint = "resume" /\ phase[m] = "sleeped" /\ flips < MaxFlips[faults] /\ flips' = flips + 1
       \/ endpoint = "uninstall" /\ phase[m] \in Settled /\ UNCHANGED flips
    /\ phase' = [phase EXCEPT ![m] = Begun[endpoint]]
    /\ meta' = [meta EXCEPT ![m] = data[m]]
    /\ \/ GoTo(m, FirstStep(data[m])) /\ UNCHANGED outcome
       \/ "config" \in faults[m] /\ Fail(m, "end") /\ UNCHANGED outcome
       \/ /\ "config" \in faults[m] /\ endpoint = "uninstall"     \* no workspace
          /\ outcome' = [outcome EXCEPT ![m] = "skipped"] /\ GoTo(m, "end")
    /\ UNCHANGED <<data, objects, clock, world, mishaps>>

\* What follows the operation.  A failed sleep or resume leaves its phase; a
\* deleted Module goes whatever happened.
end(m) ==
    /\ At(m, "end")
    /\ LET e == EndpointOf(m) IN
       /\ phase' = [phase EXCEPT ![m] = CASE ~err[m] \/ e = "uninstall" -> Success[e]
                                          [] err[m] /\ e = "install"    -> "failed"
                                          [] OTHER                      -> @]
       /\ outcome' = IF e # "uninstall" \/ outcome[m] = "skipped" THEN outcome
                     ELSE [outcome EXCEPT ![m] = IF err[m] THEN "failed" ELSE "done"]
    /\ pc' = [pc EXCEPT ![m] = "idle"] /\ err' = [err EXCEPT ![m] = FALSE]
    /\ meta' = [meta EXCEPT ![m] = NoData]
    /\ UNCHANGED <<data, objects, clock, world, flips, mishaps>>

-----------------------------------------------------------------------------
(* createRunnerPod *)

createRunnerSecret(m) ==
    /\ At(m, "secret")
    /\ \/ /\ made' = [made EXCEPT ![m] = @ + 1]
          /\ secrets' = secrets \cup {<<m, made'[m]>>} /\ GoTo(m, "pod")
       \/ "api" \in faults[m] /\ Fail(m, "end") /\ UNCHANGED <<made, secrets>>
    /\ UNCHANGED <<phase, meta, data, pods, services, clock, world, outcome, flips, mishaps>>

\* A variant that deletes the Secret as soon as the pod is created.
createPodSecretGone(m) ==
    /\ At(m, "pod")
    /\ pods' = With(pods, Newest(m), [label |-> second, state |-> "pending"])
    /\ secrets' = secrets \ {Newest(m)}
    /\ GoTo(m, "running")
    /\ UNCHANGED <<phase, meta, data, services, made, clock, world, outcome, flips, mishaps>>

\* A variant whose label is the same for all pods.
createPodOneLabel(m) ==
    /\ At(m, "pod")
    /\ pods' = With(pods, Newest(m), [label |-> 1, state |-> "pending"])
    /\ IF \E p \in DOMAIN pods : pods[p].label = second THEN Clash ELSE UNCHANGED mishaps
    /\ GoTo(m, "running")
    /\ UNCHANGED <<phase, meta, data, services, secrets, made, clock, world, outcome, flips>>

\* The pod's label is the second it is created in; another Module's runner may have
\* the same.
createPod(m) ==
    /\ At(m, "pod")
    /\ \/ /\ pods' = With(pods, Newest(m), [label |-> second, state |-> "pending"])
          /\ IF \E p \in DOMAIN pods : pods[p].label = second THEN Clash ELSE UNCHANGED mishaps
          /\ GoTo(m, "running")
       \/ "api" \in faults[m] /\ Fail(m, "unsecret") /\ UNCHANGED <<pods, mishaps>>
    /\ UNCHANGED <<phase, meta, data, services, secrets, made, clock, world, outcome, flips>>

\* waitForPodRunning has no limit for a pod that is pending.  On its errors the pod
\* is deleted; a failure of that is logged.
waitForPodRunning(m) ==
    /\ At(m, "running")
    /\ LET state == pods[Newest(m)].state IN
       \/ state = "running" /\ GoTo(m, "unsecret") /\ UNCHANGED <<pods, mishaps>>
       \/ /\ \/ state = "ended" \/ "api" \in faults[m]
             \/ state = "pending" /\ "image" \in faults[m]
          /\ Fail(m, "unsecret")
          /\ \/ pods' = Without(pods, {Newest(m)}) /\ UNCHANGED mishaps
             \/ ApiFails(m) /\ UNCHANGED pods
    /\ UNCHANGED <<phase, meta, data, services, secrets, made, clock, world, outcome, flips>>

\* The deferred deletion of the Secret, and the return of createRunnerPod.
deleteSecret(m) ==
    /\ At(m, "unsecret")
    /\ \/ secrets' = secrets \ {Newest(m)} /\ UNCHANGED mishaps
       \/ ApiFails(m) /\ UNCHANGED secrets
    /\ IF err[m]
       THEN Fail(m, "end") /\ UNCHANGED meta
       ELSE /\ meta' = [meta EXCEPT ![m].pod = Newest(m), ![m].label = pods[Newest(m)].label]
            /\ GoTo(m, "service")
    /\ UNCHANGED <<phase, data, pods, services, made, clock, world, outcome, flips>>

-----------------------------------------------------------------------------
(* createRunnerService, waitForServiceReady, and the patch newManager ends with *)

createRunnerService(m) ==
    /\ At(m, "service")
    /\ \/ /\ services' = With(services, Newest(m), meta[m].label)
          /\ meta' = [meta EXCEPT ![m].service = Newest(m)]
          /\ GoTo(m, "ready") /\ UNCHANGED mishaps
       \/ ApiFails(m) /\ Fail(m, "end") /\ UNCHANGED <<services, meta>>
    /\ UNCHANGED <<phase, data, pods, secrets, made, clock, world, outcome, flips>>

\* The running pods the Module's service leads to.
Behind(m) ==
    {p \in DOMAIN pods : /\ pods[p].state = "running" /\ meta[m].service \in DOMAIN services
                         /\ pods[p].label = services[meta[m].service]}

\* cleanupResourcesOnTimeout: what was deleted of the service and the pod.
cleanupResourcesOnTimeout(m) ==
    \/ /\ services' = Without(services, {meta[m].service})
       /\ pods' = Without(pods, {meta[m].pod}) /\ UNCHANGED mishaps
    \/ /\ ApiFails(m)
       /\ \/ services' = Without(services, {meta[m].service}) /\ UNCHANGED pods
          \/ pods' = Without(pods, {meta[m].pod}) /\ UNCHANGED services

\* A service that is not ready in 30 seconds is deleted with its pod; when its
\* endpoints cannot be listed, both stay.
waitForServiceReady(m) ==
    /\ At(m, "ready")
    /\ \/ Behind(m) # {} /\ GoTo(m, "patch") /\ UNCHANGED <<pods, services, mishaps>>
       \/ /\ Behind(m) = {} \/ "slow" \in faults[m]
          /\ cleanupResourcesOnTimeout(m) /\ Fail(m, "end")
       \/ ApiFails(m) /\ Fail(m, "end") /\ UNCHANGED <<pods, services>>
    /\ UNCHANGED <<phase, meta, data, secrets, made, clock, world, outcome, flips>>

\* A variant that writes the annotation only once the operation has succeeded.
patchIfDone(m, label, next) ==
    /\ At(m, label)
    /\ data' = IF label = "save" /\ ~err[m] THEN [data EXCEPT ![m] = meta[m]] ELSE data
    /\ pc' = [pc EXCEPT ![m] = next]
    /\ UNCHANGED <<phase, err, meta, objects, clock, world, outcome, flips, mishaps>>

\* The annotation is patched before the operation and after it, failed or not; a
\* failure of the patch is logged.
patch(m, label, next) ==
    /\ At(m, label)
    /\ \/ data' = [data EXCEPT ![m] = meta[m]] /\ UNCHANGED mishaps
       \/ ApiFails(m) /\ UNCHANGED data
    /\ pc' = [pc EXCEPT ![m] = next]
    /\ UNCHANGED <<phase, err, meta, objects, clock, world, outcome, flips>>

-----------------------------------------------------------------------------
(* callRunnerEndpoint, and Install, Sleep, Resume and Uninstall around it *)

\* What the runner of Module o does to the application of o.
Effect(o, e) ==
    IF e \in {"sleep", "resume"} THEN installed
    ELSE [installed EXCEPT ![o] = (e = "install")]

NextState(o) == <<o, IF held[o] = None THEN 1 ELSE held[o][2] + 1>>

\* A variant that drops the body of every response.
answersBodyless(m, p) ==
    /\ installed' = Effect(Owner(p), EndpointOf(m))
    /\ held' = [held EXCEPT ![Owner(p)] = NextState(Owner(p))] /\ UNCHANGED meta

\* The runner answers with the status expected and, unless the application is gone, with
\* a state, or with no body or the empty object, which leave the state that is stored.
answers(m, p) ==
    /\ installed' = Effect(Owner(p), EndpointOf(m))
    /\ \/ /\ EndpointOf(m) # "uninstall"
          /\ held' = [held EXCEPT ![Owner(p)] = NextState(Owner(p))]
          /\ meta' = [meta EXCEPT ![m].inner = NextState(Owner(p))]
       \/ UNCHANGED <<held, meta>>

\* Any other status, a broken connection, or a body that is not JSON.
refuses(m, p) ==
    /\ "runner" \in faults[m]
    /\ installed' \in {installed, Effect(Owner(p), EndpointOf(m))}
    /\ UNCHANGED <<held, meta>>

\* The call has no time limit: it ends with the answer or the pod (Fairness has no more).
callRunnerEndpoint(m) ==
    /\ At(m, "call")
    /\ LET last == EndpointOf(m) = "uninstall" IN
       \/ \E p \in Behind(m) : answers(m, p) /\ GoTo(m, IF last THEN "dropService" ELSE "save")
       \/ \E p \in Behind(m) : refuses(m, p) /\ Fail(m, IF last THEN "end" ELSE "save")
       \/ /\ Behind(m) = {}
          /\ Fail(m, IF last THEN "end" ELSE "save") /\ UNCHANGED <<world, meta>>
    /\ UNCHANGED <<phase, data, objects, clock, outcome, flips, mishaps>>

\* Uninstall, after the call: first the service; without it the pod is not reached.
dropService(m) ==
    /\ At(m, "dropService")
    /\ LET s == meta[m].service IN
       \/ /\ s \in DOMAIN services /\ services' = Without(services, {s})
          /\ GoTo(m, "dropPod") /\ UNCHANGED mishaps
       \/ /\ (s \notin DOMAIN services /\ UNCHANGED mishaps) \/ ApiFails(m)
          /\ Fail(m, "end") /\ UNCHANGED services
    /\ UNCHANGED <<phase, meta, data, pods, secrets, made, clock, world, outcome, flips>>

dropPod(m) ==
    /\ At(m, "dropPod")
    /\ LET p == meta[m].pod IN
       \/ /\ p \in DOMAIN pods /\ pods' = Without(pods, {p})
          /\ GoTo(m, "end") /\ UNCHANGED mishaps
       \/ /\ (p \notin DOMAIN pods /\ UNCHANGED mishaps) \/ ApiFails(m)
          /\ Fail(m, "end") /\ UNCHANGED pods
    /\ UNCHANGED <<phase, meta, data, services, secrets, made, clock, world, outcome, flips>>

Worker(m) ==
    \/ end(m) \/ createRunnerSecret(m) \/ createPod(m) \/ waitForPodRunning(m)
    \/ deleteSecret(m) \/ createRunnerService(m) \/ waitForServiceReady(m)
    \/ patch(m, "patch", "call") \/ callRunnerEndpoint(m) \/ patch(m, "save", "end")
    \/ dropService(m) \/ dropPod(m)

-----------------------------------------------------------------------------
(* The environment *)

\* The kubelet starts a pod whose Secret it can mount.
podStarts(p) ==
    /\ p \in DOMAIN pods /\ pods[p].state = "pending" /\ p \in secrets
    /\ pods' = [pods EXCEPT ![p].state = "running"]
    /\ UNCHANGED <<phase, worker, data, services, secrets, made, clock, world, outcome,
                   flips, mishaps>>

\* restartPolicy: Never.
podEnds(p) ==
    /\ p \in DOMAIN pods /\ pods[p].state # "ended" /\ "pod" \in faults[Owner(p)]
    /\ pods' = [pods EXCEPT ![p].state = "ended"]
    /\ UNCHANGED <<phase, worker, data, services, secrets, made, clock, world, outcome,
                   flips, mishaps>>

tick ==
    /\ second < MaxSeconds /\ second' = second + 1
    /\ UNCHANGED <<faults, phase, worker, data, objects, world, outcome, flips, mishaps>>

\* A transitional phase without a worker is marked failed after five minutes; the
\* deletion of a Module is not limited.
expire(m) ==
    /\ At(m, "idle") /\ phase[m] \in Transitional \ {"uninstalling"}
    /\ phase' = [phase EXCEPT ![m] = "failed"]
    /\ UNCHANGED <<worker, data, objects, clock, world, outcome, flips, mishaps>>

restart ==
    /\ \E m \in DOMAIN faults : "restart" \in faults[m]
    /\ Mishap
    /\ pc' = [m \in Modules |-> "idle"] /\ err' = [m \in Modules |-> FALSE]
    /\ meta' = [m \in Modules |-> NoData]
    /\ UNCHANGED <<phase, data, objects, clock, world, outcome, flips>>

Next ==
    \/ \E m \in Modules : Worker(m) \/ expire(m) \/ \E e \in Endpoints : begin(m, e)
    \/ \E p \in Names : podStarts(p) \/ podEnds(p)
    \/ tick \/ restart

Spec == Init /\ [][Next]_vars

\* Where a worker may wait for ever: for a pod that is not started, and for the answer
\* of a runner that is running.
Unanswered(m) ==
    \/ pc[m] = "running" /\ pods[Newest(m)].state = "pending" /\ "pending" \in faults[m]
    \/ pc[m] = "call" /\ Behind(m) # {} /\ "silent" \in faults[m]

\* Workers that need not wait go on, and a pod that can start does, unless "pending"
\* says otherwise.
Fairness ==
    /\ \A m \in Modules : WF_vars(Worker(m) /\ ~Unanswered(m)) /\ WF_vars(expire(m))
    /\ \A p \in Names : WF_vars(podStarts(p) /\ "pending" \notin faults[Owner(p)])

FairSpec == Spec /\ Fairness

-----------------------------------------------------------------------------
(* Properties *)

\* What a worker of m, or the annotation it leaves, knows of; the annotation goes with
\* the Module.
Known(m) ==
    (IF phase[m] = "gone" THEN {} ELSE {data[m].pod, data[m].service})
    \cup {meta[m].pod, meta[m].service}
    \cup (IF pc[m] \in {"running", "unsecret"} THEN {Newest(m)} ELSE {})

\* No runner is lost: on every path, the pods that never run and the services that
\* are never ready included, a pod or service that exists is named by its Module's
\* annotation or by the worker at it, unless the uninstallation reported a failure
\* or had no workspace, an API call failed or the operator restarted.  The Secret with
\* the kubeconfig of the workspace is there only while its runner starts.
RunnerAccountedFor ==
    mishaps = 0 =>
        /\ \A x \in DOMAIN pods \cup DOMAIN services :
             x \in Known(Owner(x)) \/ outcome[Owner(x)] \in {"failed", "skipped"}
        /\ \A s \in secrets : pc[Owner(s)] \in {"pod", "running", "unsecret"}

\* A Module shown as ready or sleeped had its own application installed, and one
\* uninstalled without an error has it no longer, though the runners are reached
\* by label: as long as no two of them are started in the same second.
CalledTheOwnRunner ==
    mishaps = 0 => \A m \in Modules :
        /\ phase[m] \in {"ready", "sleeped"} => installed[m]
        /\ outcome[m] = "done" => ~installed[m]

\* A runner is given the state it returned last, by whichever operation, though each
\* operation starts from the annotation.
StateCarried ==
    mishaps = 0 => \A m \in Modules : pc[m] = "call" => meta[m].inner = held[m]

-----------------------------------------------------------------------------
(* The inductive invariant behind the theorems about runners *)

\* What GenerateName can return, for a Module that starts any number of runners; the
\* states the runners return are numbered the same way.
Runners == Modules \X (Nat \ {0})

MetaData ==
    [pod : Runners \cup {None}, label : Nat, service : Runners \cup {None},
     inner : Runners \cup {None}]

\* Where a worker is that has no runner to name yet, and where it has one with a service.
Starting == {"secret", "pod", "running", "unsecret"}
Serving == {"ready", "patch", "call", "save", "dropService", "dropPod"}

\* The type invariant.
TypeOK ==
    /\ phase \in [Modules -> {"", "gone"} \cup Settled \cup Transitional]
    /\ pc \in [Modules -> {"idle", "service", "end"} \cup Starting \cup Serving]
    /\ err \in [Modules -> BOOLEAN]
    /\ meta \in [Modules -> MetaData] /\ data \in [Modules -> MetaData]
    /\ made \in [Modules -> Nat]
    /\ DOMAIN pods \subseteq Runners
    /\ pods \in [DOMAIN pods -> [label : Nat, state : {"pending", "running", "ended"}]]
    /\ DOMAIN services \subseteq Runners /\ services \in [DOMAIN services -> Nat]
    /\ secrets \subseteq Runners
    /\ second \in Nat /\ mishaps \in Nat
    /\ held \in [Modules -> Runners \cup {None}]
    /\ installed \in [Modules -> BOOLEAN]
    /\ outcome \in [Modules -> {"none", "skipped", "failed", "done"}]

\* A worker is at the operation its Module's phase says, names runners of its own
\* Module only, and waits for one it created.
NamesOwned(m) ==
    /\ pc[m] # "idle" => phase[m] \in Transitional
    /\ data[m].pod # None => Owner(data[m].pod) = m
    /\ meta[m].pod # None => Owner(meta[m].pod) = m
    /\ data[m].service # None => Owner(data[m].service) = m
    /\ meta[m].service # None => Owner(meta[m].service) = m
    /\ made[m] = 0 =>
         /\ data[m].pod = None /\ meta[m].pod = None
         /\ pc[m] \notin {"pod", "running", "unsecret", "service"}
    /\ pc[m] = "running" \/ (pc[m] = "unsecret" /\ ~err[m]) => Newest(m) \in DOMAIN pods

\* The runners of m there are, pods or services.
Present(m) == {x \in DOMAIN pods \cup DOMAIN services : Owner(x) = m}

\* The metadata follows the worker: a service has the name of its pod, and once
\* patch has written the annotation it names the runner that is called.
Tracked(m) ==
    /\ data[m].service = data[m].pod
    /\ pc[m] \in Starting => data[m].pod = None /\ meta[m].pod = None /\ meta[m].service = None
    /\ pc[m] = "service" =>
         /\ data[m].pod = None /\ meta[m].service = None /\ meta[m].pod = Newest(m)
         /\ Newest(m) \in DOMAIN pods \ DOMAIN services
         /\ meta[m].label = pods[Newest(m)].label
    /\ pc[m] \in Serving =>
         /\ meta[m].pod # None /\ meta[m].service = meta[m].pod
         /\ data[m].pod \in IF pc[m] \in {"ready", "patch"} THEN {None, meta[m].pod} ELSE {meta[m].pod}
    /\ pc[m] = "dropPod" => meta[m].pod \notin DOMAIN services

\* The one runner there may be of m.
Recorded(m) ==
    CASE pc[m] \in {"secret", "pod"} -> {}
      [] pc[m] \in {"running", "unsecret"} -> IF err[m] THEN {} ELSE {Newest(m)}
      [] pc[m] \in {"service", "ready", "patch"} -> {meta[m].pod}
      [] OTHER -> {data[m].pod}

RunnerRecorded(m) ==
    /\ Present(m) \subseteq Recorded(m)
    /\ pc[m] \in {"running", "unsecret"} => Newest(m) \notin DOMAIN services

\* How far the uninstallation came without an error, and what it leaves.
Uninstalled(m) ==
    \/ pc[m] = "end" /\ phase[m] = "uninstalling" /\ ~err[m] /\ outcome[m] # "skipped"
    \/ outcome[m] = "done"

\* What the phase, the worker and the outcome tell of the application.
PhaseTold(m) ==
    /\ err[m] => pc[m] \in {"unsecret", "save", "end"}
    /\ phase[m] \in {"ready", "sleeped", "sleeping", "resuming"} => installed[m]
    /\ phase[m] = "installing" /\ pc[m] \in {"save", "end"} /\ ~err[m] => installed[m]
    /\ pc[m] = "save" => phase[m] # "uninstalling"
    /\ pc[m] \in {"dropService", "dropPod"} => phase[m] = "uninstalling" /\ ~installed[m]
    /\ Uninstalled(m) => ~installed[m] /\ Present(m) = {}
    /\ outcome[m] = "skipped" => phase[m] = "gone" \/ (phase[m] = "uninstalling" /\ pc[m] = "end")
    /\ outcome[m] \in {"failed", "done"} => phase[m] = "gone"
    /\ phase[m] = "gone" => outcome[m] # "none"

\* The state last returned is in the annotation, or about to be patched into it.
StateKept(m) ==
    /\ pc[m] # "save" => data[m].inner = held[m]
    /\ pc[m] \notin {"idle", "end"} => meta[m].inner = held[m]

\* A service leads to the pod it was made for and to no other.
LabelsApart ==
    /\ \A p, q \in DOMAIN pods : pods[p].label = pods[q].label => p = q
    /\ \A s \in DOMAIN services : s \in DOMAIN pods /\ services[s] = pods[s].label

SecretsShort ==
    \A s \in secrets : pc[Owner(s)] \in {"pod", "running", "unsecret"} /\ s = Newest(Owner(s))

Own(m) == Tracked(m) /\ RunnerRecorded(m) /\ PhaseTold(m) /\ StateKept(m)

\* As long as no call of the API server failed, the operator did not restart and no two
\* runners got the same label.
RunnerInvariant ==
    /\ TypeOK /\ \A m \in Modules : NamesOwned(m)
    /\ mishaps = 0 =>
         /\ \A m \in Modules : Own(m)
         /\ LabelsApart /\ SecretsShort

-----------------------------------------------------------------------------
(* Liveness *)

\* Every operation ends, whatever fails in it, or it waits for ever for its runner to start or
\* to answer: waitForPodRunning has no limit for a pod that is pending, nor has the http.Post
\* of callRunnerEndpoint, and nothing else keeps a worker, not even a runner that ends
\* while it is waited for.
OperationsEnd ==
    \A m \in Modules : (pc[m] # "idle" ~> pc[m] = "idle") \/ <>[]Unanswered(m)
=============================================================================
