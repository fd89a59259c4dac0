------------------------ MODULE CustomManager_proofs ------------------------
(***************************************************************************)
(* Proofs about the runners of custom Modules, for any number of Modules,  *)
(* whatever may fail for each, and any number of runners, seconds and      *)
(* operations.  RunnerInvariant is inductive; the three invariants of      *)
(* CustomManager follow from it.                                           *)
(***************************************************************************)
EXTENDS CustomManager, Sequences, TLAPS

-----------------------------------------------------------------------------
(* The operators *)

\* A set of resources keeps its type.
LEMMA WithType ==
    ASSUME NEW T, NEW f, f \in [DOMAIN f -> T], NEW x, NEW v \in T
    PROVE  With(f, x, v) \in [DOMAIN With(f, x, v) -> T]
BY DEF With

LEMMA WithoutType ==
    ASSUME NEW T, NEW f, f \in [DOMAIN f -> T], NEW S
    PROVE  Without(f, S) \in [DOMAIN Without(f, S) -> T]
BY DEF Without

\* No runner is named None.
LEMMA NoneIsNoRunner == None \notin Runners
BY DEF None, Runners

\* The operation a worker is at is the one its phase says.
LEMMA BegunFacts ==
    /\ Begun["install"] = "installing" /\ Begun["sleep"] = "sleeping"
    /\ Begun["resume"] = "resuming" /\ Begun["uninstall"] = "uninstalling"
BY DEF Begun

LEMMA EndpointFacts ==
    ASSUME NEW m
    PROVE  /\ Endpoints = {"install", "sleep", "resume", "uninstall"}
           /\ Transitional = {"installing", "sleeping", "resuming", "uninstalling"}
           /\ phase[m] = "installing" => EndpointOf(m) = "install"
           /\ phase[m] = "sleeping" => EndpointOf(m) = "sleep"
           /\ phase[m] = "resuming" => EndpointOf(m) = "resume"
           /\ phase[m] = "uninstalling" => EndpointOf(m) = "uninstall"
<1>1. Endpoints = {"install", "sleep", "resume", "uninstall"}
  BY DEF Endpoints, Begun
<1>2. Transitional = {"installing", "sleeping", "resuming", "uninstalling"}
  BY <1>1 DEF Transitional, Begun
<1>3. \A e, f \in Endpoints : Begun[e] = Begun[f] => e = f
  BY <1>1 DEF Begun
<1>4. \A e \in Endpoints : phase[m] = Begun[e] => EndpointOf(m) = e
  BY <1>3 DEF EndpointOf
<1>5. QED BY <1>1, <1>2, <1>4 DEF Begun

-----------------------------------------------------------------------------
(* What a worker leaves alone *)

\* Nothing that concerns Module n changes, its pods up to their state.
Untouched(n) ==
    /\ phase'[n] = phase[n] /\ pc'[n] = pc[n] /\ err'[n] = err[n]
    /\ meta'[n] = meta[n] /\ data'[n] = data[n] /\ made'[n] = made[n]
    /\ held'[n] = held[n] /\ installed'[n] = installed[n] /\ outcome'[n] = outcome[n]
    /\ \A x : Owner(x) = n =>
         /\ x \in DOMAIN pods' <=> x \in DOMAIN pods
         /\ x \in DOMAIN services' <=> x \in DOMAIN services
         /\ x \in DOMAIN pods => pods'[x].label = pods[x].label

LEMMA NewestOwned == ASSUME NEW n PROVE Owner(Newest(n)) = n
BY DEF Owner, Newest

\* A Module that a step does not concern keeps its part of the invariant.
LEMMA UntouchedOwned ==
    ASSUME NEW n \in Modules, Untouched(n), NamesOwned(n)
    PROVE  NamesOwned(n)'
BY NewestOwned DEF Untouched, NamesOwned, Newest, Owner

LEMMA UntouchedOwn ==
    ASSUME NEW n \in Modules, Untouched(n), NamesOwned(n), Own(n)
    PROVE  Own(n)'
<1>. USE DEF Untouched
<1>1. Newest(n)' = Newest(n) /\ Owner(Newest(n)) = n
  BY NewestOwned DEF Newest
<1>2. Present(n)' = Present(n)
  BY DEF Present, Owner
<1>3. Tracked(n)'
  <2>1. Tracked(n) BY DEF Own
  <2>2. meta[n].pod # None => Owner(meta[n].pod) = n BY DEF NamesOwned
  <2>3. QED BY <1>1, <2>1, <2>2 DEF Tracked, Serving
<1>4. RunnerRecorded(n)'
  BY <1>1, <1>2 DEF Own, RunnerRecorded, Recorded
<1>5. PhaseTold(n)'
  BY <1>2 DEF Own, PhaseTold, Uninstalled
<1>6. StateKept(n)'
  BY DEF Own, StateKept
<1>7. QED BY <1>3, <1>4, <1>5, <1>6 DEF Own

-----------------------------------------------------------------------------
(* Types *)

LEMMA TypeInit == Init => TypeOK /\ \A m \in Modules : NamesOwned(m)
<1>. SUFFICES ASSUME Init PROVE TypeOK /\ \A m \in Modules : NamesOwned(m)
  OBVIOUS
<1>1. NoData \in MetaData BY DEF NoData, MetaData
<1>2. DOMAIN pods = {} /\ DOMAIN services = {}
  <2>1. DOMAIN <<>> = 1 .. 0 OBVIOUS
  <2>2. 1 .. 0 = {} OBVIOUS
  <2>3. QED BY <2>1, <2>2 DEF Init
<1>3. /\ pods \in [DOMAIN pods -> [label : Nat, state : {"pending", "running", "ended"}]]
      /\ services \in [DOMAIN services -> Nat]
  <2>1. ASSUME NEW T PROVE <<>> \in [DOMAIN <<>> -> T]
    <3>1. <<>> \in Seq(T) /\ Len(<<>>) = 0 /\ DOMAIN <<>> = 1 .. 0 OBVIOUS
    <3>2. \A s \in Seq(T) : s \in [1 .. Len(s) -> T] OBVIOUS
    <3>3. QED BY <3>1, <3>2
  <2>2. QED BY <2>1 DEF Init
<1>4. TypeOK BY <1>1, <1>2, <1>3 DEF Init, TypeOK
<1>5. \A m \in Modules : NamesOwned(m)
  BY DEF Init, NamesOwned, NoData
<1>6. QED BY <1>4, <1>5

\* A step that fails to call the API server, and a label that is taken, are counted.
LEMMA MishapsCounted ==
    ASSUME TypeOK, NEW m
    PROVE  /\ ApiFails(m) => mishaps' \in Nat /\ mishaps' # 0
           /\ Clash => mishaps' \in Nat /\ mishaps' # 0
           /\ Mishap => mishaps' \in Nat /\ mishaps' # 0
<1>1. mishaps \in Nat /\ MaxMishaps \in Nat \ {0}
  BY ConstantsAssumption DEF TypeOK
<1>2. Mishap => mishaps' \in Nat /\ mishaps' # 0
  BY <1>1 DEF Mishap
<1>3. Clash => mishaps' \in Nat /\ mishaps' # 0
  BY <1>1 DEF Clash
<1>4. QED BY <1>2, <1>3 DEF ApiFails


-----------------------------------------------------------------------------
(* A step of one worker *)

\* It is enough to look at the Module whose worker takes the step.
LEMMA OneWorker ==
    ASSUME RunnerInvariant, NEW m \in Modules, TypeOK', NamesOwned(m)',
           \A n \in Modules \ {m} : Untouched(n),
           mishaps' = 0 => mishaps = 0 /\ Own(m)' /\ LabelsApart' /\ SecretsShort'
    PROVE  RunnerInvariant'
<1>1. \A n \in Modules : NamesOwned(n)'
  BY UntouchedOwned DEF RunnerInvariant
<1>2. ASSUME mishaps' = 0 PROVE \A n \in Modules : Own(n)'
  BY <1>2, UntouchedOwn DEF RunnerInvariant
<1>3. QED BY <1>1, <1>2 DEF RunnerInvariant

-----------------------------------------------------------------------------
(* begin and end *)

LEMMA BeginStep ==
    ASSUME RunnerInvariant, NEW m \in Modules, NEW e \in Endpoints, begin(m, e)
    PROVE  RunnerInvariant'
<1>. USE DEF begin, objects, clock, world, GoTo, Fail
<1>t. TypeOK /\ NamesOwned(m)
  BY DEF RunnerInvariant
<1>1. TypeOK'
  <2>1. FirstStep(data[m]) \in {"secret", "service", "ready"}
    BY DEF FirstStep
  <2>2. Begun[e] \in Transitional
    BY DEF Transitional
  <2>3. QED BY <1>t, <2>1, <2>2 DEF TypeOK, Starting, Serving
<1>2. \A n \in Modules \ {m} : Untouched(n)
  BY <1>t DEF TypeOK, Untouched
<1>3. NamesOwned(m)'
  <2>1. pc'[m] \in {FirstStep(data[m]), "end"} /\ meta'[m] = data[m]
    BY <1>t DEF TypeOK
  <2>2. FirstStep(data[m]) \in {"secret", "service", "ready"}
    BY DEF FirstStep
  <2>3. data[m].pod = None => FirstStep(data[m]) = "secret"
    BY DEF FirstStep
  <2>4. phase'[m] \in Transitional
    BY <1>t DEF TypeOK, Transitional
  <2>5. QED BY <1>t, <2>1, <2>2, <2>3, <2>4 DEF NamesOwned, Newest
<1>4. ASSUME mishaps' = 0
      PROVE  mishaps = 0 /\ Own(m)' /\ LabelsApart' /\ SecretsShort'
  <2>1. mishaps = 0 /\ Own(m) /\ LabelsApart /\ SecretsShort
    BY <1>4 DEF RunnerInvariant
  <2>3. LabelsApart'
    BY <2>1 DEF LabelsApart
  <2>4. SecretsShort'
    <3>1. pc[m] = "idle" BY DEF At
    <3>2. QED BY <1>t, <2>1, <3>1 DEF SecretsShort, Newest, TypeOK, Runners, Owner
  <2>5. Own(m)'
    <3>1. Own(m) /\ pc[m] = "idle" BY <2>1 DEF At
    <3>2. /\ meta'[m] = data[m] /\ data'[m] = data[m] /\ held'[m] = held[m]
          /\ installed'[m] = installed[m] /\ Present(m)' = Present(m)
          /\ data[m].service = data[m].pod /\ Present(m) \subseteq {data[m].pod}
          /\ data[m].inner = held[m] /\ ~err[m]
      BY <1>t, <3>1 DEF TypeOK, Own, Tracked, RunnerRecorded, Recorded, PhaseTold, StateKept, Present
    <3>3. \/ data[m].pod = None /\ pc'[m] = "secret" /\ ~err'[m]
          \/ data[m].pod # None /\ pc'[m] = "ready" /\ ~err'[m]
          \/ pc'[m] = "end" /\ (err'[m] \/ (phase'[m] = "uninstalling" /\ outcome'[m] = "skipped"))
      <4>1. /\ data[m].pod = None => FirstStep(data[m]) = "secret"
            /\ data[m].pod # None => FirstStep(data[m]) = "ready"
        BY <3>2 DEF FirstStep
      <4>2. e = "uninstall" => phase'[m] = "uninstalling"
        BY <1>t, BegunFacts DEF TypeOK
      <4>3. CASE GoTo(m, FirstStep(data[m]))
        BY <1>t, <3>2, <4>1, <4>3 DEF TypeOK
      <4>4. CASE Fail(m, "end")
        BY <1>t, <4>4 DEF TypeOK
      <4>5. CASE /\ e = "uninstall" /\ GoTo(m, "end")
                 /\ outcome' = [outcome EXCEPT ![m] = "skipped"]
        BY <1>t, <4>2, <4>5 DEF TypeOK
      <4>6. QED BY <4>3, <4>4, <4>5
    <3>4. None \notin Present(m)
      BY <1>t, NoneIsNoRunner DEF TypeOK, Present
    <3>5. Tracked(m)'
      BY <3>2, <3>3 DEF Tracked, Starting, Serving
    <3>6. RunnerRecorded(m)'
      BY <3>2, <3>3, <3>4 DEF RunnerRecorded, Recorded
    <3>7. PhaseTold(m)'
      <4>1. \/ phase[m] = "" /\ phase'[m] = "installing" /\ outcome'[m] = outcome[m]
            \/ phase[m] \in {"ready", "sleeped"} /\ phase'[m] \in {"sleeping", "resuming"} /\ outcome'[m] = outcome[m]
            \/ phase[m] \in Settled /\ phase'[m] = "uninstalling" /\ outcome'[m] \in {outcome[m], "skipped"}
        <5>1. phase'[m] = Begun[e]
          BY <1>t DEF TypeOK
        <5>2. outcome'[m] = outcome[m] \/ (e = "uninstall" /\ outcome'[m] = "skipped")
          BY <1>t DEF TypeOK
        <5>3. QED BY <5>1, <5>2, BegunFacts
      <4>2. PhaseTold(m) BY <3>1 DEF Own
      <4>3. QED BY <1>t, <3>2, <3>3, <4>1, <4>2 DEF PhaseTold, Uninstalled, Settled, TypeOK
    <3>8. StateKept(m)'
      BY <3>2, <3>3 DEF StateKept
    <3>9. QED BY <3>5, <3>6, <3>7, <3>8 DEF Own
  <2>6. QED BY <2>1, <2>3, <2>4, <2>5
<1>5. QED BY <1>1, <1>2, <1>3, <1>4, OneWorker

LEMMA EndStep ==
    ASSUME RunnerInvariant, NEW m \in Modules, end(m)
    PROVE  RunnerInvariant'
<1>. USE DEF end, objects, clock, world, At
<1>t. TypeOK /\ NamesOwned(m)
  BY DEF RunnerInvariant
<1>p. phase[m] \in Transitional /\ EndpointOf(m) \in Endpoints
  BY <1>t, EndpointFacts DEF NamesOwned
<1>s. /\ Success["install"] = "ready" /\ Success["sleep"] = "sleeped"
      /\ Success["resume"] = "ready" /\ Success["uninstall"] = "gone"
  BY DEF Success
<1>r. \/ phase[m] = "installing" /\ ~err[m] /\ phase'[m] = "ready" /\ outcome' = outcome
      \/ phase[m] = "installing" /\ err[m] /\ phase'[m] = "failed" /\ outcome' = outcome
      \/ phase[m] = "sleeping" /\ phase'[m] \in {"sleeped", "sleeping"} /\ outcome' = outcome
      \/ phase[m] = "resuming" /\ phase'[m] \in {"ready", "resuming"} /\ outcome' = outcome
      \/ /\ phase[m] = "uninstalling" /\ phase'[m] = "gone"
         /\ outcome'[m] = IF outcome[m] = "skipped" THEN "skipped" ELSE IF err[m] THEN "failed" ELSE "done"
  <2>1. CASE phase[m] = "installing"
    BY <1>t, <1>s, <2>1, EndpointFacts DEF TypeOK
  <2>2. CASE phase[m] = "sleeping"
    BY <1>t, <1>s, <2>2, EndpointFacts DEF TypeOK
  <2>3. CASE phase[m] = "resuming"
    BY <1>t, <1>s, <2>3, EndpointFacts DEF TypeOK
  <2>4. CASE phase[m] = "uninstalling"
    BY <1>t, <1>s, <2>4, EndpointFacts DEF TypeOK
  <2>5. QED BY <1>p, <2>1, <2>2, <2>3, <2>4, EndpointFacts
<1>0. /\ pc'[m] = "idle" /\ meta'[m] = NoData /\ ~err'[m]
      /\ phase'[m] \in {"gone"} \cup Settled \cup Transitional
      /\ outcome'[m] \in {"none", "skipped", "failed", "done"}
  <2>1. phase'[m] \in {"gone"} \cup Settled \cup Transitional
    BY <1>p, <1>r DEF Settled
  <2>2. outcome'[m] \in {"none", "skipped", "failed", "done"}
    BY <1>t, <1>r DEF TypeOK
  <2>3. QED BY <1>t, <2>1, <2>2 DEF TypeOK
<1>1. TypeOK'
  <2>1. NoData \in MetaData BY DEF NoData, MetaData
  <2>2. phase' \in [Modules -> {"", "gone"} \cup Settled \cup Transitional]
    BY <1>t, <1>0 DEF TypeOK
  <2>3. outcome' \in [Modules -> {"none", "skipped", "failed", "done"}]
    BY <1>t, <1>0 DEF TypeOK
  <2>4. QED BY <1>t, <2>1, <2>2, <2>3 DEF TypeOK
<1>2. \A n \in Modules \ {m} : Untouched(n)
  BY <1>t DEF TypeOK, Untouched
<1>3. NamesOwned(m)'
  BY <1>t, <1>0 DEF NamesOwned, NoData
<1>4. ASSUME mishaps' = 0
      PROVE  mishaps = 0 /\ Own(m)' /\ LabelsApart' /\ SecretsShort'
  <2>1. mishaps = 0 /\ Own(m) /\ LabelsApart /\ SecretsShort
    BY <1>4 DEF RunnerInvariant
  <2>2. LabelsApart'
    BY <2>1 DEF LabelsApart
  <2>3. SecretsShort'
    BY <1>t, <2>1 DEF SecretsShort, Newest, TypeOK, Runners, Owner
  <2>4. Present(m)' = Present(m)
    BY DEF Present
  <2>5. Tracked(m)'
    BY <1>0, <2>1 DEF Own, Tracked, Starting, Serving
  <2>6. RunnerRecorded(m)'
    BY <1>0, <2>1, <2>4 DEF Own, RunnerRecorded, Recorded
  <2>7. PhaseTold(m)'
    <3>1. PhaseTold(m) BY <2>1 DEF Own
    <3>2. QED BY <1>t, <1>0, <1>r, <2>4, <3>1 DEF PhaseTold, Uninstalled, TypeOK
  <2>8. StateKept(m)'
    BY <1>0, <2>1 DEF Own, StateKept
  <2>9. QED BY <2>1, <2>2, <2>3, <2>5, <2>6, <2>7, <2>8 DEF Own
<1>5. QED BY <1>1, <1>2, <1>3, <1>4, OneWorker

LEMMA ExpireStep ==
    ASSUME RunnerInvariant, NEW m \in Modules, expire(m)
    PROVE  RunnerInvariant'
<1>. USE DEF expire, worker, objects, clock, world, At
<1>t. TypeOK /\ NamesOwned(m)
  BY DEF RunnerInvariant
<1>1. TypeOK'
  BY <1>t DEF TypeOK, Settled
<1>2. \A n \in Modules \ {m} : Untouched(n)
  BY <1>t DEF TypeOK, Untouched
<1>3. NamesOwned(m)'
  BY <1>t DEF NamesOwned, Newest
<1>4. ASSUME mishaps' = 0
      PROVE  mishaps = 0 /\ Own(m)' /\ LabelsApart' /\ SecretsShort'
  <2>1. mishaps = 0 /\ Own(m) /\ LabelsApart /\ SecretsShort
    BY <1>4 DEF RunnerInvariant
  <2>2. LabelsApart' /\ SecretsShort'
    BY <2>1 DEF LabelsApart, SecretsShort, Newest
  <2>3. Present(m)' = Present(m) /\ Recorded(m)' = Recorded(m) /\ Newest(m)' = Newest(m)
    BY DEF Present, Recorded, Newest
  <2>4. Tracked(m)' /\ StateKept(m)'
    BY <2>1, <2>3 DEF Own, Tracked, StateKept
  <2>5. RunnerRecorded(m)'
    BY <2>1, <2>3 DEF Own, RunnerRecorded
  <2>6. PhaseTold(m)'
    <3>1. PhaseTold(m) BY <2>1 DEF Own
    <3>2. phase'[m] = "failed" /\ phase[m] \in {"installing", "sleeping", "resuming"}
      BY <1>t, EndpointFacts DEF TypeOK
    <3>3. QED BY <2>3, <3>1, <3>2 DEF PhaseTold, Uninstalled
  <2>7. QED BY <2>1, <2>2, <2>4, <2>5, <2>6 DEF Own
<1>5. QED BY <1>1, <1>2, <1>3, <1>4, OneWorker

-----------------------------------------------------------------------------
(* createRunnerPod *)

LEMMA SecretStep ==
    ASSUME RunnerInvariant, NEW m \in Modules, createRunnerSecret(m)
    PROVE  RunnerInvariant'
<1>. USE DEF createRunnerSecret, clock, world, At, GoTo, Fail
<1>t. TypeOK /\ NamesOwned(m)
  BY DEF RunnerInvariant
<1>r. \/ pc'[m] = "pod" /\ err' = err /\ made'[m] = made[m] + 1 /\ secrets' = secrets \cup {<<m, made'[m]>>}
      \/ pc'[m] = "end" /\ err'[m] /\ made'[m] = made[m] /\ secrets' = secrets
  BY <1>t DEF TypeOK
<1>m. made \in [Modules -> Nat] /\ secrets \subseteq Runners
  BY <1>t DEF TypeOK
<1>0. made'[m] \in Nat /\ (made'[m] = 0 => made[m] = 0 /\ pc'[m] = "end")
  <2>1. \A k \in Nat : k + 1 \in Nat \ {0} OBVIOUS
  <2>2. QED BY <1>m, <1>r, <2>1
<1>1. TypeOK'
  <2>1. made' \in [Modules -> Nat]
    BY <1>m, <1>0
  <2>2. secrets' \subseteq Runners
    <3>1. made'[m] # 0 => <<m, made'[m]>> \in Runners
      BY <1>0 DEF Runners
    <3>2. \A k \in Nat : k + 1 # 0 OBVIOUS
    <3>3. QED BY <1>m, <1>r, <3>1, <3>2
  <2>3. pc' \in [Modules -> {"idle", "service", "end"} \cup Starting \cup Serving] /\ err' \in [Modules -> BOOLEAN]
    BY <1>t DEF TypeOK, Starting
  <2>4. QED BY <1>t, <2>1, <2>2, <2>3 DEF TypeOK
<1>2. \A n \in Modules \ {m} : Untouched(n)
  BY <1>t DEF TypeOK, Untouched
<1>3. NamesOwned(m)'
  BY <1>t, <1>r, <1>0 DEF NamesOwned, Newest
<1>4. ASSUME mishaps' = 0
      PROVE  mishaps = 0 /\ Own(m)' /\ LabelsApart' /\ SecretsShort'
  <2>1. mishaps = 0 /\ Own(m) /\ LabelsApart /\ SecretsShort
    BY <1>4 DEF RunnerInvariant
  <2>2. LabelsApart'
    BY <2>1 DEF LabelsApart
  <2>3. SecretsShort'
    <3>1. \A s \in secrets : Owner(s) # m
      BY <2>1 DEF SecretsShort
    <3>2. \A s \in secrets : Owner(s) \in Modules \ {m}
      BY <1>t, <3>1 DEF TypeOK, Runners, Owner
    <3>3. \A s \in secrets : pc'[Owner(s)] \in {"pod", "running", "unsecret"} /\ s = Newest(Owner(s))'
      BY <1>t, <2>1, <3>2 DEF SecretsShort, Newest, TypeOK
    <3>4. \A s \in secrets' \ secrets : Owner(s) = m /\ s = Newest(m)' /\ pc'[m] = "pod"
      BY <1>t, <1>r DEF Newest, Owner
    <3>5. QED BY <3>3, <3>4 DEF SecretsShort
  <2>4. Present(m)' = Present(m) /\ Present(m) = {}
    BY <2>1 DEF Present, Own, RunnerRecorded, Recorded
  <2>5. Tracked(m)'
    BY <1>r, <2>1 DEF Own, Tracked, Starting, Serving
  <2>6. RunnerRecorded(m)'
    BY <1>r, <2>4 DEF RunnerRecorded
  <2>7. PhaseTold(m)'
    <3>1. PhaseTold(m) BY <2>1 DEF Own
    <3>2. QED BY <1>t, <1>r, <2>4, <3>1 DEF PhaseTold, Uninstalled, TypeOK
  <2>8. StateKept(m)'
    BY <1>r, <2>1 DEF Own, StateKept
  <2>9. QED BY <2>1, <2>2, <2>3, <2>5, <2>6, <2>7, <2>8 DEF Own
<1>5. QED BY <1>1, <1>2, <1>3, <1>4, OneWorker

LEMMA PodStep ==
    ASSUME RunnerInvariant, NEW m \in Modules, createPod(m)
    PROVE  RunnerInvariant'
<1>. USE DEF createPod, clock, world, At, GoTo, Fail
<1>t. TypeOK /\ NamesOwned(m)
  BY DEF RunnerInvariant
<1>n. Newest(m) \in Runners /\ Newest(m)' = Newest(m) /\ Owner(Newest(m)) = m
  BY <1>t DEF TypeOK, NamesOwned, Newest, Runners, Owner
<1>a. CASE pc' = [pc EXCEPT ![m] = "unsecret"] /\ err' = [err EXCEPT ![m] = TRUE] /\ UNCHANGED <<pods, mishaps>>
  <2>. USE <1>a
  <2>r. pc'[m] = "unsecret" /\ err'[m] = TRUE
    BY <1>t DEF TypeOK
  <2>1. TypeOK'
    BY <1>t DEF TypeOK, Starting
  <2>2. \A n \in Modules \ {m} : Untouched(n)
    BY <1>t DEF TypeOK, Untouched
  <2>3. NamesOwned(m)'
    BY <1>t, <2>r DEF NamesOwned, Newest
  <2>4. ASSUME mishaps' = 0
        PROVE  mishaps = 0 /\ Own(m)' /\ LabelsApart' /\ SecretsShort'
    <3>1. mishaps = 0 /\ Own(m) /\ LabelsApart /\ SecretsShort
      BY <2>4 DEF RunnerInvariant
    <3>2. LabelsApart'
      BY <3>1 DEF LabelsApart
    <3>3. SecretsShort'
      BY <1>t, <2>r, <3>1 DEF SecretsShort, Newest, TypeOK, Runners, Owner
    <3>4. Present(m)' = Present(m) /\ Present(m) = {}
      BY <3>1 DEF Present, Own, RunnerRecorded, Recorded
    <3>5. Tracked(m)'
      BY <2>r, <3>1 DEF Own, Tracked, Starting, Serving
    <3>6. RunnerRecorded(m)'
      BY <2>r, <1>n, <3>4 DEF RunnerRecorded, Present
    <3>7. PhaseTold(m)'
      <4>1. PhaseTold(m) BY <3>1 DEF Own
      <4>2. QED BY <1>t, <2>r, <3>4, <4>1 DEF PhaseTold, Uninstalled, TypeOK
    <3>8. StateKept(m)'
      BY <2>r, <3>1 DEF Own, StateKept
    <3>9. QED BY <3>1, <3>2, <3>3, <3>5, <3>6, <3>7, <3>8 DEF Own
  <2>5. QED BY <2>1, <2>2, <2>3, <2>4, OneWorker
<1>b. CASE /\ pods' = With(pods, Newest(m), [label |-> second, state |-> "pending"])
           /\ IF \E p \in DOMAIN pods : pods[p].label = second THEN Clash ELSE UNCHANGED mishaps
           /\ pc' = [pc EXCEPT ![m] = "running"] /\ UNCHANGED err
  <2>. USE <1>b
  <2>d. /\ DOMAIN pods' = DOMAIN pods \cup {Newest(m)}
        /\ pods'[Newest(m)].label = second
        /\ \A y \in DOMAIN pods : y # Newest(m) => pods'[y] = pods[y]
    BY DEF With
  <2>r. pc'[m] = "running"
    BY <1>t DEF TypeOK
  <2>1. TypeOK'
    <3>1. [label |-> second, state |-> "pending"] \in [label : Nat, state : {"pending", "running", "ended"}]
      BY <1>t DEF TypeOK
    <3>2. pods' \in [DOMAIN pods' -> [label : Nat, state : {"pending", "running", "ended"}]]
      BY <1>t, <3>1, WithType DEF TypeOK
    <3>3. mishaps' \in Nat
      BY <1>t, MishapsCounted DEF TypeOK
    <3>4. DOMAIN pods' \subseteq Runners
      BY <1>t, <1>n, <2>d DEF TypeOK
    <3>5. QED BY <1>t, <3>2, <3>3, <3>4 DEF TypeOK, Starting
  <2>2. \A n \in Modules \ {m} : Untouched(n)
    <3>1. \A x : Owner(x) # m => x # Newest(m)
      BY <1>n
    <3>2. QED BY <1>t, <2>d, <3>1 DEF TypeOK, Untouched
  <2>3. NamesOwned(m)'
    BY <1>t, <1>n, <2>r, <2>d DEF NamesOwned
  <2>4. ASSUME mishaps' = 0
        PROVE  mishaps = 0 /\ Own(m)' /\ LabelsApart' /\ SecretsShort'
    <3>1. mishaps = 0 /\ ~(\E p \in DOMAIN pods : pods[p].label = second)
      BY <1>t, <2>4, MishapsCounted
    <3>2. Own(m) /\ LabelsApart /\ SecretsShort
      BY <3>1 DEF RunnerInvariant
    <3>3. Present(m) = {}
      BY <3>2 DEF Own, RunnerRecorded, Recorded
    <3>4. Newest(m) \notin DOMAIN pods \cup DOMAIN services
      BY <1>n, <3>3 DEF Present
    <3>5. LabelsApart'
      BY <2>d, <3>1, <3>2, <3>4 DEF LabelsApart
    <3>6. SecretsShort'
      BY <1>t, <2>r, <3>2 DEF SecretsShort, Newest, TypeOK, Runners, Owner
    <3>7. Present(m)' \subseteq {Newest(m)}
      BY <2>d, <3>3 DEF Present
    <3>8. Tracked(m)'
      BY <2>r, <3>2 DEF Own, Tracked, Starting, Serving
    <3>9. RunnerRecorded(m)'
      <4>1. ~err[m] BY <3>2 DEF Own, PhaseTold
      <4>2. QED BY <1>n, <2>r, <3>4, <3>7, <4>1 DEF RunnerRecorded, Recorded
    <3>10. PhaseTold(m)'
      <4>1. PhaseTold(m) /\ ~Uninstalled(m)'
        BY <1>t, <2>r, <3>2, EndpointFacts DEF Own, PhaseTold, Uninstalled, NamesOwned
      <4>2. QED BY <2>r, <4>1 DEF PhaseTold
    <3>11. StateKept(m)'
      BY <2>r, <3>2 DEF Own, StateKept
    <3>12. QED BY <3>1, <3>5, <3>6, <3>8, <3>9, <3>10, <3>11 DEF Own
  <2>5. QED BY <2>1, <2>2, <2>3, <2>4, OneWorker
<1>c. QED BY <1>a, <1>b

LEMMA PodWaitStep ==
    ASSUME RunnerInvariant, NEW m \in Modules, waitForPodRunning(m)
    PROVE  RunnerInvariant'
<1>t. TypeOK /\ NamesOwned(m)
  BY DEF RunnerInvariant
<1>r. \/ pc' = [pc EXCEPT ![m] = "unsecret"] /\ err' = err /\ pods' = pods /\ mishaps' = mishaps
      \/ /\ pc' = [pc EXCEPT ![m] = "unsecret"] /\ err' = [err EXCEPT ![m] = TRUE]
         /\ \/ pods' = Without(pods, {Newest(m)}) /\ mishaps' = mishaps
            \/ pods' = pods /\ ApiFails(m)
  BY DEF waitForPodRunning, At, GoTo, Fail
<1>u. /\ pc[m] = "running"
      /\ UNCHANGED <<phase, meta, data, services, secrets, made, second, held, installed, outcome>>
  BY DEF waitForPodRunning, At, clock, world
<1>n. Newest(m)' = Newest(m) /\ Owner(Newest(m)) = m
  BY <1>u DEF Newest, Owner
<1>d. /\ DOMAIN pods' \subseteq DOMAIN pods /\ DOMAIN pods \subseteq DOMAIN pods' \cup {Newest(m)}
      /\ \A y \in DOMAIN pods' : pods'[y] = pods[y]
      /\ ~err'[m] => pods' = pods /\ ~err[m]
      /\ pc'[m] = "unsecret"
  <2>1. CASE pods' = pods
    BY <1>t, <1>r, <2>1 DEF TypeOK
  <2>2. CASE pods' = Without(pods, {Newest(m)}) /\ err' = [err EXCEPT ![m] = TRUE]
    <3>1. /\ DOMAIN pods' \subseteq DOMAIN pods /\ DOMAIN pods \subseteq DOMAIN pods' \cup {Newest(m)}
          /\ \A y \in DOMAIN pods' : pods'[y] = pods[y]
      BY <2>2 DEF Without
    <3>2. pc'[m] = "unsecret" /\ err'[m]
      BY <1>t, <1>r, <2>2 DEF TypeOK
    <3>3. QED BY <3>1, <3>2
  <2>3. QED BY <1>r, <2>1, <2>2
<1>1. TypeOK'
  <2>1. pods' \in [DOMAIN pods' -> [label : Nat, state : {"pending", "running", "ended"}]]
    <3>1. pods \in [DOMAIN pods -> [label : Nat, state : {"pending", "running", "ended"}]]
      BY <1>t DEF TypeOK
    <3>2. CASE pods' = Without(pods, {Newest(m)})
      BY <3>1, <3>2 DEF Without
    <3>3. QED BY <1>r, <3>1, <3>2
  <2>2. mishaps' \in Nat
    <3>1. mishaps \in Nat BY <1>t DEF TypeOK
    <3>2. QED BY <1>t, <1>r, <3>1, MishapsCounted
  <2>3. pc' \in [Modules -> {"idle", "service", "end"} \cup Starting \cup Serving] /\ err' \in [Modules -> BOOLEAN]
    BY <1>t, <1>r DEF TypeOK, Starting
  <2>4. DOMAIN pods' \subseteq Runners
    BY <1>t, <1>d DEF TypeOK
  <2>5. QED BY <1>t, <1>u, <2>1, <2>2, <2>3, <2>4 DEF TypeOK
<1>2. \A n \in Modules \ {m} : Untouched(n)
  <2>1. \A x : Owner(x) # m => x # Newest(m)
    BY <1>n
  <2>2. \A n \in Modules \ {m} : pc'[n] = pc[n] /\ err'[n] = err[n]
    BY <1>t, <1>r DEF TypeOK
  <2>3. QED BY <1>t, <1>u, <1>d, <2>1, <2>2 DEF Untouched
<1>3. NamesOwned(m)'
  BY <1>t, <1>u, <1>n, <1>d DEF NamesOwned, Newest
<1>4. ASSUME mishaps' = 0
      PROVE  mishaps = 0 /\ Own(m)' /\ LabelsApart' /\ SecretsShort'
  <2>1. mishaps = 0 /\ (pods' = pods \/ (pods' = Without(pods, {Newest(m)}) /\ err'[m]))
    <3>1. err' = [err EXCEPT ![m] = TRUE] => err'[m]
      BY <1>t DEF TypeOK
    <3>2. QED BY <1>t, <1>r, <1>4, <3>1, MishapsCounted
  <2>2. Own(m) /\ LabelsApart /\ SecretsShort
    BY <2>1 DEF RunnerInvariant
  <2>n. Newest(m) \notin DOMAIN services /\ Present(m) \subseteq {Newest(m)} /\ ~err[m]
    BY <1>u, <2>2 DEF Own, RunnerRecorded, Recorded, PhaseTold
  <2>g. err'[m] => Newest(m) \notin DOMAIN pods'
    <3>1. err'[m] => pods' = Without(pods, {Newest(m)})
      BY <1>t, <1>r, <1>4, <2>n, MishapsCounted
    <3>2. QED BY <3>1 DEF Without
  <2>3. LabelsApart'
    BY <1>u, <1>d, <2>2, <2>n DEF LabelsApart
  <2>4. SecretsShort'
    BY <1>t, <1>u, <1>r, <1>d, <2>2 DEF SecretsShort, Newest, TypeOK, Runners, Owner
  <2>5. Present(m)' \subseteq Present(m) /\ (err'[m] => Present(m)' = {})
    BY <1>u, <1>d, <2>n, <2>g DEF Present
  <2>6. Tracked(m)'
    BY <1>u, <1>d, <2>2 DEF Own, Tracked, Starting, Serving
  <2>7. RunnerRecorded(m)'
    BY <1>u, <1>n, <1>d, <2>n, <2>5 DEF RunnerRecorded, Recorded
  <2>8. PhaseTold(m)'
    <3>1. PhaseTold(m) BY <2>2 DEF Own
    <3>2. QED BY <1>t, <1>u, <1>d, <2>5, <3>1 DEF PhaseTold, Uninstalled
  <2>9. StateKept(m)'
    BY <1>u, <1>d, <2>2 DEF Own, StateKept
  <2>10. QED BY <2>1, <2>3, <2>4, <2>6, <2>7, <2>8, <2>9 DEF Own
<1>5. QED BY <1>1, <1>2, <1>3, <1>4, OneWorker

LEMMA SecretGoneStep ==
    ASSUME RunnerInvariant, NEW m \in Modules, deleteSecret(m)
    PROVE  RunnerInvariant'
<1>. USE DEF deleteSecret, clock, world, At, GoTo, Fail
<1>t. TypeOK /\ NamesOwned(m)
  BY DEF RunnerInvariant
<1>n. /\ Newest(m)' = Newest(m) /\ Owner(Newest(m)) = m /\ Newest(m) \in Runners
      /\ ~err[m] => Newest(m) \in DOMAIN pods
  BY <1>t DEF TypeOK, NamesOwned, Newest, Runners, Owner
<1>l. ~err[m] => /\ meta' \in [Modules -> MetaData]
                 /\ meta'[m].pod = Newest(m) /\ meta'[m].label = pods[Newest(m)].label
                 /\ meta'[m].service = meta[m].service /\ meta'[m].inner = meta[m].inner
  <2>1. SUFFICES ASSUME ~err[m]
                 PROVE  /\ meta' \in [Modules -> MetaData]
                        /\ meta'[m].pod = Newest(m) /\ meta'[m].label = pods[Newest(m)].label
                        /\ meta'[m].service = meta[m].service /\ meta'[m].inner = meta[m].inner
    OBVIOUS
  <2>2. pods[Newest(m)].label \in Nat /\ meta \in [Modules -> MetaData]
    BY <1>t, <1>n, <2>1 DEF TypeOK
  <2>3. meta' = [meta EXCEPT ![m].pod = Newest(m), ![m].label = pods[Newest(m)].label]
    BY <2>1
  <2>4. QED BY <1>n, <2>2, <2>3 DEF MetaData
<1>r. /\ secrets' \subseteq secrets /\ pods' = pods /\ mishaps' \in Nat
      /\ mishaps' = 0 => mishaps = 0 /\ secrets' = secrets \ {Newest(m)}
      /\ \/ pc'[m] = "end" /\ err[m] /\ err'[m] /\ meta' = meta
         \/ /\ pc'[m] = "service" /\ ~err[m] /\ ~err'[m] /\ meta'[m].service = meta[m].service
            /\ meta'[m].inner = meta[m].inner
            /\ meta'[m].pod = Newest(m) /\ meta'[m].label = pods[Newest(m)].label
  <2>1. /\ secrets' \subseteq secrets /\ pods' = pods /\ mishaps' \in Nat
        /\ mishaps' = 0 => mishaps = 0 /\ secrets' = secrets \ {Newest(m)}
    <3>1. mishaps \in Nat BY <1>t DEF TypeOK
    <3>2. QED BY <1>t, <3>1, MishapsCounted
  <2>2. CASE err[m]
    BY <1>t, <2>1, <2>2 DEF TypeOK
  <2>3. CASE ~err[m]
    BY <1>t, <2>1, <2>3, <1>l DEF TypeOK
  <2>4. QED BY <2>2, <2>3
<1>1. TypeOK'
  <2>1. meta' \in [Modules -> MetaData]
    BY <1>t, <1>l DEF TypeOK
  <2>2. pc' \in [Modules -> {"idle", "service", "end"} \cup Starting \cup Serving] /\ err' \in [Modules -> BOOLEAN]
    BY <1>t DEF TypeOK
  <2>3. QED BY <1>t, <1>r, <2>1, <2>2 DEF TypeOK
<1>2. \A n \in Modules \ {m} : Untouched(n)
  BY <1>t DEF TypeOK, Untouched
<1>3. NamesOwned(m)'
  BY <1>t, <1>n, <1>r DEF NamesOwned, Newest
<1>4. ASSUME mishaps' = 0
      PROVE  mishaps = 0 /\ Own(m)' /\ LabelsApart' /\ SecretsShort'
  <2>1. mishaps = 0 /\ secrets' = secrets \ {Newest(m)}
    BY <1>r, <1>4
  <2>2. Own(m) /\ LabelsApart /\ SecretsShort
    BY <2>1 DEF RunnerInvariant
  <2>3. LabelsApart'
    BY <2>2 DEF LabelsApart
  <2>4. SecretsShort'
    BY <1>t, <2>1, <2>2 DEF SecretsShort, Newest, TypeOK, Runners, Owner
  <2>5. Present(m)' = Present(m)
    BY DEF Present
  <2>6. Tracked(m)'
    <3>1. data[m].pod = None /\ meta[m].pod = None /\ meta[m].service = None /\ Newest(m) \notin DOMAIN services
          /\ data[m].service = None
      BY <2>2 DEF Own, Tracked, Starting, RunnerRecorded
    <3>2. QED BY <1>n, <1>r, <3>1 DEF Tracked, Starting, Serving
  <2>7. RunnerRecorded(m)'
    <3>1. Present(m) \subseteq IF err[m] THEN {} ELSE {Newest(m)}
      BY <2>2 DEF Own, RunnerRecorded, Recorded
    <3>2. QED BY <1>r, <2>5, <3>1 DEF RunnerRecorded, Recorded
  <2>8. PhaseTold(m)'
    <3>1. PhaseTold(m) BY <2>2 DEF Own
    <3>2. QED BY <1>t, <1>r, <2>5, <3>1 DEF PhaseTold, Uninstalled, TypeOK
  <2>9. StateKept(m)'
    BY <1>r, <2>2 DEF Own, StateKept
  <2>10. QED BY <2>1, <2>3, <2>4, <2>6, <2>7, <2>8, <2>9 DEF Own
<1>5. QED BY <1>1, <1>2, <1>3, <1>4, OneWorker

-----------------------------------------------------------------------------
(* createRunnerService and waitForServiceReady *)

LEMMA ServiceStep ==
    ASSUME RunnerInvariant, NEW m \in Modules, createRunnerService(m)
    PROVE  RunnerInvariant'
<1>t. TypeOK /\ NamesOwned(m)
  BY DEF RunnerInvariant
<1>u. /\ pc[m] = "service"
      /\ UNCHANGED <<phase, data, pods, secrets, made, second, held, installed, outcome>>
  BY DEF createRunnerService, At, clock, world
<1>n. Newest(m)' = Newest(m) /\ Owner(Newest(m)) = m /\ Newest(m) \in Runners
  BY <1>t, <1>u DEF TypeOK, NamesOwned, Newest, Runners, Owner
<1>a. CASE /\ services' = With(services, Newest(m), meta[m].label)
           /\ meta' = [meta EXCEPT ![m].service = Newest(m)]
           /\ pc' = [pc EXCEPT ![m] = "ready"] /\ err' = err /\ mishaps' = mishaps
  <2>d. /\ DOMAIN services' = DOMAIN services \cup {Newest(m)}
        /\ services'[Newest(m)] = meta[m].label
        /\ \A y \in DOMAIN services : y # Newest(m) => services'[y] = services[y]
    BY <1>a DEF With
  <2>r. /\ pc'[m] = "ready" /\ meta' \in [Modules -> MetaData]
        /\ meta'[m].pod = meta[m].pod /\ meta'[m].service = Newest(m) /\ meta'[m].inner = meta[m].inner
    <3>1. pc'[m] = "ready"
      BY <1>t, <1>a DEF TypeOK
    <3>2. meta \in [Modules -> MetaData] /\ meta' = [meta EXCEPT ![m].service = Newest(m)]
      BY <1>t, <1>a DEF TypeOK
    <3>3. QED BY <1>n, <3>1, <3>2 DEF MetaData
  <2>1. TypeOK'
    <3>1. services' \in [DOMAIN services' -> Nat]
      <4>1. services \in [DOMAIN services -> Nat] /\ meta[m].label \in Nat
        BY <1>t DEF TypeOK, MetaData
      <4>2. QED BY <1>a, <4>1 DEF With
    <3>2. DOMAIN services' \subseteq Runners
      BY <1>t, <1>n, <2>d DEF TypeOK
    <3>3. pc' \in [Modules -> {"idle", "service", "end"} \cup Starting \cup Serving]
      BY <1>t, <1>a DEF TypeOK, Serving
    <3>4. QED BY <1>t, <1>u, <1>a, <2>r, <3>1, <3>2, <3>3 DEF TypeOK
  <2>2. \A n \in Modules \ {m} : Untouched(n)
    <3>1. \A x : Owner(x) # m => x # Newest(m)
      BY <1>n
    <3>2. \A n \in Modules \ {m} : pc'[n] = pc[n] /\ meta'[n] = meta[n]
      BY <1>t, <1>a DEF TypeOK
    <3>3. QED BY <1>u, <1>a, <2>d, <3>1, <3>2 DEF Untouched
  <2>3. NamesOwned(m)'
    BY <1>t, <1>u, <1>n, <2>r DEF NamesOwned
  <2>4. ASSUME mishaps' = 0
        PROVE  mishaps = 0 /\ Own(m)' /\ LabelsApart' /\ SecretsShort'
    <3>1. mishaps = 0 /\ Own(m) /\ LabelsApart /\ SecretsShort
      BY <1>a, <2>4 DEF RunnerInvariant
    <3>2. /\ data[m].pod = None /\ meta[m].pod = Newest(m) /\ meta[m].label = pods[Newest(m)].label
          /\ Newest(m) \in DOMAIN pods /\ Present(m) \subseteq {Newest(m)} /\ data[m].service = None
      BY <1>u, <3>1 DEF Own, Tracked, RunnerRecorded, Recorded
    <3>3. LabelsApart'
      BY <1>u, <2>d, <3>1, <3>2 DEF LabelsApart
    <3>4. SecretsShort'
      BY <1>t, <1>u, <1>a, <2>r, <3>1 DEF SecretsShort, Newest, TypeOK, Runners, Owner
    <3>5. Present(m)' \subseteq {Newest(m)}
      BY <1>u, <2>d, <3>2 DEF Present
    <3>6. Tracked(m)'
      <4>1. Newest(m) # None BY <1>n, NoneIsNoRunner
      <4>2. QED BY <1>u, <1>n, <2>r, <3>2, <4>1 DEF Tracked, Starting, Serving
    <3>7. RunnerRecorded(m)'
      BY <2>r, <3>2, <3>5 DEF RunnerRecorded, Recorded
    <3>8. PhaseTold(m)'
      <4>1. ~Uninstalled(m)' /\ PhaseTold(m)
        BY <1>t, <1>u, <2>r, <3>1, EndpointFacts DEF Own, PhaseTold, Uninstalled, NamesOwned
      <4>2. QED BY <1>u, <1>a, <2>r, <4>1 DEF PhaseTold
    <3>9. StateKept(m)'
      BY <1>u, <2>r, <3>1 DEF Own, StateKept
    <3>10. QED BY <3>1, <3>3, <3>4, <3>6, <3>7, <3>8, <3>9 DEF Own
  <2>5. QED BY <2>1, <2>2, <2>3, <2>4, OneWorker
<1>b. CASE ApiFails(m) /\ Fail(m, "end") /\ UNCHANGED <<services, meta>>
  <2>r. pc'[m] = "end" /\ err'[m] /\ pc' = [pc EXCEPT ![m] = "end"] /\ err' = [err EXCEPT ![m] = TRUE]
    BY <1>t, <1>b DEF TypeOK, Fail
  <2>0. mishaps' \in Nat /\ mishaps' # 0
    BY <1>t, <1>b, MishapsCounted
  <2>1. TypeOK'
    <3>1. pc' \in [Modules -> {"idle", "service", "end"} \cup Starting \cup Serving] /\ err' \in [Modules -> BOOLEAN]
      BY <1>t, <2>r DEF TypeOK
    <3>2. QED BY <1>t, <1>u, <1>b, <2>0, <3>1 DEF TypeOK
  <2>2. \A n \in Modules \ {m} : Untouched(n)
    BY <1>t, <1>u, <1>b, <2>r DEF TypeOK, Untouched
  <2>3. NamesOwned(m)'
    BY <1>t, <1>u, <1>b, <1>n, <2>r DEF NamesOwned
  <2>4. QED BY <2>0, <2>1, <2>2, <2>3, OneWorker
<1>c. QED BY <1>a, <1>b DEF createRunnerService, GoTo

LEMMA ServiceWaitStep ==
    ASSUME RunnerInvariant, NEW m \in Modules, waitForServiceReady(m)
    PROVE  RunnerInvariant'
<1>t. TypeOK /\ NamesOwned(m)
  BY DEF RunnerInvariant
<1>u. /\ pc[m] = "ready"
      /\ UNCHANGED <<phase, meta, data, secrets, made, second, held, installed, outcome>>
  BY DEF waitForServiceReady, At, clock, world
<1>0. mishaps \in Nat /\ pc \in [Modules -> {"idle", "service", "end"} \cup Starting \cup Serving]
      /\ err \in [Modules -> BOOLEAN]
  BY <1>t DEF TypeOK
<1>r. /\ pods' \in {pods, Without(pods, {meta[m].pod})}
      /\ services' \in {services, Without(services, {meta[m].service})}
      /\ mishaps' \in Nat /\ (mishaps' = 0 => mishaps = 0)
      /\ \/ pc' = [pc EXCEPT ![m] = "patch"] /\ err' = err /\ pods' = pods /\ services' = services
         \/ /\ pc' = [pc EXCEPT ![m] = "end"] /\ err' = [err EXCEPT ![m] = TRUE]
            /\ mishaps' = 0 => /\ pods' = Without(pods, {meta[m].pod})
                               /\ services' = Without(services, {meta[m].service})
  <2>1. ApiFails(m) => mishaps' \in Nat /\ mishaps' # 0
    BY <1>t, MishapsCounted
  <2>2. QED BY <1>0, <2>1 DEF waitForServiceReady, cleanupResourcesOnTimeout, GoTo, Fail
<1>d. /\ DOMAIN pods' \subseteq DOMAIN pods /\ DOMAIN pods \subseteq DOMAIN pods' \cup {meta[m].pod}
      /\ \A y \in DOMAIN pods' : pods'[y] = pods[y]
      /\ DOMAIN services' \subseteq DOMAIN services
      /\ DOMAIN services \subseteq DOMAIN services' \cup {meta[m].service}
      /\ \A y \in DOMAIN services' : services'[y] = services[y]
  <2>1. /\ DOMAIN pods' \subseteq DOMAIN pods /\ DOMAIN pods \subseteq DOMAIN pods' \cup {meta[m].pod}
        /\ \A y \in DOMAIN pods' : pods'[y] = pods[y]
    <3>1. CASE pods' = Without(pods, {meta[m].pod}) BY <3>1 DEF Without
    <3>2. QED BY <1>r, <3>1
  <2>2. /\ DOMAIN services' \subseteq DOMAIN services
        /\ DOMAIN services \subseteq DOMAIN services' \cup {meta[m].service}
        /\ \A y \in DOMAIN services' : services'[y] = services[y]
    <3>1. CASE services' = Without(services, {meta[m].service}) BY <3>1 DEF Without
    <3>2. QED BY <1>r, <3>1
  <2>3. QED BY <2>1, <2>2
<1>p. pc'[m] \in {"patch", "end"} /\ (pc'[m] = "end" => err'[m]) /\ (pc'[m] = "patch" => err' = err)
  BY <1>0, <1>r
<1>1. TypeOK'
  <2>1. pods' \in [DOMAIN pods' -> [label : Nat, state : {"pending", "running", "ended"}]]
    <3>1. pods \in [DOMAIN pods -> [label : Nat, state : {"pending", "running", "ended"}]]
      BY <1>t DEF TypeOK
    <3>2. CASE pods' = Without(pods, {meta[m].pod})
      BY <3>1, <3>2 DEF Without
    <3>3. QED BY <1>r, <3>1, <3>2
  <2>2. services' \in [DOMAIN services' -> Nat]
    <3>1. services \in [DOMAIN services -> Nat]
      BY <1>t DEF TypeOK
    <3>2. CASE services' = Without(services, {meta[m].service})
      BY <3>1, <3>2 DEF Without
    <3>3. QED BY <1>r, <3>1, <3>2
  <2>3. DOMAIN pods' \subseteq Runners /\ DOMAIN services' \subseteq Runners
    BY <1>t, <1>d DEF TypeOK
  <2>4. pc' \in [Modules -> {"idle", "service", "end"} \cup Starting \cup Serving] /\ err' \in [Modules -> BOOLEAN]
    BY <1>0, <1>r DEF Serving
  <2>5. mishaps' \in Nat BY <1>r
  <2>6. QED BY <1>t, <1>u, <2>1, <2>2, <2>3, <2>4, <2>5 DEF TypeOK
<1>2. \A n \in Modules \ {m} : Untouched(n)
  <2>1. \A x \in DOMAIN pods : Owner(x) # m => x # meta[m].pod
    BY <1>t, NoneIsNoRunner DEF TypeOK, NamesOwned
  <2>2. \A x \in DOMAIN services : Owner(x) # m => x # meta[m].service
    BY <1>t, NoneIsNoRunner DEF TypeOK, NamesOwned
  <2>3. \A n \in Modules \ {m} : pc'[n] = pc[n] /\ err'[n] = err[n]
    BY <1>0, <1>r
  <2>4. QED BY <1>u, <1>d, <2>1, <2>2, <2>3 DEF Untouched
<1>3. NamesOwned(m)'
  BY <1>t, <1>u, <1>p DEF NamesOwned
<1>4. ASSUME mishaps' = 0
      PROVE  mishaps = 0 /\ Own(m)' /\ LabelsApart' /\ SecretsShort'
  <2>1. mishaps = 0 /\ Own(m) /\ LabelsApart /\ SecretsShort
    BY <1>r, <1>4 DEF RunnerInvariant
  <2>2. /\ meta[m].service = meta[m].pod /\ Present(m) \subseteq {meta[m].pod} /\ ~err[m]
        /\ Tracked(m) /\ PhaseTold(m) /\ StateKept(m)
    BY <1>u, <2>1 DEF Own, Tracked, Serving, RunnerRecorded, Recorded, PhaseTold
  <2>3. CASE pc'[m] = "patch" /\ pods' = pods /\ services' = services
    <3>1. LabelsApart' BY <2>1, <2>3 DEF LabelsApart
    <3>2. SecretsShort'
      BY <1>t, <1>u, <1>0, <1>r, <2>1 DEF SecretsShort, Newest, TypeOK, Runners, Owner
    <3>3. Present(m)' = Present(m) BY <2>3 DEF Present
    <3>4. Tracked(m)' BY <1>u, <2>2, <2>3 DEF Tracked, Starting, Serving
    <3>5. RunnerRecorded(m)' BY <1>u, <2>2, <2>3, <3>3 DEF RunnerRecorded, Recorded
    <3>6. PhaseTold(m)' BY <1>u, <1>p, <2>2, <2>3, <3>3 DEF PhaseTold, Uninstalled
    <3>7. StateKept(m)' BY <1>u, <2>2, <2>3 DEF StateKept
    <3>8. QED BY <2>1, <3>1, <3>2, <3>4, <3>5, <3>6, <3>7 DEF Own
  <2>4. CASE /\ pc'[m] = "end" /\ err'[m]
             /\ pods' = Without(pods, {meta[m].pod})
             /\ services' = Without(services, {meta[m].service})
    <3>0. meta[m].pod \notin DOMAIN pods' /\ meta[m].pod \notin DOMAIN services'
      BY <2>2, <2>4 DEF Without
    <3>1. LabelsApart' BY <1>d, <2>1, <2>2, <3>0 DEF LabelsApart
    <3>2. SecretsShort'
      BY <1>t, <1>u, <1>0, <1>r, <2>1 DEF SecretsShort, Newest, TypeOK, Runners, Owner
    <3>3. Present(m)' = {} BY <1>d, <2>2, <3>0 DEF Present
    <3>4. Tracked(m)' BY <1>u, <2>2, <2>4 DEF Tracked, Starting, Serving
    <3>5. RunnerRecorded(m)' BY <2>4, <3>3 DEF RunnerRecorded
    <3>6. PhaseTold(m)' BY <1>u, <2>2, <2>4, <3>3 DEF PhaseTold, Uninstalled
    <3>7. StateKept(m)' BY <1>u, <2>2, <2>4 DEF StateKept
    <3>8. QED BY <2>1, <3>1, <3>2, <3>4, <3>5, <3>6, <3>7 DEF Own
  <2>5. QED BY <1>0, <1>r, <1>p, <1>4, <2>3, <2>4
<1>5. QED BY <1>1, <1>2, <1>3, <1>4, OneWorker

-----------------------------------------------------------------------------
(* patch and callRunnerEndpoint *)

LEMMA PatchStep ==
    ASSUME RunnerInvariant, NEW m \in Modules,
           patch(m, "patch", "call") \/ patch(m, "save", "end")
    PROVE  RunnerInvariant'
<1>t. TypeOK /\ NamesOwned(m)
  BY DEF RunnerInvariant
<1>u. UNCHANGED <<phase, err, meta, pods, services, secrets, made, second, held, installed, outcome>>
  BY DEF patch, objects, clock, world
<1>0. /\ mishaps \in Nat /\ pc \in [Modules -> {"idle", "service", "end"} \cup Starting \cup Serving]
      /\ data \in [Modules -> MetaData] /\ meta \in [Modules -> MetaData]
  BY <1>t DEF TypeOK
<1>r. /\ \/ pc[m] = "patch" /\ pc' = [pc EXCEPT ![m] = "call"]
         \/ pc[m] = "save" /\ pc' = [pc EXCEPT ![m] = "end"]
      /\ data' \in {data, [data EXCEPT ![m] = meta[m]]}
      /\ mishaps' \in Nat
      /\ mishaps' = 0 => mishaps = 0 /\ data' = [data EXCEPT ![m] = meta[m]]
  <2>1. ApiFails(m) => mishaps' \in Nat /\ mishaps' # 0
    BY <1>t, MishapsCounted
  <2>2. QED BY <1>0, <2>1 DEF patch, At
<1>1. TypeOK'
  <2>1. pc' \in [Modules -> {"idle", "service", "end"} \cup Starting \cup Serving]
    BY <1>0, <1>r DEF Serving
  <2>2. data' \in [Modules -> MetaData]
    BY <1>0, <1>r
  <2>3. QED BY <1>t, <1>u, <1>r, <2>1, <2>2 DEF TypeOK
<1>2. \A n \in Modules \ {m} : Untouched(n)
  BY <1>u, <1>0, <1>r DEF Untouched
<1>3. NamesOwned(m)'
  <2>1. data'[m] \in {data[m], meta[m]} /\ pc'[m] \in {"call", "end"}
    BY <1>0, <1>r
  <2>2. pc[m] # "idle" BY <1>r
  <2>3. QED BY <1>t, <1>u, <2>1, <2>2 DEF NamesOwned
<1>4. ASSUME mishaps' = 0
      PROVE  mishaps = 0 /\ Own(m)' /\ LabelsApart' /\ SecretsShort'
  <2>1. mishaps = 0 /\ Own(m) /\ LabelsApart /\ SecretsShort
    BY <1>r, <1>4 DEF RunnerInvariant
  <2>2. /\ data'[m] = meta[m]
        /\ \/ pc[m] = "patch" /\ pc'[m] = "call"
           \/ pc[m] = "save" /\ pc'[m] = "end"
    <3>1. data' = [data EXCEPT ![m] = meta[m]]
      BY <1>r, <1>4
    <3>2. data'[m] = meta[m]
      BY <1>0, <3>1
    <3>3. QED BY <1>0, <1>r, <3>2
  <2>3. /\ meta[m].pod # None /\ meta[m].service = meta[m].pod /\ Present(m) \subseteq {meta[m].pod}
        /\ meta[m].inner = held[m] /\ PhaseTold(m)
    BY <2>1, <2>2 DEF Own, Tracked, Serving, RunnerRecorded, Recorded, StateKept
  <2>4. LabelsApart' BY <1>u, <2>1 DEF LabelsApart
  <2>5. SecretsShort'
    BY <1>t, <1>u, <1>0, <1>r, <2>1 DEF SecretsShort, Newest, TypeOK, Runners, Owner
  <2>6. Present(m)' = Present(m) BY <1>u DEF Present
  <2>7. Tracked(m)' BY <1>u, <2>2, <2>3 DEF Tracked, Starting, Serving
  <2>8. RunnerRecorded(m)' BY <2>2, <2>3, <2>6 DEF RunnerRecorded, Recorded
  <2>9. PhaseTold(m)' BY <1>u, <2>2, <2>3, <2>6 DEF PhaseTold, Uninstalled
  <2>10. StateKept(m)' BY <1>u, <2>2, <2>3 DEF StateKept
  <2>11. QED BY <2>1, <2>4, <2>5, <2>7, <2>8, <2>9, <2>10 DEF Own
<1>5. QED BY <1>1, <1>2, <1>3, <1>4, OneWorker

\* While every service leads to its own pod only, a Module reaches its own runner.
LEMMA OwnRunnerBehind ==
    ASSUME TypeOK, NEW m \in Modules, Tracked(m), NamesOwned(m), LabelsApart, pc[m] = "call",
           NEW p \in Behind(m)
    PROVE  Owner(p) = m
<1>1. p \in DOMAIN pods /\ meta[m].service \in DOMAIN services /\ pods[p].label = services[meta[m].service]
  BY DEF Behind
<1>2. p = meta[m].service
  BY <1>1 DEF LabelsApart
<1>3. meta[m].service # None
  BY DEF Tracked, Serving
<1>4. QED BY <1>2, <1>3 DEF NamesOwned

LEMMA CallStep ==
    ASSUME RunnerInvariant, NEW m \in Modules, callRunnerEndpoint(m)
    PROVE  RunnerInvariant'
<1>t. TypeOK /\ NamesOwned(m)
  BY DEF RunnerInvariant
<1>u. /\ pc[m] = "call" /\ phase[m] \in Transitional
      /\ UNCHANGED <<phase, data, pods, services, secrets, made, second, outcome, mishaps>>
  BY <1>t DEF callRunnerEndpoint, At, objects, clock, NamesOwned
<1>0. /\ pc \in [Modules -> {"idle", "service", "end"} \cup Starting \cup Serving]
      /\ err \in [Modules -> BOOLEAN] /\ meta \in [Modules -> MetaData]
      /\ held \in [Modules -> Runners \cup {None}] /\ installed \in [Modules -> BOOLEAN]
      /\ \A p \in Behind(m) : Owner(p) \in Modules
      /\ \A p : Owner(p) \in Modules => NextState(Owner(p)) \in Runners
  <2>1. held \in [Modules -> Runners \cup {None}]
    BY <1>t DEF TypeOK
  <2>2. \A p \in Behind(m) : Owner(p) \in Modules
    BY <1>t DEF TypeOK, Behind, Runners, Owner
  <2>3. \A o \in Modules : NextState(o) \in Runners
    <3>1. TAKE o \in Modules
    <3>2. held[o] # None => held[o][2] + 1 \in Nat \ {0}
      <4>1. \A r \in Runners : r[2] \in Nat BY DEF Runners
      <4>2. \A k \in Nat : k + 1 \in Nat \ {0} OBVIOUS
      <4>3. QED BY <2>1, <4>1, <4>2
    <3>3. QED BY <3>2 DEF NextState, Runners
  <2>4. QED BY <1>t, <2>1, <2>2, <2>3 DEF TypeOK
<1>e. /\ EndpointOf(m) = "uninstall" <=> phase[m] = "uninstalling"
      /\ EndpointOf(m) = "install" <=> phase[m] = "installing"
      /\ EndpointOf(m) \in {"sleep", "resume"} <=> phase[m] \in {"sleeping", "resuming"}
  BY <1>u, EndpointFacts
\* The three ways a call ends.
<1>r. \/ \E p \in Behind(m) :
           /\ pc' = [pc EXCEPT ![m] = IF phase[m] = "uninstalling" THEN "dropService" ELSE "save"]
           /\ err' = err
           /\ installed' = Effect(Owner(p), EndpointOf(m))
           /\ \/ /\ phase[m] # "uninstalling"
                 /\ held' = [held EXCEPT ![Owner(p)] = NextState(Owner(p))]
                 /\ meta' = [meta EXCEPT ![m].inner = NextState(Owner(p))]
              \/ held' = held /\ meta' = meta
      \/ \E p \in Behind(m) :
           /\ pc' = [pc EXCEPT ![m] = IF phase[m] = "uninstalling" THEN "end" ELSE "save"]
           /\ err' = [err EXCEPT ![m] = TRUE]
           /\ installed' \in {installed, Effect(Owner(p), EndpointOf(m))} /\ held' = held /\ meta' = meta
      \/ /\ pc' = [pc EXCEPT ![m] = IF phase[m] = "uninstalling" THEN "end" ELSE "save"]
         /\ err' = [err EXCEPT ![m] = TRUE]
         /\ installed' = installed /\ held' = held /\ meta' = meta
  BY <1>e DEF callRunnerEndpoint, answers, refuses, GoTo, Fail, world
<1>i. \A p \in Behind(m) :
        /\ Effect(Owner(p), EndpointOf(m)) \in [Modules -> BOOLEAN]
        /\ \A n \in Modules : n # Owner(p) => Effect(Owner(p), EndpointOf(m))[n] = installed[n]
        /\ phase[m] = "installing" => Effect(Owner(p), EndpointOf(m))[Owner(p)] = TRUE
        /\ phase[m] = "uninstalling" => Effect(Owner(p), EndpointOf(m))[Owner(p)] = FALSE
        /\ phase[m] \in {"sleeping", "resuming"} => Effect(Owner(p), EndpointOf(m)) = installed
  <2>1. TAKE p \in Behind(m)
  <2>2. CASE phase[m] \in {"sleeping", "resuming"}
    BY <1>0, <1>e, <2>2 DEF Effect
  <2>3. CASE phase[m] = "installing"
    BY <1>0, <1>e, <2>3 DEF Effect
  <2>4. CASE phase[m] = "uninstalling"
    BY <1>0, <1>e, <2>4 DEF Effect
  <2>5. QED BY <1>u, <2>2, <2>3, <2>4, EndpointFacts
<1>m. /\ meta' \in [Modules -> MetaData] /\ \A n \in Modules \ {m} : meta'[n] = meta[n]
      /\ meta'[m].pod = meta[m].pod /\ meta'[m].service = meta[m].service
  <2>1. CASE \E p \in Behind(m) : meta' = [meta EXCEPT ![m].inner = NextState(Owner(p))]
    <3>1. PICK p \in Behind(m) : meta' = [meta EXCEPT ![m].inner = NextState(Owner(p))]
      BY <2>1
    <3>2. NextState(Owner(p)) \in Runners
      BY <1>0
    <3>3. QED BY <1>0, <3>1, <3>2 DEF MetaData
  <2>2. CASE meta' = meta
    BY <1>0, <2>2
  <2>3. QED BY <1>r, <2>1, <2>2
<1>p. /\ pc'[m] \in {"save", "end", "dropService"} /\ \A n \in Modules \ {m} : pc'[n] = pc[n] /\ err'[n] = err[n]
      /\ pc' \in [Modules -> {"idle", "service", "end"} \cup Starting \cup Serving] /\ err' \in [Modules -> BOOLEAN]
      /\ phase[m] = "uninstalling" => pc'[m] = "dropService" \/ (pc'[m] = "end" /\ err'[m])
      /\ phase[m] # "uninstalling" => pc'[m] = "save"
      /\ pc'[m] = "dropService" => err' = err
  BY <1>0, <1>r DEF Serving
<1>1. TypeOK'
  <2>1. installed' \in [Modules -> BOOLEAN]
    BY <1>0, <1>r, <1>i
  <2>2. held' \in [Modules -> Runners \cup {None}]
    BY <1>0, <1>r
  <2>3. QED BY <1>t, <1>u, <1>m, <1>p, <2>1, <2>2 DEF TypeOK
<1>3. \A n \in Modules : NamesOwned(n)'
  <2>1. TAKE n \in Modules
  <2>2. NamesOwned(n) BY DEF RunnerInvariant
  <2>3. CASE n = m
    BY <1>u, <1>m, <1>p, <2>2, <2>3 DEF NamesOwned
  <2>4. CASE n # m
    BY <1>u, <1>m, <1>p, <2>2, <2>4 DEF NamesOwned, Newest
  <2>5. QED BY <2>3, <2>4
<1>4. ASSUME mishaps' = 0
      PROVE  (\A n \in Modules : Own(n)') /\ LabelsApart' /\ SecretsShort'
  <2>1. mishaps = 0 /\ Own(m) /\ LabelsApart /\ SecretsShort
    BY <1>u, <1>4 DEF RunnerInvariant
  <2>2. \A p \in Behind(m) : Owner(p) = m
    BY <1>t, <1>u, <2>1, OwnRunnerBehind DEF Own
  <2>3. \A n \in Modules \ {m} : installed'[n] = installed[n] /\ held'[n] = held[n]
    BY <1>0, <1>r, <1>i, <2>2
  <2>4. \A n \in Modules \ {m} : Untouched(n)
    BY <1>u, <1>m, <1>p, <2>3 DEF Untouched
  <2>5. \A n \in Modules \ {m} : Own(n)'
    BY <2>1, <2>4, UntouchedOwn DEF RunnerInvariant
  <2>6. LabelsApart' BY <1>u, <2>1 DEF LabelsApart
  <2>7. SecretsShort'
    BY <1>t, <1>u, <1>p, <2>1 DEF SecretsShort, Newest, TypeOK, Runners, Owner
  <2>8. Present(m)' = Present(m) BY <1>u DEF Present
  <2>9. Tracked(m)'
    BY <1>u, <1>m, <1>p, <2>1 DEF Own, Tracked, Starting, Serving
  <2>10. RunnerRecorded(m)'
    BY <1>u, <1>p, <2>1, <2>8 DEF Own, RunnerRecorded, Recorded
  <2>11. meta'[m].inner = held'[m] /\ (phase[m] = "uninstalling" => held'[m] = held[m])
    <3>1. meta[m].inner = held[m]
      BY <1>u, <2>1 DEF Own, StateKept
    <3>2. CASE meta' = meta /\ held' = held
      BY <3>1, <3>2
    <3>3. CASE /\ phase[m] # "uninstalling"
               /\ held' = [held EXCEPT ![m] = NextState(m)]
               /\ meta' = [meta EXCEPT ![m].inner = NextState(m)]
      BY <1>0, <3>3 DEF MetaData
    <3>4. QED BY <1>r, <2>2, <3>2, <3>3
  <2>12. PhaseTold(m)'
    <3>1. PhaseTold(m) /\ ~err[m]
      BY <1>u, <2>1 DEF Own, PhaseTold
    <3>2. phase[m] \in {"sleeping", "resuming"} => installed'[m] = installed[m]
      BY <1>r, <1>i
    <3>3. phase[m] = "installing" /\ ~err'[m] => installed'[m]
      BY <1>0, <1>r, <1>i, <2>2
    <3>4. pc'[m] = "dropService" => phase[m] = "uninstalling" /\ ~installed'[m]
      BY <1>0, <1>r, <1>i, <2>2
    <3>5. phase'[m] = phase[m] /\ outcome'[m] = outcome[m] /\ phase[m] \in Transitional
      BY <1>u
    <3>6. ~Uninstalled(m)' /\ outcome[m] = "none"
      <4>1. outcome[m] \in {"none", "skipped", "failed", "done"}
        BY <1>t DEF TypeOK
      <4>2. QED BY <1>u, <1>p, <3>1, <3>5, <4>1, EndpointFacts DEF PhaseTold, Uninstalled
    <3>7. QED BY <1>u, <1>p, <3>1, <3>2, <3>3, <3>4, <3>5, <3>6, EndpointFacts DEF PhaseTold
  <2>13. StateKept(m)'
    BY <1>u, <1>p, <2>1, <2>11 DEF Own, StateKept
  <2>14. QED BY <2>5, <2>6, <2>7, <2>9, <2>10, <2>12, <2>13 DEF Own
<1>5. QED BY <1>1, <1>3, <1>4 DEF RunnerInvariant

-----------------------------------------------------------------------------
(* Uninstall: the service, and then the pod *)

LEMMA DropServiceStep ==
    ASSUME RunnerInvariant, NEW m \in Modules, dropService(m)
    PROVE  RunnerInvariant'
<1>t. TypeOK /\ NamesOwned(m)
  BY DEF RunnerInvariant
<1>u. /\ pc[m] = "dropService"
      /\ UNCHANGED <<phase, meta, data, pods, secrets, made, second, held, installed, outcome>>
  BY DEF dropService, At, clock, world
<1>0. mishaps \in Nat /\ pc \in [Modules -> {"idle", "service", "end"} \cup Starting \cup Serving]
      /\ err \in [Modules -> BOOLEAN]
  BY <1>t DEF TypeOK
<1>r. /\ mishaps' \in Nat /\ (mishaps' = 0 => mishaps = 0)
      /\ \/ pc' = [pc EXCEPT ![m] = "dropPod"] /\ err' = err /\ services' = Without(services, {meta[m].service})
         \/ pc' = [pc EXCEPT ![m] = "end"] /\ err' = [err EXCEPT ![m] = TRUE] /\ services' = services
  <2>1. ApiFails(m) => mishaps' \in Nat /\ mishaps' # 0
    BY <1>t, MishapsCounted
  <2>2. QED BY <1>0, <2>1 DEF dropService, GoTo, Fail
<1>d. /\ DOMAIN services' \subseteq DOMAIN services
      /\ DOMAIN services \subseteq DOMAIN services' \cup {meta[m].service}
      /\ \A y \in DOMAIN services' : services'[y] = services[y]
  <2>1. CASE services' = Without(services, {meta[m].service}) BY <2>1 DEF Without
  <2>2. QED BY <1>r, <2>1
<1>p. \/ pc'[m] = "dropPod" /\ err' = err /\ meta[m].service \notin DOMAIN services'
      \/ pc'[m] = "end" /\ err'[m]
  <2>1. CASE services' = Without(services, {meta[m].service})
    <3>1. meta[m].service \notin DOMAIN services' BY <2>1 DEF Without
    <3>2. QED BY <1>0, <1>r, <3>1
  <2>2. CASE services' = services
    <3>1. CASE pc' = [pc EXCEPT ![m] = "dropPod"] /\ err' = err /\ services' = Without(services, {meta[m].service})
      <4>1. meta[m].service \notin DOMAIN services' BY <3>1 DEF Without
      <4>2. QED BY <1>0, <3>1, <4>1
    <3>2. QED BY <1>0, <1>r, <3>1
  <2>3. QED BY <1>r, <2>1, <2>2
<1>1. TypeOK'
  <2>1. services' \in [DOMAIN services' -> Nat]
    <3>1. services \in [DOMAIN services -> Nat]
      BY <1>t DEF TypeOK
    <3>2. CASE services' = Without(services, {meta[m].service})
      BY <3>1, <3>2 DEF Without
    <3>3. QED BY <1>r, <3>1, <3>2
  <2>2. DOMAIN services' \subseteq Runners
    BY <1>t, <1>d DEF TypeOK
  <2>3. pc' \in [Modules -> {"idle", "service", "end"} \cup Starting \cup Serving] /\ err' \in [Modules -> BOOLEAN]
    BY <1>0, <1>r DEF Serving
  <2>4. mishaps' \in Nat BY <1>r
  <2>5. QED BY <1>t, <1>u, <2>1, <2>2, <2>3, <2>4 DEF TypeOK
<1>2. \A n \in Modules \ {m} : Untouched(n)
  <2>1. \A x \in DOMAIN services : Owner(x) # m => x # meta[m].service
    BY <1>t, NoneIsNoRunner DEF TypeOK, NamesOwned
  <2>2. \A n \in Modules \ {m} : pc'[n] = pc[n] /\ err'[n] = err[n]
    BY <1>0, <1>r
  <2>3. QED BY <1>u, <1>d, <2>1, <2>2 DEF Untouched
<1>3. NamesOwned(m)'
  BY <1>t, <1>u, <1>p DEF NamesOwned
<1>4. ASSUME mishaps' = 0
      PROVE  mishaps = 0 /\ Own(m)' /\ LabelsApart' /\ SecretsShort'
  <2>1. mishaps = 0 /\ Own(m) /\ LabelsApart /\ SecretsShort
    BY <1>r, <1>4 DEF RunnerInvariant
  <2>2. /\ meta[m].service = meta[m].pod /\ Present(m) \subseteq {data[m].pod}
        /\ Tracked(m) /\ PhaseTold(m) /\ StateKept(m)
    BY <1>u, <2>1 DEF Own, Tracked, Serving, RunnerRecorded, Recorded
  <2>3. LabelsApart' BY <1>u, <1>d, <2>1 DEF LabelsApart
  <2>4. SecretsShort'
    BY <1>t, <1>u, <1>0, <1>r, <2>1 DEF SecretsShort, Newest, TypeOK, Runners, Owner
  <2>5. Present(m)' \subseteq Present(m) BY <1>u, <1>d DEF Present
  <2>6. Tracked(m)' BY <1>u, <1>p, <2>2 DEF Tracked, Starting, Serving
  <2>7. RunnerRecorded(m)' BY <1>u, <1>p, <2>2, <2>5 DEF RunnerRecorded, Recorded
  <2>8. PhaseTold(m)'
    <3>1. ~Uninstalled(m)'
      BY <1>u, <1>p, <2>2 DEF PhaseTold, Uninstalled
    <3>2. QED BY <1>u, <1>p, <2>2, <3>1 DEF PhaseTold
  <2>9. StateKept(m)' BY <1>u, <1>p, <2>2 DEF StateKept
  <2>10. QED BY <2>1, <2>3, <2>4, <2>6, <2>7, <2>8, <2>9 DEF Own
<1>5. QED BY <1>1, <1>2, <1>3, <1>4, OneWorker

LEMMA DropPodStep ==
    ASSUME RunnerInvariant, NEW m \in Modules, dropPod(m)
    PROVE  RunnerInvariant'
<1>t. TypeOK /\ NamesOwned(m)
  BY DEF RunnerInvariant
<1>u. /\ pc[m] = "dropPod"
      /\ UNCHANGED <<phase, meta, data, services, secrets, made, second, held, installed, outcome>>
  BY DEF dropPod, At, clock, world
<1>0. mishaps \in Nat /\ pc \in [Modules -> {"idle", "service", "end"} \cup Starting \cup Serving]
      /\ err \in [Modules -> BOOLEAN]
  BY <1>t DEF TypeOK
<1>r. /\ mishaps' \in Nat /\ (mishaps' = 0 => mishaps = 0)
      /\ pc' = [pc EXCEPT ![m] = "end"]
      /\ \/ err' = err /\ pods' = Without(pods, {meta[m].pod})
         \/ err' = [err EXCEPT ![m] = TRUE] /\ pods' = pods
  <2>1. ApiFails(m) => mishaps' \in Nat /\ mishaps' # 0
    BY <1>t, MishapsCounted
  <2>2. QED BY <1>0, <2>1 DEF dropPod, GoTo, Fail
<1>d. /\ DOMAIN pods' \subseteq DOMAIN pods
      /\ DOMAIN pods \subseteq DOMAIN pods' \cup {meta[m].pod}
      /\ \A y \in DOMAIN pods' : pods'[y] = pods[y]
  <2>1. CASE pods' = Without(pods, {meta[m].pod}) BY <2>1 DEF Without
  <2>2. QED BY <1>r, <2>1
<1>p. pc'[m] = "end" /\ (err'[m] \/ meta[m].pod \notin DOMAIN pods')
  <2>1. CASE err' = err /\ pods' = Without(pods, {meta[m].pod})
    <3>1. meta[m].pod \notin DOMAIN pods' BY <2>1 DEF Without
    <3>2. QED BY <1>0, <1>r, <3>1
  <2>2. CASE err' = [err EXCEPT ![m] = TRUE]
    BY <1>0, <1>r, <2>2
  <2>3. QED BY <1>r, <2>1, <2>2
<1>1. TypeOK'
  <2>1. pods' \in [DOMAIN pods' -> [label : Nat, state : {"pending", "running", "ended"}]]
    <3>1. pods \in [DOMAIN pods -> [label : Nat, state : {"pending", "running", "ended"}]]
      BY <1>t DEF TypeOK
    <3>2. CASE pods' = Without(pods, {meta[m].pod})
      BY <3>1, <3>2 DEF Without
    <3>3. QED BY <1>r, <3>1, <3>2
  <2>2. DOMAIN pods' \subseteq Runners
    BY <1>t, <1>d DEF TypeOK
  <2>3. pc' \in [Modules -> {"idle", "service", "end"} \cup Starting \cup Serving] /\ err' \in [Modules -> BOOLEAN]
    BY <1>0, <1>r
  <2>4. mishaps' \in Nat BY <1>r
  <2>5. QED BY <1>t, <1>u, <2>1, <2>2, <2>3, <2>4 DEF TypeOK
<1>2. \A n \in Modules \ {m} : Untouched(n)
  <2>1. \A x \in DOMAIN pods : Owner(x) # m => x # meta[m].pod
    BY <1>t, NoneIsNoRunner DEF TypeOK, NamesOwned
  <2>2. \A n \in Modules \ {m} : pc'[n] = pc[n] /\ err'[n] = err[n]
    BY <1>0, <1>r
  <2>3. QED BY <1>u, <1>d, <2>1, <2>2 DEF Untouched
<1>3. NamesOwned(m)'
  BY <1>t, <1>u, <1>p DEF NamesOwned
<1>4. ASSUME mishaps' = 0
      PROVE  mishaps = 0 /\ Own(m)' /\ LabelsApart' /\ SecretsShort'
  <2>1. mishaps = 0 /\ Own(m) /\ LabelsApart /\ SecretsShort
    BY <1>r, <1>4 DEF RunnerInvariant
  <2>2. /\ data[m].pod = meta[m].pod /\ Present(m) \subseteq {meta[m].pod}
        /\ meta[m].pod \notin DOMAIN services
        /\ Tracked(m) /\ PhaseTold(m) /\ StateKept(m)
    BY <1>u, <2>1 DEF Own, Tracked, Serving, RunnerRecorded, Recorded
  <2>3. LabelsApart'
    <3>1. \A s \in DOMAIN services : s # meta[m].pod
      BY <2>2
    <3>2. QED BY <1>u, <1>d, <2>1, <3>1 DEF LabelsApart
  <2>4. SecretsShort'
    BY <1>t, <1>u, <1>0, <1>r, <2>1 DEF SecretsShort, Newest, TypeOK, Runners, Owner
  <2>5. Present(m)' \subseteq Present(m) /\ (~err'[m] => Present(m)' = {})
    BY <1>u, <1>d, <1>p, <2>2 DEF Present
  <2>6. Tracked(m)' BY <1>u, <1>p, <2>2 DEF Tracked, Starting, Serving
  <2>7. RunnerRecorded(m)' BY <1>u, <1>p, <2>2, <2>5 DEF RunnerRecorded, Recorded
  <2>8. PhaseTold(m)'
    BY <1>u, <1>p, <2>2, <2>5 DEF PhaseTold, Uninstalled
  <2>9. StateKept(m)' BY <1>u, <1>p, <2>2 DEF StateKept
  <2>10. QED BY <2>1, <2>3, <2>4, <2>6, <2>7, <2>8, <2>9 DEF Own
<1>5. QED BY <1>1, <1>2, <1>3, <1>4, OneWorker

-----------------------------------------------------------------------------
(* The environment *)

\* A step no worker takes, after which every Module has what it had.
LEMMA NoWorker ==
    ASSUME RunnerInvariant, TypeOK', \A n \in Modules : Untouched(n),
           mishaps' = 0 => mishaps = 0 /\ LabelsApart' /\ SecretsShort'
    PROVE  RunnerInvariant'
<1>1. \A n \in Modules : NamesOwned(n)'
  BY UntouchedOwned DEF RunnerInvariant
<1>2. mishaps' = 0 => \A n \in Modules : Own(n)'
  BY UntouchedOwn DEF RunnerInvariant
<1>3. QED BY <1>1, <1>2 DEF RunnerInvariant

LEMMA PodStateStep ==
    ASSUME RunnerInvariant, NEW p, podStarts(p) \/ podEnds(p)
    PROVE  RunnerInvariant'
<1>t. TypeOK
  BY DEF RunnerInvariant
<1>u. UNCHANGED <<phase, pc, err, meta, data, services, secrets, made, second, held, installed, outcome, mishaps>>
  BY DEF podStarts, podEnds, worker, clock, world
<1>r. p \in DOMAIN pods /\ \E state \in {"running", "ended"} : pods' = [pods EXCEPT ![p].state = state]
  BY DEF podStarts, podEnds
<1>d. /\ DOMAIN pods' = DOMAIN pods
      /\ pods' \in [DOMAIN pods -> [label : Nat, state : {"pending", "running", "ended"}]]
      /\ \A y \in DOMAIN pods : pods'[y].label = pods[y].label
  <2>1. PICK state \in {"running", "ended"} : pods' = [pods EXCEPT ![p].state = state]
    BY <1>r
  <2>2. pods \in [DOMAIN pods -> [label : Nat, state : {"pending", "running", "ended"}]]
    BY <1>t DEF TypeOK
  <2>3. QED BY <1>r, <2>1, <2>2
<1>1. TypeOK'
  BY <1>t, <1>u, <1>d DEF TypeOK
<1>2. \A n \in Modules : Untouched(n)
  BY <1>u, <1>d DEF Untouched
<1>3. ASSUME mishaps' = 0
      PROVE  mishaps = 0 /\ LabelsApart' /\ SecretsShort'
  <2>1. mishaps = 0 /\ LabelsApart /\ SecretsShort
    BY <1>u, <1>3 DEF RunnerInvariant
  <2>2. QED BY <1>u, <1>d, <2>1 DEF LabelsApart, SecretsShort, Newest
<1>4. QED BY <1>1, <1>2, <1>3, NoWorker

LEMMA TickStep ==
    ASSUME RunnerInvariant, tick \/ UNCHANGED vars
    PROVE  RunnerInvariant'
<1>t. TypeOK
  BY DEF RunnerInvariant
<1>u. UNCHANGED <<phase, pc, err, meta, data, pods, services, secrets, made, held, installed, outcome, mishaps>>
  BY DEF tick, vars, worker, objects, world
<1>1. TypeOK'
  <2>1. second \in Nat BY <1>t DEF TypeOK
  <2>2. second' \in Nat BY <2>1 DEF tick, vars, clock
  <2>3. QED BY <1>t, <1>u, <2>2 DEF TypeOK
<1>2. \A n \in Modules : Untouched(n)
  BY <1>u DEF Untouched
<1>3. ASSUME mishaps' = 0
      PROVE  mishaps = 0 /\ LabelsApart' /\ SecretsShort'
  <2>1. mishaps = 0 /\ LabelsApart /\ SecretsShort
    BY <1>u, <1>3 DEF RunnerInvariant
  <2>2. QED BY <1>u, <2>1 DEF LabelsApart, SecretsShort, Newest
<1>4. QED BY <1>1, <1>2, <1>3, NoWorker

LEMMA RestartStep ==
    ASSUME RunnerInvariant, restart
    PROVE  RunnerInvariant'
<1>t. TypeOK
  BY DEF RunnerInvariant
<1>u. /\ UNCHANGED <<phase, data, pods, services, secrets, made, second, held, installed, outcome>>
      /\ pc' = [m \in Modules |-> "idle"] /\ err' = [m \in Modules |-> FALSE]
      /\ meta' = [m \in Modules |-> NoData]
  BY DEF restart, objects, clock, world
<1>0. mishaps' \in Nat /\ mishaps' # 0
  BY <1>t, MishapsCounted DEF restart
<1>1. TypeOK'
  <2>1. NoData \in MetaData BY DEF NoData, MetaData
  <2>2. QED BY <1>t, <1>u, <1>0, <2>1 DEF TypeOK
<1>2. \A n \in Modules : NamesOwned(n)'
  <2>1. TAKE n \in Modules
  <2>2. NamesOwned(n) BY DEF RunnerInvariant
  <2>3. QED BY <1>u, <2>2 DEF NamesOwned, NoData
<1>3. QED BY <1>0, <1>1, <1>2 DEF RunnerInvariant

-----------------------------------------------------------------------------
(* The theorems *)

LEMMA InvariantInit == Init => RunnerInvariant
<1>. SUFFICES ASSUME Init PROVE RunnerInvariant
  OBVIOUS
<1>1. TypeOK /\ \A m \in Modules : NamesOwned(m)
  BY TypeInit
<1>2. DOMAIN pods = {} /\ DOMAIN services = {} /\ secrets = {}
  <2>1. DOMAIN <<>> = 1 .. 0 OBVIOUS
  <2>2. 1 .. 0 = {} OBVIOUS
  <2>3. QED BY <2>1, <2>2 DEF Init
<1>3. \A m \in Modules : Own(m)
  <2>1. TAKE m \in Modules
  <2>2. Present(m) = {} BY <1>2 DEF Present
  <2>3. Tracked(m) BY DEF Init, Tracked, Starting, Serving, NoData
  <2>4. RunnerRecorded(m) BY <2>2 DEF Init, RunnerRecorded
  <2>5. PhaseTold(m) BY DEF Init, PhaseTold, Uninstalled
  <2>6. StateKept(m) BY DEF Init, StateKept, NoData
  <2>7. QED BY <2>3, <2>4, <2>5, <2>6 DEF Own
<1>4. LabelsApart /\ SecretsShort
  BY <1>2 DEF LabelsApart, SecretsShort
<1>5. QED BY <1>1, <1>3, <1>4 DEF RunnerInvariant

LEMMA InvariantNext == RunnerInvariant /\ [Next]_vars => RunnerInvariant'
<1>. SUFFICES ASSUME RunnerInvariant, [Next]_vars PROVE RunnerInvariant'
  OBVIOUS
<1>1. ASSUME NEW m \in Modules, Worker(m) PROVE RunnerInvariant'
  BY <1>1, EndStep, SecretStep, PodStep, PodWaitStep, SecretGoneStep, ServiceStep,
     ServiceWaitStep, PatchStep, CallStep, DropServiceStep, DropPodStep DEF Worker
<1>2. QED BY <1>1, BeginStep, ExpireStep, PodStateStep, TickStep, RestartStep DEF Next

\* The inductive invariant of the runners, whatever fails: the names, the metadata and
\* the services of every Module stay its own and, until an API call fails, the operator
\* restarts or two runners share a label, its one runner is recorded on every path.
THEOREM RunnersTracked == Spec => []RunnerInvariant
<1>1. QED BY InvariantInit, InvariantNext, PTL DEF Spec

\* What RunnerInvariant says in a state without a mishap.
LEMMA RunnerAccounted == RunnerInvariant => RunnerAccountedFor
<1>. SUFFICES ASSUME RunnerInvariant, mishaps = 0
              PROVE  /\ \A x \in DOMAIN pods \cup DOMAIN services :
                          x \in Known(Owner(x)) \/ outcome[Owner(x)] \in {"failed", "skipped"}
                     /\ \A s \in secrets : pc[Owner(s)] \in {"pod", "running", "unsecret"}
  BY DEF RunnerAccountedFor
<1>1. ASSUME NEW x \in DOMAIN pods \cup DOMAIN services
      PROVE  x \in Known(Owner(x)) \/ outcome[Owner(x)] \in {"failed", "skipped"}
  <2>. DEFINE m == Owner(x)
  <2>1. m \in Modules
    BY DEF RunnerInvariant, TypeOK, Runners, Owner
  <2>2. Own(m) /\ x \in Present(m) /\ NamesOwned(m)
    BY <2>1 DEF RunnerInvariant, Present
  <2>3. outcome[m] \in {"none", "skipped", "failed", "done"}
    BY <2>1 DEF RunnerInvariant, TypeOK
  <2>. HIDE DEF m
  <2>4. x \in Recorded(m)
    BY <2>2 DEF Own, RunnerRecorded
  <2>5. phase[m] # "gone" => x \in Known(m)
    BY <2>4 DEF Recorded, Known
  <2>6. phase[m] = "gone" => outcome[m] \in {"failed", "skipped"}
    BY <2>2, <2>3 DEF Own, PhaseTold, Uninstalled
  <2>7. QED BY <2>5, <2>6 DEF m
<1>2. \A s \in secrets : pc[Owner(s)] \in {"pod", "running", "unsecret"}
  BY DEF RunnerInvariant, SecretsShort
<1>3. QED BY <1>1, <1>2

\* As long as no API call failed, the operator did not restart and no two runners were
\* started in the same second, every pod and every service a custom Module got is named
\* by its annotation or by the worker at it until the Module is uninstalled without an
\* error, and the Secret with its workspace's kubeconfig is there only while its runner
\* starts (custom.go createRunnerPod, waitForPodRunning, cleanupResourcesOnTimeout,
\* Uninstall).
THEOREM RunnersNeverLost == Spec => []RunnerAccountedFor
<1>1. QED BY RunnersTracked, RunnerAccounted, PTL

\* ... a Module that is ready or sleeped has its own application installed and one
\* uninstalled without an error has it no longer, though every runner is reached by a
\* label only and any number of Modules are installed at once (custom.go
\* callRunnerEndpoint).
THEOREM OwnRunnerCalled == Spec => []CalledTheOwnRunner
<1>1. RunnerInvariant => CalledTheOwnRunner
  BY DEF RunnerInvariant, Own, PhaseTold, Uninstalled, CalledTheOwnRunner
<1>2. QED BY <1>1, RunnersTracked, PTL

\* ... and a runner is given the state it returned last (custom.go callRunnerEndpoint,
\* module_controller.go newManager).
THEOREM StateGivenBack == Spec => []StateCarried
<1>1. RunnerInvariant => StateCarried
  BY DEF RunnerInvariant, Own, StateKept, StateCarried
<1>2. QED BY <1>1, RunnersTracked, PTL
=============================================================================
