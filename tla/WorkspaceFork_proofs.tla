------------------------- MODULE WorkspaceFork_proofs -------------------------
(* Theorems about WorkspaceFork and their proofs: first the pods and items of  *)
(* the migrations, then the Modules, then what one fork does to its Modules.   *)
EXTENDS WorkspaceFork, TLAPS

-----------------------------------------------------------------------------
(* Sequences of names. *)

LEMMA NamesOfTail ==
    ASSUME NEW T, NEW s \in Seq(T), s # <<>>
    PROVE  /\ Names(s) = {Head(s)} \cup Names(Tail(s))
           /\ Tail(s) \in Seq(T)
  <1>1. Len(s) \in Nat /\ Len(s) >= 1 /\ DOMAIN s = 1 .. Len(s)
    OBVIOUS
  <1>2. /\ Tail(s) \in Seq(T) /\ DOMAIN Tail(s) = 1 .. Len(s) - 1
        /\ \A i \in 1 .. Len(s) - 1 : Tail(s)[i] = s[i + 1]
    BY <1>1
  <1>3. ASSUME NEW x \in Names(s) PROVE x \in {Head(s)} \cup Names(Tail(s))
    <2>1. PICK i \in 1 .. Len(s) : x = s[i]
      BY <1>1, <1>3 DEF Names
    <2>2. CASE i = 1
      BY <2>1, <2>2
    <2>3. CASE i # 1
      <3>1. i - 1 \in 1 .. Len(s) - 1 /\ Tail(s)[i - 1] = x
        BY <1>1, <1>2, <2>1, <2>3
      <3>. QED BY <1>2, <3>1 DEF Names
    <2>. QED BY <2>2, <2>3
  <1>4. ASSUME NEW x \in {Head(s)} \cup Names(Tail(s)) PROVE x \in Names(s)
    <2>1. CASE x = Head(s)
      <3>1. 1 \in DOMAIN s /\ x = s[1]
        BY <1>1, <2>1
      <3>. QED BY <3>1 DEF Names
    <2>2. CASE x \in Names(Tail(s))
      <3>1. PICK i \in 1 .. Len(s) - 1 : x = Tail(s)[i]
        BY <1>2, <2>2 DEF Names
      <3>2. i + 1 \in DOMAIN s /\ x = s[i + 1]
        BY <1>1, <1>2, <3>1
      <3>. QED BY <3>2 DEF Names
    <2>. QED BY <1>4, <2>1, <2>2
  <1>. QED BY <1>2, <1>3, <1>4

LEMMA NamesOfNothing == Names(<<>>) = {}
  BY DEF Names

\* The lists of the three loops.
LEMMA Lists ==
    /\ Listed("pvcs") = PVCs /\ Listed("secrets") = Secrets /\ Listed("configMaps") = ConfigMaps
    /\ Names(PVCs) = Volumes /\ Volumes \subseteq Items
    /\ Names(Secrets) \subseteq Objects /\ Names(ConfigMaps) \subseteq Objects
    /\ Objects = Names(Secrets) \cup Names(ConfigMaps) /\ Objects \subseteq Items
    /\ Volumes \cap Objects = {} /\ Names(Secrets) \cap Names(ConfigMaps) = {}
    /\ \A stage \in Stages : Listed(stage) \in Seq(Items) /\ Names(Listed(stage)) \subseteq Items
  <1>1. /\ Listed("pvcs") = PVCs /\ Listed("secrets") = Secrets /\ Listed("configMaps") = ConfigMaps
    BY DEF Listed
  <1>2. Volumes \subseteq Items /\ Objects \subseteq Items
    BY DEF Items
  <1>3. PVCs \in Seq(Volumes) /\ Secrets \in Seq(Objects) /\ ConfigMaps \in Seq(Objects)
    BY ConstantsAssumption
  <1>4. PVCs \in Seq(Items) /\ Secrets \in Seq(Items) /\ ConfigMaps \in Seq(Items)
    BY <1>2, <1>3
  <1>. QED BY <1>1, <1>2, <1>4, ConstantsAssumption DEF Volumes, Objects, Stages

LEMMA LoopTable ==
    /\ Loop("pvcs") = {<<"pvcs">>, <<"recreate", "pvcs">>, <<"pod">>, <<"ready">>, <<"tar">>,
                       <<"cleanup", "copy">>, <<"cleanup", "source">>}
    /\ Loop("secrets") = {<<"secrets">>, <<"recreate", "secrets">>}
    /\ Loop("configMaps") = {<<"configMaps">>, <<"recreate", "configMaps">>}
  BY DEF Loop

LEMMA LoopsApart ==
    /\ \A st, su \in Stages : st # su => Loop(st) \cap Loop(su) = {}
    /\ \A st \in Stages : <<st>> \in Loop(st) /\ <<st>> \notin AtItem
    /\ \A st, su \in Stages : <<su>> \in Loop(st) => st = su
  <1>1. \A st, su \in Stages : st # su => Loop(st) \cap Loop(su) = {}
    BY LoopTable DEF Stages
  <1>2. \A st \in Stages : <<st>> \in Loop(st) /\ <<st>> \notin AtItem
    BY LoopTable DEF Stages, AtItem
  <1>. QED BY <1>1, <1>2

-----------------------------------------------------------------------------
(* The counter of mishaps. *)

LEMMA Counted ==
    ASSUME MigrationTypeOK,
           Mishap \/ UNCHANGED mishaps \/ \E kind \in MoveKinds : Move(kind)
    PROVE  mishaps' \in 0 .. MaxMishaps /\ (mishaps' = 0 => mishaps = 0)
  <1>1. mishaps \in 0 .. MaxMishaps /\ MaxMishaps \in Nat
    BY ConstantsAssumption DEF MigrationTypeOK
  <1>. QED BY <1>1 DEF Mishap, Move

LEMMA MishapCounts ==
    ASSUME MigrationTypeOK, Mishap \/ \E kind \in MoveKinds : Move(kind)
    PROVE  mishaps' # 0
  <1>1. mishaps \in 0 .. MaxMishaps /\ MaxMishaps \in Nat /\ MaxMishaps # 0
    BY ConstantsAssumption DEF MigrationTypeOK
  <1>. QED BY <1>1 DEF Mishap, Move

-----------------------------------------------------------------------------
(* Steps outside the loops. *)

Loops == Loop("pvcs") \cup Loop("secrets") \cup Loop("configMaps")
LoopHeads == {<<"pvcs">>, <<"secrets">>, <<"configMaps">>}

\* A step that touches nothing of a migration: a goroutine that moves was not at work on
\* an item, or is lost with the operator, and is in no loop afterwards.
Quiet ==
    /\ UNCHANGED <<left, item, stamp, pods, terminating, data>>
    /\ DOMAIN pc' = Copies
    /\ \A g \in Copies :
         \/ pc'[g] = pc[g]
         \/ /\ pc'[g] \notin Loops
            /\ pc[g] \notin Loops \/ pc[g] \in LoopHeads \/ mishaps' # 0
    /\ mishaps' \in 0 .. MaxMishaps /\ (mishaps' = 0 => mishaps = 0)

LEMMA QuietKeepsInvariant ==
    ASSUME MigrationInvariant, Quiet
    PROVE  MigrationInvariant'
  <1>1. MigrationTypeOK'
    BY DEF MigrationInvariant, MigrationTypeOK, Quiet, data
  <1>2. PodsOwned'
    <2>1. \A g \in Copies : \/ Holds(g)' = Holds(g)
                            \/ Holds(g)' = {} /\ (Holds(g) = {} \/ mishaps' # 0)
      BY DEF Quiet, Holds, Loops, LoopHeads, Loop
    <2>2. \A g \in Copies, r \in Roles : Pod(g, r)' = Pod(g, r)
      BY DEF Quiet, Pod, PodName, ModuleOf
    <2>3. \A g \in Copies : Holds(g) \subseteq Roles /\ Holds(g)' \subseteq Holds(g)
      BY <2>1 DEF Holds
    <2>4. pods' = pods /\ terminating' = terminating
      BY DEF Quiet
    <2>5. /\ terminating' \subseteq pods'
          /\ \A g \in Copies : \A r \in Holds(g)' : Pod(g, r)' \in pods' \ terminating'
          /\ \A g, h \in Copies : g # h =>
               \A r \in Holds(g)' \cap Holds(h)' : Pod(g, r)' # Pod(h, r)'
      BY <2>2, <2>3, <2>4 DEF MigrationInvariant, PodsOwned
    <2>6. ASSUME mishaps' = 0, NEW p \in pods' \ terminating'
          PROVE  \E g \in Copies : \E r \in Holds(g)' : p = Pod(g, r)'
      <3>1. PICK g \in Copies : \E r \in Holds(g) : p = Pod(g, r)
        BY <2>4, <2>6 DEF MigrationInvariant, PodsOwned, Quiet
      <3>2. Holds(g)' = Holds(g)
        BY <2>1, <2>6, <3>1
      <3>. QED BY <2>2, <2>3, <3>1, <3>2
    <2>. QED BY <2>5, <2>6 DEF PodsOwned
  <1>3. Accounted'
    <2>1. UNCHANGED <<left, item, vol, store, logged>>
      BY DEF Quiet, data
    <2>2. \A g \in Copies : pc'[g] = pc[g] \/ pc'[g] \notin Loops
      BY DEF Quiet
    <2>3. \A stage \in Stages : Loop(stage) \subseteq Loops
      BY DEF Loops, Stages
    <2>4. \A g \in Copies : \A x : Arrived(g, x)' <=> Arrived(g, x)
      BY <2>1 DEF Arrived
    <2>. QED BY <2>1, <2>2, <2>3, <2>4 DEF MigrationInvariant, Accounted, Settled
  <1>. QED BY <1>1, <1>2, <1>3 DEF MigrationInvariant

LEMMA OneMoves ==
    ASSUME MigrationTypeOK, NEW g \in Copies, NEW label, GoTo(g, label)
    PROVE  /\ DOMAIN pc' = Copies /\ pc'[g] = label
           /\ \A h \in Copies : h # g => pc'[h] = pc[h]
  BY DEF MigrationTypeOK, GoTo

\* A goroutine moves from outside the loops, or from the head of one, to outside.
LEMMA QuietMove ==
    ASSUME MigrationTypeOK, NEW g \in Copies, NEW label, GoTo(g, label),
           pc[g] \notin Loops \/ pc[g] \in LoopHeads, label \notin Loops,
           UNCHANGED <<left, item, stamp, pods, terminating, data>>,
           Mishap \/ UNCHANGED mishaps
    PROVE  Quiet
  BY OneMoves, Counted DEF Quiet

LEMMA NobodyMoves ==
    ASSUME MigrationTypeOK, UNCHANGED <<goroutine, pods, terminating, data>>,
           UNCHANGED mishaps \/ \E kind \in MoveKinds : Move(kind)
    PROVE  Quiet
  <1>1. UNCHANGED <<pc, left, item, stamp>>
    BY DEF goroutine
  <1>. QED BY <1>1, Counted DEF Quiet, MigrationTypeOK

LEMMA ForkQuiet ==
    ASSUME MigrationTypeOK, NEW call, forkWorkspace(call)
    PROVE  Quiet
  <1>. DEFINE started == {g \in Copies : Call[g] = call /\ Cached(From[g]).phase # "gone"}
  <1>1. /\ \A g \in started : pc[g] = <<"unstarted">>
        /\ pc' = [g \in Copies |-> IF g \in started THEN <<"create">> ELSE pc[g]]
        /\ UNCHANGED <<left, item, stamp, pods, terminating, data, mishaps>>
    BY DEF forkWorkspace
  <1>. HIDE DEF started
  <1>2. mishaps' \in 0 .. MaxMishaps /\ (mishaps' = 0 => mishaps = 0)
    BY <1>1, Counted
  <1>. QED BY <1>1, <1>2 DEF Quiet, Loops, Loop

\* The steps of a goroutine before and after the migration.
LEMMA OutsideQuiet ==
    ASSUME MigrationTypeOK, NEW g \in Copies, NEW role \in Roles,
           \/ create(g) \/ awaitCopy(g) \/ hibernateModule(g, role) \/ restore(g, role)
           \/ awaitSleep(g, role) /\ pc'[g] # <<"pvcs">>
    PROVE  Quiet
  <1>1. CASE create(g)
    <2>1. PICK label \in {<<"await">>, <<"done">>} : GoTo(g, label)
      BY <1>1 DEF create
    <2>2. pc[g] = <<"create">> /\ UNCHANGED <<left, item, stamp, pods, terminating, data, mishaps>>
      BY <1>1 DEF create
    <2>. QED BY <2>1, <2>2, QuietMove DEF Loops, Loop
  <1>2. CASE awaitCopy(g)
    <2>1. PICK label \in {<<"hibernate", "copy">>, <<"done">>} : GoTo(g, label)
      BY <1>2 DEF awaitCopy
    <2>2. /\ pc[g] = <<"await">> /\ UNCHANGED <<left, item, stamp, pods, terminating, data>>
          /\ Mishap \/ UNCHANGED mishaps
      BY <1>2 DEF awaitCopy, Expires
    <2>. QED BY <2>1, <2>2, QuietMove DEF Loops, Loop
  <1>3. CASE hibernateModule(g, role)
    <2>1. PICK label \in {<<"asleep", role>>, AfterError(role)} : GoTo(g, label)
      BY <1>3 DEF hibernateModule
    <2>2. /\ pc[g] = <<"hibernate", role>>
          /\ UNCHANGED <<left, item, stamp, pods, terminating, data>>
          /\ Mishap \/ UNCHANGED mishaps
      BY <1>3 DEF hibernateModule, PatchFails
    <2>3. label \notin Loops /\ pc[g] \notin Loops
      BY <2>1, <2>2 DEF Loops, Loop, AfterError, Roles
    <2>. QED BY <2>1, <2>2, <2>3, QuietMove
  <1>4. CASE restore(g, role)
    <2>1. GoTo(g, AfterRestore(role))
      BY <1>4 DEF restore
    <2>2. /\ pc[g] = <<"restore", role>>
          /\ UNCHANGED <<left, item, stamp, pods, terminating, data>>
          /\ Mishap \/ UNCHANGED mishaps
      BY <1>4 DEF restore, PatchFails
    <2>3. AfterRestore(role) \notin Loops /\ pc[g] \notin Loops
      BY <2>1, <2>2 DEF Loops, Loop, AfterRestore, Roles
    <2>. QED BY <2>1, <2>2, <2>3, QuietMove
  <1>5. CASE awaitSleep(g, role) /\ pc'[g] # <<"pvcs">>
    <2>0. ~GoTo(g, <<"pvcs">>)
      BY <1>5, OneMoves
    <2>1. PICK label \in {<<"hibernate", "source">>, <<"restore", "source">>, AfterError(role)} :
            GoTo(g, label) /\ UNCHANGED left
      BY <1>5, <2>0 DEF awaitSleep, Enter
    <2>2. /\ pc[g] = <<"asleep", role>>
          /\ UNCHANGED <<item, stamp, pods, terminating, data>>
          /\ Mishap \/ UNCHANGED mishaps
      BY <1>5 DEF awaitSleep, Expires
    <2>3. label \notin Loops /\ pc[g] \notin Loops
      BY <2>1, <2>2 DEF Loops, Loop, AfterError, Roles
    <2>. QED BY <2>1, <2>2, <2>3, QuietMove
  <1>. QED BY <1>1, <1>2, <1>3, <1>4, <1>5

LEMMA ControllerQuiet ==
    ASSUME MigrationTypeOK, NEW m \in Modules,
           Controller(m) \/ deliver(m) \/ delete(m)
                \/ \E s \in Sources, value \in BOOLEAN : setHibernated(s, value)
    PROVE  Quiet
  <1>1. UNCHANGED <<goroutine, pods, terminating, data>>
    BY DEF Controller, decide, begin, finish, expire, uninstall, deliver, delete, setHibernated
  <1>2. UNCHANGED mishaps \/ Move("delete") \/ Move("hibernate")
    BY DEF Controller, decide, begin, finish, expire, uninstall, deliver, delete, setHibernated
  <1>3. UNCHANGED mishaps \/ \E kind \in MoveKinds : Move(kind)
    BY <1>2 DEF MoveKinds
  <1>. QED BY <1>1, <1>3, NobodyMoves

\* A restart loses the goroutines wherever they are; it is a mishap.
LEMMA RestartQuiet ==
    ASSUME MigrationTypeOK, restart
    PROVE  Quiet
  <1>1. /\ pc' = [g \in Copies |-> IF pc[g] \in Ended THEN pc[g] ELSE <<"lost">>]
        /\ UNCHANGED <<left, item, stamp, pods, terminating, data>>
        /\ \E kind \in MoveKinds : Move(kind)
    BY DEF restart, MoveKinds
  <1>2. mishaps' # 0 /\ mishaps' \in 0 .. MaxMishaps
    BY <1>1, Counted, MishapCounts
  <1>. QED BY <1>1, <1>2 DEF Quiet, Loops, Loop

\* The head of a loop, entered with its whole list.
LEMMA EnterKeepsInvariant ==
    ASSUME MigrationInvariant, NEW g \in Copies, NEW stage \in Stages,
           pc[g] \notin Loops \/ pc[g] \in LoopHeads,
           GoTo(g, <<stage>>), left' = [left EXCEPT ![g] = Listed(stage)],
           UNCHANGED <<item, stamp, pods, terminating, data, mishaps>>,
           stage # "pvcs" => Settled(g, PVCs), stage = "configMaps" => Settled(g, Secrets)
    PROVE  MigrationInvariant'
  <1>0. MigrationTypeOK /\ PodsOwned /\ Accounted
    BY DEF MigrationInvariant
  <1>1. /\ DOMAIN pc' = Copies /\ pc'[g] = <<stage>>
        /\ \A h \in Copies : h # g => pc'[h] = pc[h]
    BY <1>0, OneMoves
  <1>2. MigrationTypeOK'
    BY <1>0, <1>1, Lists DEF MigrationTypeOK, data
  <1>3. PodsOwned'
    <2>1. \A h \in Copies : Holds(h)' = Holds(h)
      <3>1. pc[g] \notin {<<"pod">>, <<"ready">>, <<"tar">>, <<"cleanup", "copy">>, <<"cleanup", "source">>}
        BY DEF Loops, LoopHeads, Loop
      <3>2. Holds(g) = {} /\ Holds(g)' = {}
        BY <1>1, <3>1 DEF Holds, Stages
      <3>. QED BY <1>1, <3>2 DEF Holds
    <2>2. \A h \in Copies, r \in Roles : Pod(h, r)' = Pod(h, r)
      BY DEF Pod, PodName, ModuleOf
    <2>3. \A h \in Copies : Holds(h) \subseteq Roles
      BY DEF Holds
    <2>. QED BY <1>0, <2>1, <2>2, <2>3 DEF PodsOwned
  <1>4. Accounted'
    <2>1. \A h \in Copies : \A x : Arrived(h, x)' <=> Arrived(h, x)
      BY DEF Arrived, data
    <2>2. ASSUME NEW h \in Copies, NEW st \in Stages, pc'[h] \in Loop(st), h # g
          PROVE  /\ pc[h] \in Loop(st) /\ left'[h] = left[h] /\ item'[h] = item[h]
      BY <1>0, <1>1, <2>2 DEF MigrationTypeOK
    <2>3. ASSUME NEW st \in Stages, pc'[g] \in Loop(st)
          PROVE  st = stage /\ left'[g] = Listed(st) /\ pc'[g] \notin AtItem
      <3>1. st = stage /\ <<stage>> \notin AtItem
        BY <1>1, <2>3, LoopsApart
      <3>2. left'[g] = Listed(stage)
        BY <1>0 DEF MigrationTypeOK
      <3>. QED BY <1>1, <3>1, <3>2
    <2>4. ASSUME NEW h \in Copies, NEW st \in Stages, pc'[h] \in Loop(st)
          PROVE  /\ Names(left'[h]) \subseteq Names(Listed(st))
                 /\ pc'[h] \in AtItem => item'[h] \in Names(Listed(st))
                 /\ \A x \in Names(Listed(st)) :
                      x \in Names(left'[h]) \/ (pc'[h] \in AtItem /\ x = item'[h]) \/ Arrived(h, x)'
                 /\ st # "pvcs" => \A x \in Names(PVCs) : Arrived(h, x)'
                 /\ st = "configMaps" => \A x \in Names(Secrets) : Arrived(h, x)'
      <3>1. CASE h = g
        BY <2>1, <2>3, <2>4, <3>1 DEF Settled
      <3>2. CASE h # g
        BY <1>0, <1>1, <2>1, <2>2, <2>4, <3>2 DEF Accounted, Settled
      <3>. QED BY <3>1, <3>2
    <2>. QED BY <2>4 DEF Accounted, Settled
  <1>. QED BY <1>2, <1>3, <1>4 DEF MigrationInvariant

-----------------------------------------------------------------------------
(* Steps inside the loops: one goroutine works, the others stay where they are. *)

\* Nothing of another goroutine's migration changes.
Others(g) ==
    \A h \in Copies : h # g =>
      /\ pc'[h] = pc[h] /\ left'[h] = left[h] /\ item'[h] = item[h] /\ stamp'[h] = stamp[h]
      /\ vol'[h] = vol[h] /\ store'[h] = store[h] /\ logged'[h] = logged[h]

\* What Accounted asks of one goroutine, in one loop.
InLoop(g, stage) ==
    /\ Names(left[g]) \subseteq Names(Listed(stage))
    /\ pc[g] \in AtItem => item[g] \in Names(Listed(stage))
    /\ \A x \in Names(Listed(stage)) :
         x \in Names(left[g]) \/ (pc[g] \in AtItem /\ x = item[g]) \/ Arrived(g, x)
    /\ stage # "pvcs" => Settled(g, PVCs)
    /\ stage = "configMaps" => Settled(g, Secrets)

LEMMA AccountedByLoop ==
    Accounted <=> \A g \in Copies : \A stage \in Stages : pc[g] \in Loop(stage) => InLoop(g, stage)
  BY DEF Accounted, InLoop

LEMMA OneAccounted ==
    ASSUME Accounted, NEW g \in Copies, NEW stage \in Stages, Others(g),
           pc'[g] \in Loop(stage), InLoop(g, stage)'
    PROVE  Accounted'
  <1>1. ASSUME NEW h \in Copies, NEW st \in Stages, pc'[h] \in Loop(st)
        PROVE  InLoop(h, st)'
    <2>1. CASE h = g
      <3>1. st = stage
        BY <1>1, <2>1, LoopsApart
      <3>. QED BY <2>1, <3>1
    <2>2. CASE h # g
      <3>1. InLoop(h, st)
        BY <1>1, <2>2, AccountedByLoop DEF Others
      <3>2. \A x : Arrived(h, x)' <=> Arrived(h, x)
        BY <2>2 DEF Arrived, Others
      <3>. QED BY <2>2, <3>1, <3>2 DEF InLoop, Others, Settled
    <2>. QED BY <2>1, <2>2
  <1>. QED BY <1>1 DEF Accounted, InLoop

\* A pod is of one goroutine only by its own place, role and second.
LEMMA OtherPods ==
    ASSUME NEW g \in Copies, Others(g)
    PROVE  \A h \in Copies : h # g => /\ Holds(h)' = Holds(h)
                                      /\ \A r \in Roles : Pod(h, r)' = Pod(h, r)
  BY DEF Others, Holds, Pod, PodName, ModuleOf

LEMMA PodRoles ==
    \A g, h \in Copies, r, q \in Roles : Pod(g, r) = Pod(h, q) => r = q
  BY DEF Pod, PodName

LEMMA PodRolesAfter ==
    \A g, h \in Copies, r, q \in Roles : Pod(g, r)' = Pod(h, q)' => r = q
  BY DEF Pod, PodName

\* A goroutine gains the pod of one role under a free name.
LEMMA GainPod ==
    ASSUME PodsOwned, NEW g \in Copies, NEW q \in Roles, Others(g), UNCHANGED mishaps,
           Holds(g)' = Holds(g) \cup {q}, q \notin Holds(g),
           CreatePod(Pod(g, q)'), \A r \in Holds(g) : Pod(g, r)' = Pod(g, r)
    PROVE  PodsOwned'
  <1>1. /\ Pod(g, q)' \notin pods /\ pods' = pods \cup {Pod(g, q)'} /\ terminating' = terminating
    BY DEF CreatePod
  <1>2. \A h \in Copies : h # g => /\ Holds(h)' = Holds(h)
                                   /\ \A r \in Roles : Pod(h, r)' = Pod(h, r)
    BY OtherPods
  <1>3. \A h \in Copies : Holds(h) \subseteq Roles
    BY DEF Holds
  <1>4. ASSUME NEW h \in Copies, NEW r \in Holds(h)'
        PROVE  Pod(h, r)' \in pods' \ terminating'
    BY <1>1, <1>2, <1>3, <1>4 DEF PodsOwned
  <1>5. ASSUME NEW h \in Copies, h # g, NEW r \in Holds(h)' \cap Holds(g)'
        PROVE  Pod(g, r)' # Pod(h, r)'
    <2>1. Pod(h, r)' = Pod(h, r) /\ Pod(h, r) \in pods /\ r \in Holds(h)
      BY <1>2, <1>3, <1>5 DEF PodsOwned
    <2>2. CASE r = q
      BY <1>1, <2>1, <2>2
    <2>3. CASE r # q
      BY <1>5, <2>1, <2>3 DEF PodsOwned
    <2>. QED BY <2>2, <2>3
  <1>6. ASSUME NEW h \in Copies, NEW k \in Copies, h # k, NEW r \in Holds(h)' \cap Holds(k)'
        PROVE  Pod(h, r)' # Pod(k, r)'
    BY <1>2, <1>3, <1>5, <1>6 DEF PodsOwned
  <1>7. ASSUME mishaps' = 0, NEW p \in pods' \ terminating'
        PROVE  \E h \in Copies : \E r \in Holds(h)' : p = Pod(h, r)'
    <2>1. CASE p = Pod(g, q)'
      BY <2>1
    <2>2. CASE p # Pod(g, q)'
      <3>1. PICK h \in Copies : \E r \in Holds(h) : p = Pod(h, r)
        BY <1>1, <1>7, <2>2 DEF PodsOwned
      <3>. QED BY <1>2, <1>3, <3>1
    <2>. QED BY <2>1, <2>2
  <1>8. terminating' \subseteq pods'
    BY <1>1 DEF PodsOwned
  <1>. QED BY <1>4, <1>6, <1>7, <1>8 DEF PodsOwned

\* A goroutine deletes the pod of one role, or fails to, which is a mishap.
LEMMA DropPod ==
    ASSUME MigrationTypeOK, PodsOwned, NEW g \in Copies, NEW q \in Roles, Others(g),
           q \in Holds(g), Holds(g)' = Holds(g) \ {q}, UNCHANGED pods,
           \/ terminating' = terminating \cup {Pod(g, q)} /\ UNCHANGED mishaps
           \/ UNCHANGED terminating /\ mishaps' # 0,
           \A r \in Holds(g)' : Pod(g, r)' = Pod(g, r)
    PROVE  PodsOwned'
  <1>2. \A h \in Copies : h # g => /\ Holds(h)' = Holds(h)
                                   /\ \A r \in Roles : Pod(h, r)' = Pod(h, r)
    BY OtherPods
  <1>3. \A h \in Copies : Holds(h) \subseteq Roles
    BY DEF Holds
  <1>4. \A h \in Copies : \A r \in Holds(h)' : r \in Holds(h) /\ Pod(h, r)' = Pod(h, r)
    BY <1>2, <1>3
  <1>5. ASSUME NEW h \in Copies, NEW r \in Holds(h)'
        PROVE  Pod(h, r)' \in pods' \ terminating'
    <2>1. Pod(h, r) \in pods \ terminating
      BY <1>4, <1>5 DEF PodsOwned
    <2>2. Pod(h, r) # Pod(g, q)
      <3>1. CASE r # q
        BY <1>3, <1>4, <1>5, <3>1, PodRoles
      <3>2. CASE r = q
        <4>1. h # g
          BY <1>5, <3>2
        <4>. QED BY <1>4, <1>5, <3>2, <4>1 DEF PodsOwned
      <3>. QED BY <3>1, <3>2
    <2>. QED BY <1>4, <1>5, <2>1, <2>2
  <1>6. ASSUME NEW h \in Copies, NEW k \in Copies, h # k, NEW r \in Holds(h)' \cap Holds(k)'
        PROVE  Pod(h, r)' # Pod(k, r)'
    BY <1>4, <1>6 DEF PodsOwned
  <1>7. ASSUME mishaps' = 0, NEW p \in pods' \ terminating'
        PROVE  \E h \in Copies : \E r \in Holds(h)' : p = Pod(h, r)'
    <2>1. terminating' = terminating \cup {Pod(g, q)} /\ mishaps = 0
      BY <1>7
    <2>2. PICK h \in Copies : \E r \in Holds(h) : p = Pod(h, r)
      BY <1>7, <2>1 DEF PodsOwned
    <2>3. PICK r \in Holds(h) : p = Pod(h, r)
      BY <2>2
    <2>4. r \in Holds(h)'
      BY <1>2, <1>7, <2>1, <2>3
    <2>. QED BY <1>4, <2>3, <2>4
  <1>8. terminating' \subseteq pods'
    BY DEF PodsOwned
  <1>. QED BY <1>5, <1>6, <1>7, <1>8 DEF PodsOwned

\* A goroutine goes on with the pods it has.
LEMMA SamePods ==
    ASSUME PodsOwned, NEW g \in Copies, Others(g), UNCHANGED <<pods, terminating, mishaps>>,
           Holds(g)' = Holds(g), \A r \in Holds(g) : Pod(g, r)' = Pod(g, r)
    PROVE  PodsOwned'
  <1>1. \A h \in Copies : /\ Holds(h)' = Holds(h)
                          /\ \A r \in Holds(h) : Pod(h, r)' = Pod(h, r)
    BY OtherPods DEF Holds
  <1>. QED BY <1>1 DEF PodsOwned

\* Where the goroutines hold which pods.
LEMMA HoldsTable ==
    ASSUME NEW g \in Copies
    PROVE  /\ pc[g] \in {<<"ready">>, <<"tar">>, <<"cleanup", "copy">>} => Holds(g) = Roles
           /\ pc[g] \in {<<"pod">>, <<"cleanup", "source">>} => Holds(g) = {"source"}
           /\ pc[g] \notin {<<"pod">>, <<"ready">>, <<"tar">>, <<"cleanup", "copy">>,
                            <<"cleanup", "source">>} => Holds(g) = {}
  BY DEF Holds, Roles

LEMMA HoldsTableAfter ==
    ASSUME NEW g \in Copies
    PROVE  /\ pc'[g] \in {<<"ready">>, <<"tar">>, <<"cleanup", "copy">>} => Holds(g)' = Roles
           /\ pc'[g] \in {<<"pod">>, <<"cleanup", "source">>} => Holds(g)' = {"source"}
           /\ pc'[g] \notin {<<"pod">>, <<"ready">>, <<"tar">>, <<"cleanup", "copy">>,
                             <<"cleanup", "source">>} => Holds(g)' = {}
  BY DEF Holds, Roles

\* The places in the loop over the PVCs.
LEMMA PVCLabels ==
    /\ \A label \in {<<"pvcs">>, <<"pod">>, <<"ready">>, <<"tar">>, <<"cleanup", "copy">>,
                      <<"cleanup", "source">>} : label \in Loop("pvcs")
    /\ \A label \in {<<"pod">>, <<"ready">>, <<"tar">>} : label \in AtItem
    /\ \A label \in {<<"pvcs">>, <<"cleanup", "copy">>, <<"cleanup", "source">>} : label \notin AtItem
    /\ \A stage \in Stages :
         /\ <<stage>> \notin {<<"pod">>, <<"ready">>, <<"tar">>, <<"cleanup", "copy">>,
                             <<"cleanup", "source">>}
         /\ <<"recreate", stage>> \notin {<<"pod">>, <<"ready">>, <<"tar">>, <<"cleanup", "copy">>,
                                         <<"cleanup", "source">>}
  <1>1. /\ \A label \in {<<"pvcs">>, <<"pod">>, <<"ready">>, <<"tar">>, <<"cleanup", "copy">>,
                          <<"cleanup", "source">>} : label \in Loop("pvcs")
        /\ \A label \in {<<"pod">>, <<"ready">>, <<"tar">>} : label \in AtItem
    BY LoopTable DEF AtItem
  <1>2. \A label \in {<<"pvcs">>, <<"cleanup", "copy">>, <<"cleanup", "source">>} : label \notin AtItem
    BY DEF AtItem
  <1>. QED BY <1>1, <1>2 DEF Stages

\* A goroutine in the loop over the PVCs.
LEMMA AtPVC ==
    ASSUME MigrationInvariant, NEW g \in Copies, pc[g] \in Loop("pvcs")
    PROVE  /\ Names(left[g]) \subseteq Volumes
           /\ pc[g] \in AtItem => item[g] \in Volumes
           /\ \A x \in Volumes :
                x \in Names(left[g]) \/ (pc[g] \in AtItem /\ x = item[g]) \/ Arrived(g, x)
  <1>1. InLoop(g, "pvcs")
    BY AccountedByLoop DEF MigrationInvariant, Stages
  <1>. QED BY <1>1, Lists DEF InLoop

\* ... and what it has to show there.
LEMMA StillAtPVC ==
    ASSUME MigrationInvariant, NEW g \in Copies, Others(g), pc'[g] \in Loop("pvcs"),
           Names(left'[g]) \subseteq Volumes,
           pc'[g] \in AtItem => item'[g] \in Volumes,
           \A x \in Volumes : \/ x \in Names(left'[g]) \/ (pc'[g] \in AtItem /\ x = item'[g])
                              \/ Arrived(g, x)'
    PROVE  Accounted'
  <1>1. InLoop(g, "pvcs")'
    BY Lists DEF InLoop
  <1>. QED BY <1>1, OneAccounted DEF MigrationInvariant, Stages

LEMMA MigratePVCKeepsInvariant ==
    ASSUME MigrationInvariant, NEW g \in Copies, migratePVC(g)
    PROVE  MigrationInvariant'
  <1>0. MigrationTypeOK /\ PodsOwned /\ Accounted
    BY DEF MigrationInvariant
  <1>. DEFINE p == Head(left[g])
  <1>1. /\ pc[g] = <<"pvcs">> /\ left[g] # <<>> /\ left' = [left EXCEPT ![g] = Tail(@)]
        /\ UNCHANGED <<vol, store, mishaps>>
    BY DEF migratePVC
  <1>2. left[g] \in Seq(Items)
    BY <1>0 DEF MigrationTypeOK
  <1>3. /\ Names(left[g]) = {p} \cup Names(left'[g]) /\ left'[g] \in Seq(Items)
        /\ \A h \in Copies : h # g => left'[h] = left[h]
        /\ left' \in [Copies -> Seq(Items)]
    BY <1>0, <1>1, <1>2, NamesOfTail DEF MigrationTypeOK
  <1>4. /\ Names(left[g]) \subseteq Volumes
        /\ \A x \in Volumes : x \in Names(left[g]) \/ Arrived(g, x)
    BY <1>1, AtPVC, PVCLabels
  <1>5. p \in Volumes /\ p \in Items
    BY <1>3, <1>4, Lists
  <1>. HIDE DEF p
  <1>6. PICK second \in 1 .. MaxSeconds :
          \/ /\ CreatePod(PodName(g, "source", second))
             /\ stamp' = [stamp EXCEPT ![g] = second] /\ item' = [item EXCEPT ![g] = p]
             /\ GoTo(g, <<"pod">>) /\ UNCHANGED logged
          \/ /\ CreateFails(PodName(g, "source", second)) /\ Log(g, p)
             /\ UNCHANGED <<pc, stamp, item>>
    BY DEF migratePVC, p
  <1>7. CASE /\ CreatePod(PodName(g, "source", second))
             /\ stamp' = [stamp EXCEPT ![g] = second] /\ item' = [item EXCEPT ![g] = p]
             /\ GoTo(g, <<"pod">>) /\ UNCHANGED logged
    <2>1. /\ DOMAIN pc' = Copies /\ pc'[g] = <<"pod">>
          /\ \A h \in Copies : h # g => pc'[h] = pc[h]
      BY <1>0, <1>7, OneMoves
    <2>2. Others(g) /\ stamp'[g] = second /\ item'[g] = p
      BY <1>0, <1>1, <1>3, <1>7, <2>1 DEF Others, MigrationTypeOK
    <2>3. MigrationTypeOK'
      <3>1. second \in 0 .. MaxSeconds
        BY ConstantsAssumption
      <3>. QED BY <1>0, <1>1, <1>3, <1>7, <2>1, <3>1 DEF MigrationTypeOK
    <2>4. PodsOwned'
      <3>1. Pod(g, "source")' = PodName(g, "source", second)
        BY <2>2 DEF Pod, PodName, ModuleOf
      <3>2. Holds(g) = {} /\ Holds(g)' = {"source"}
        BY <1>1, <2>1, HoldsTable, HoldsTableAfter, PVCLabels DEF Stages
      <3>. QED BY <1>0, <1>1, <1>7, <2>2, <3>1, <3>2, GainPod DEF Roles
    <2>5. Accounted'
      <3>1. \A x : Arrived(g, x)' <=> Arrived(g, x)
        BY <1>1, <1>7 DEF Arrived
      <3>. QED BY <1>3, <1>4, <1>5, <2>1, <2>2, <3>1, StillAtPVC, LoopTable DEF AtItem
    <2>. QED BY <2>3, <2>4, <2>5 DEF MigrationInvariant
  <1>8. CASE /\ CreateFails(PodName(g, "source", second)) /\ Log(g, p)
             /\ UNCHANGED <<pc, stamp, item>>
    <2>1. UNCHANGED <<pods, terminating>>
      BY <1>8 DEF CreateFails
    <2>2. /\ logged' = [logged EXCEPT ![g] = @ \cup {p}]
          /\ logged'[g] = logged[g] \cup {p} /\ \A h \in Copies : h # g => logged'[h] = logged[h]
      BY <1>0, <1>8 DEF Log, MigrationTypeOK
    <2>3. Others(g)
      BY <1>1, <1>3, <1>8, <2>2 DEF Others
    <2>4. MigrationTypeOK'
      BY <1>0, <1>1, <1>3, <1>5, <1>8, <2>2 DEF MigrationTypeOK
    <2>5. PodsOwned'
      <3>1. Holds(g)' = Holds(g) /\ \A r \in Roles : Pod(g, r)' = Pod(g, r)
        BY <1>8 DEF Holds, Pod, PodName, ModuleOf
      <3>2. Holds(g) \subseteq Roles
        BY DEF Holds
      <3>. QED BY <1>0, <1>1, <2>1, <2>3, <3>1, <3>2, SamePods
    <2>6. Accounted'
      <3>1. p \in logged'[g] /\ logged[g] \subseteq logged'[g]
        BY <2>2
      <3>3. \A x \in Volumes : x = p \/ Arrived(g, x) => Arrived(g, x)'
        BY <1>1, <3>1 DEF Arrived
      <3>2. pc'[g] = <<"pvcs">>
        BY <1>1, <1>8
      <3>4. /\ Names(left'[g]) \subseteq Volumes
            /\ \A x \in Volumes : x \in Names(left'[g]) \/ Arrived(g, x)'
        BY <1>3, <1>4, <3>3
      <3>. QED BY <2>3, <3>2, <3>4, StillAtPVC, PVCLabels
    <2>. QED BY <2>4, <2>5, <2>6 DEF MigrationInvariant
  <1>. QED BY <1>6, <1>7, <1>8

\* The failure of an item, or its arrival, in the three steps between its pods.
LEMMA ItemStep ==
    ASSUME MigrationInvariant, NEW g \in Copies, pc[g] \in {<<"pod">>, <<"ready">>, <<"tar">>},
           NEW label \in {<<"ready">>, <<"tar">>, <<"cleanup", "copy">>, <<"cleanup", "source">>},
           GoTo(g, label), UNCHANGED <<left, item, stamp, store, mishaps>>,
           \/ UNCHANGED <<vol, logged>> /\ label \in {<<"ready">>, <<"tar">>}
           \/ UNCHANGED vol /\ Log(g, item[g])
           \/ vol' = [vol EXCEPT ![g][item[g]] = "source"] /\ UNCHANGED logged
    PROVE  MigrationTypeOK' /\ Accounted' /\ Others(g) /\ pc'[g] = label
  <1>0. MigrationTypeOK /\ Accounted
    BY DEF MigrationInvariant
  <1>1. /\ DOMAIN pc' = Copies /\ pc'[g] = label
        /\ \A h \in Copies : h # g => pc'[h] = pc[h]
    BY <1>0, OneMoves
  <1>2. /\ Names(left[g]) \subseteq Volumes /\ item[g] \in Volumes
        /\ \A x \in Volumes : x \in Names(left[g]) \/ x = item[g] \/ Arrived(g, x)
    BY AtPVC, LoopTable DEF AtItem
  <1>3. item[g] \in Items
    BY <1>2, Lists
  <1>4. /\ vol' \in [Copies -> [Volumes -> {"other", "source"}]]
        /\ logged' \in [Copies -> SUBSET Items]
        /\ \A h \in Copies : h # g => vol'[h] = vol[h] /\ logged'[h] = logged[h]
    <2>1. CASE UNCHANGED <<vol, logged>>
      BY <1>0, <2>1 DEF MigrationTypeOK
    <2>2. CASE UNCHANGED vol /\ Log(g, item[g])
      BY <1>0, <1>3, <2>2 DEF MigrationTypeOK, Log
    <2>3. CASE vol' = [vol EXCEPT ![g][item[g]] = "source"] /\ UNCHANGED logged
      BY <1>0, <1>2, <2>3 DEF MigrationTypeOK
    <2>. QED BY <2>1, <2>2, <2>3
  <1>5. MigrationTypeOK' /\ Others(g)
    BY <1>0, <1>1, <1>4 DEF MigrationTypeOK, Others
  <1>6. \A x \in Volumes : Arrived(g, x) => Arrived(g, x)'
    BY <1>0, <1>2 DEF Arrived, Log, MigrationTypeOK
  <1>7. label \in AtItem \/ Arrived(g, item[g])'
    BY <1>0, <1>2 DEF Arrived, Log, MigrationTypeOK, AtItem
  <1>8. Accounted'
    BY <1>1, <1>2, <1>5, <1>6, <1>7, StillAtPVC, LoopTable
  <1>. QED BY <1>1, <1>5, <1>8

LEMMA SamePodNames ==
    ASSUME UNCHANGED stamp
    PROVE  \A g \in Copies, r \in Roles : Pod(g, r)' = Pod(g, r)
  BY DEF Pod, PodName, ModuleOf

LEMMA HeldRoles == \A g \in Copies : Holds(g) \subseteq Roles
  BY DEF Holds

LEMMA CreateDestPodKeepsInvariant ==
    ASSUME MigrationInvariant, NEW g \in Copies, createDestPod(g)
    PROVE  MigrationInvariant'
  <1>0. MigrationTypeOK /\ PodsOwned
    BY DEF MigrationInvariant
  <1>1. pc[g] = <<"pod">> /\ UNCHANGED <<left, item, stamp, vol, store, mishaps>>
    BY DEF createDestPod
  <1>2. Holds(g) = {"source"}
    BY <1>1, HoldsTable
  <1>3. \A r \in Roles : Pod(g, r)' = Pod(g, r)
    BY <1>1, SamePodNames
  <1>4. CASE CreatePod(Pod(g, "copy")) /\ GoTo(g, <<"ready">>) /\ UNCHANGED logged
    <2>1. MigrationTypeOK' /\ Accounted' /\ Others(g) /\ pc'[g] = <<"ready">>
      BY <1>1, <1>4, ItemStep
    <2>2. Holds(g)' = Holds(g) \cup {"copy"} /\ "copy" \notin Holds(g)
      BY <1>2, <2>1, HoldsTableAfter DEF Roles
    <2>3. CreatePod(Pod(g, "copy")')
      BY <1>3, <1>4 DEF CreatePod, Roles
    <2>4. PodsOwned'
      BY <1>0, <1>1, <1>3, <2>1, <2>2, <2>3, HeldRoles, GainPod DEF Roles
    <2>. QED BY <2>1, <2>4 DEF MigrationInvariant
  <1>5. CASE /\ CreateFails(Pod(g, "copy")) /\ Log(g, item[g])
             /\ GoTo(g, <<"cleanup", "source">>)
    <2>1. MigrationTypeOK' /\ Accounted' /\ Others(g) /\ pc'[g] = <<"cleanup", "source">>
      BY <1>1, <1>5, ItemStep
    <2>2. Holds(g)' = Holds(g)
      BY <1>2, <2>1, HoldsTableAfter
    <2>3. UNCHANGED <<pods, terminating>>
      BY <1>5 DEF CreateFails
    <2>4. PodsOwned'
      BY <1>0, <1>1, <1>3, <2>1, <2>2, <2>3, HeldRoles, SamePods
    <2>. QED BY <2>1, <2>4 DEF MigrationInvariant
  <1>. QED BY <1>4, <1>5 DEF createDestPod

\* Waiting for the pods and copying leave them alone.
LEMMA CopyKeepsInvariant ==
    ASSUME MigrationInvariant, NEW g \in Copies, waitForPodReady(g) \/ migrateDataViaTar(g)
    PROVE  MigrationInvariant'
  <1>0. MigrationTypeOK /\ PodsOwned
    BY DEF MigrationInvariant
  <1>1. /\ pc[g] \in {<<"ready">>, <<"tar">>}
        /\ UNCHANGED <<left, item, stamp, pods, terminating, store, mishaps>>
    BY DEF waitForPodReady, migrateDataViaTar
  <1>2. PICK label \in {<<"tar">>, <<"cleanup", "copy">>} :
          /\ GoTo(g, label)
          /\ \/ UNCHANGED <<vol, logged>> /\ label = <<"tar">>
             \/ UNCHANGED vol /\ Log(g, item[g])
             \/ vol' = [vol EXCEPT ![g][item[g]] = "source"] /\ UNCHANGED logged
    BY DEF waitForPodReady, migrateDataViaTar
  <1>3. MigrationTypeOK' /\ Accounted' /\ Others(g) /\ pc'[g] = label
    BY <1>1, <1>2, ItemStep
  <1>4. Holds(g)' = Holds(g) /\ \A r \in Roles : Pod(g, r)' = Pod(g, r)
    BY <1>1, <1>2, <1>3, HoldsTable, HoldsTableAfter, SamePodNames
  <1>5. PodsOwned'
    BY <1>0, <1>1, <1>3, <1>4, HeldRoles, SamePods
  <1>. QED BY <1>3, <1>5 DEF MigrationInvariant

LEMMA CleanupPodKeepsInvariant ==
    ASSUME MigrationInvariant, NEW g \in Copies, NEW role \in Roles, cleanupPod(g, role)
    PROVE  MigrationInvariant'
  <1>0. MigrationTypeOK /\ PodsOwned
    BY DEF MigrationInvariant
  <1>. DEFINE label == IF role = "copy" THEN <<"cleanup", "source">> ELSE <<"pvcs">>
  <1>1. /\ pc[g] = <<"cleanup", role>> /\ UNCHANGED <<pods, left, data>>
        /\ \/ terminating' = terminating \cup {Pod(g, role)} /\ UNCHANGED mishaps
           \/ UNCHANGED terminating /\ Mishap
        /\ GoTo(g, label)
        /\ IF role = "copy" THEN UNCHANGED <<item, stamp>>
           ELSE item' = [item EXCEPT ![g] = "none"] /\ stamp' = [stamp EXCEPT ![g] = 0]
    BY DEF cleanupPod
  <1>2. label \in {<<"cleanup", "source">>, <<"pvcs">>}
    OBVIOUS
  <1>3. /\ DOMAIN pc' = Copies /\ pc'[g] = label
        /\ \A h \in Copies : h # g => pc'[h] = pc[h]
    BY <1>0, <1>1, OneMoves
  <1>4. 0 \in 0 .. MaxSeconds
    BY ConstantsAssumption
  <1>5. /\ stamp' \in [Copies -> 0 .. MaxSeconds] /\ DOMAIN item' = Copies
        /\ \A h \in Copies : h # g => stamp'[h] = stamp[h] /\ item'[h] = item[h]
    <2>1. CASE role = "copy"
      BY <1>0, <1>1, <2>1 DEF MigrationTypeOK
    <2>2. CASE role # "copy"
      BY <1>0, <1>1, <1>4, <2>2 DEF MigrationTypeOK
    <2>. QED BY <2>1, <2>2
  <1>6. mishaps' \in 0 .. MaxMishaps /\ (Mishap => mishaps' # 0)
    BY <1>0, <1>1, Counted, MishapCounts
  <1>7. MigrationTypeOK' /\ Others(g)
    BY <1>0, <1>1, <1>3, <1>5, <1>6 DEF MigrationTypeOK, Others, data
  <1>8. Accounted'
    <2>1. pc[g] \in Loop("pvcs") /\ pc[g] \notin AtItem
      BY <1>1, PVCLabels DEF Roles
    <2>2. /\ Names(left[g]) \subseteq Volumes
          /\ \A x \in Volumes : x \in Names(left[g]) \/ Arrived(g, x)
      BY <2>1, AtPVC
    <2>3. \A x : Arrived(g, x)' <=> Arrived(g, x)
      BY <1>1 DEF Arrived, data
    <2>4. left'[g] = left[g]
      BY <1>1
    <2>. QED BY <1>2, <1>3, <1>7, <2>2, <2>3, <2>4, PVCLabels, StillAtPVC
  <1>9. PodsOwned'
    <2>1. CASE role = "copy"
      <3>1. label = <<"cleanup", "source">> /\ UNCHANGED stamp
        BY <1>1, <2>1
      <3>2. Holds(g) = Roles /\ Holds(g)' = {"source"}
        BY <1>1, <1>3, <2>1, <3>1, HoldsTable, HoldsTableAfter
      <3>3. Holds(g)' = Holds(g) \ {"copy"} /\ "copy" \in Holds(g)
        BY <3>2 DEF Roles
      <3>4. \A r \in Roles : Pod(g, r)' = Pod(g, r)
        BY <3>1, SamePodNames
      <3>. HIDE DEF label
      <3>. QED BY <1>0, <1>1, <1>6, <1>7, <2>1, <3>2, <3>3, <3>4, DropPod DEF Roles
    <2>2. CASE role = "source"
      <3>1. label = <<"pvcs">>
        BY <2>2
      <3>2. Holds(g) = {"source"} /\ Holds(g)' = {}
        BY <1>1, <1>3, <2>2, <3>1, HoldsTable, HoldsTableAfter, PVCLabels DEF Stages
      <3>3. Holds(g)' = Holds(g) \ {"source"} /\ "source" \in Holds(g)
        BY <3>2
      <3>. HIDE DEF label
      <3>. QED BY <1>0, <1>1, <1>6, <1>7, <2>2, <3>2, <3>3, DropPod DEF Roles
    <2>. QED BY <2>1, <2>2 DEF Roles
  <1>. QED BY <1>7, <1>8, <1>9 DEF MigrationInvariant

LEMMA PodGoneKeepsInvariant ==
    ASSUME MigrationInvariant, podGone
    PROVE  MigrationInvariant'
  <1>1. /\ pods' = pods \ terminating /\ terminating' = {}
        /\ UNCHANGED <<pc, left, item, stamp, vol, store, logged, mishaps>>
    BY DEF podGone, goroutine, data
  <1>2. MigrationTypeOK'
    BY <1>1 DEF MigrationInvariant, MigrationTypeOK
  <1>3. Accounted'
    BY <1>1 DEF MigrationInvariant, Accounted, Settled, Arrived
  <1>4. PodsOwned'
    <2>1. \A g \in Copies : Holds(g)' = Holds(g) /\ \A r \in Roles : Pod(g, r)' = Pod(g, r)
      BY <1>1, SamePodNames DEF Holds
    <2>2. \A g \in Copies : \A r \in Holds(g) : Pod(g, r)' = Pod(g, r)
      BY <2>1, HeldRoles
    <2>3. pods' \ terminating' = pods \ terminating /\ terminating' \subseteq pods'
      BY <1>1
    <2>. QED BY <1>1, <2>1, <2>2, <2>3 DEF MigrationInvariant, PodsOwned
  <1>. QED BY <1>2, <1>3, <1>4 DEF MigrationInvariant

\* The loops over Secrets and ConfigMaps make no pods.
LEMMA ObjectLabels ==
    \A stage \in {"secrets", "configMaps"} :
      /\ stage \in Stages
      /\ <<stage>> \in Loop(stage) /\ <<stage>> \notin AtItem
      /\ <<"recreate", stage>> \in Loop(stage) /\ <<"recreate", stage>> \in AtItem
      /\ \A x \in Names(Listed(stage)) : x \in Objects /\ x \notin Volumes
      /\ stage = "configMaps" => \A x \in Names(Listed(stage)) : x \notin Names(Secrets)
  <1>1. \A stage \in {"secrets", "configMaps"} : stage \in Stages
    BY DEF Stages
  <1>2. \A stage \in {"secrets", "configMaps"} :
          /\ <<stage>> \in Loop(stage) /\ <<stage>> \notin AtItem
          /\ <<"recreate", stage>> \in Loop(stage) /\ <<"recreate", stage>> \in AtItem
    BY <1>1, LoopTable, LoopsApart DEF AtItem
  <1>3. \A stage \in {"secrets", "configMaps"} :
          /\ \A x \in Names(Listed(stage)) : x \in Objects /\ x \notin Volumes
          /\ stage = "configMaps" => \A x \in Names(Listed(stage)) : x \notin Names(Secrets)
    BY Lists
  <1>. QED BY <1>1, <1>2, <1>3

LEMMA NoPods ==
    ASSUME PodsOwned, NEW g \in Copies, Others(g), NEW stage \in Stages,
           UNCHANGED <<pods, terminating, mishaps>>,
           pc[g] \in {<<stage>>, <<"recreate", stage>>},
           pc'[g] \in {<<stage>>, <<"recreate", stage>>}
    PROVE  PodsOwned'
  <1>1. Holds(g) = {} /\ Holds(g)' = {}
    BY PVCLabels, HoldsTable, HoldsTableAfter
  <1>. QED BY <1>1, SamePods

\* One object k of the loop changes: what has arrived of the others stays so.
LEMMA ObjectStep ==
    ASSUME MigrationInvariant, NEW g \in Copies, NEW stage \in {"secrets", "configMaps"},
           InLoop(g, stage), NEW k \in Names(Listed(stage)), Others(g),
           pc'[g] \in Loop(stage), UNCHANGED vol,
           Names(left'[g]) \subseteq Names(left[g]),
           \A x \in Names(Listed(stage)) : x # k =>
             (x \in Names(left[g]) => x \in Names(left'[g])) /\ ~(pc[g] \in AtItem /\ x = item[g]),
           \A x \in Objects : x # k => store'[g][x] = store[g][x],
           logged[g] \subseteq logged'[g],
           pc'[g] \in AtItem => item'[g] = k,
           pc'[g] \in AtItem \/ k \in logged'[g] \/ store'[g][k] = "source"
    PROVE  Accounted'
  <1>1. /\ stage \in Stages /\ k \in Objects /\ k \notin Volumes
        /\ stage = "configMaps" => k \notin Names(Secrets)
    BY ObjectLabels
  <1>2. \A x \in Items : x # k /\ Arrived(g, x) => Arrived(g, x)'
    BY <1>1 DEF Arrived
  <1>3. pc'[g] \in AtItem \/ \A x \in Items : x = k => Arrived(g, x)'
    BY <1>1 DEF Arrived
  <1>4. Settled(g, PVCs) => Settled(g, PVCs)'
    BY <1>1, <1>2, Lists DEF Settled
  <1>5. stage = "configMaps" => (Settled(g, Secrets) => Settled(g, Secrets)')
    BY <1>1, <1>2, Lists DEF Settled
  <1>6. Names(Listed(stage)) \subseteq Items
    BY <1>1, Lists
  <1>7. \A x \in Names(Listed(stage)) :
          x \in Names(left'[g]) \/ (pc'[g] \in AtItem /\ x = item'[g]) \/ Arrived(g, x)'
    <2>1. ASSUME NEW x \in Names(Listed(stage)), x # k
          PROVE  x \in Names(left'[g]) \/ Arrived(g, x)'
      BY <1>2, <1>6, <2>1 DEF InLoop
    <2>2. \/ pc'[g] \in AtItem /\ k = item'[g]
          \/ \A x \in Items : x = k => Arrived(g, x)'
      BY <1>3
    <2>. QED BY <1>6, <2>1, <2>2
  <1>8. InLoop(g, stage)'
    <2>1. Listed(stage)' = Listed(stage) /\ PVCs' = PVCs /\ Secrets' = Secrets
      BY DEF Listed
    <2>. QED BY <1>4, <1>5, <1>7, <2>1 DEF InLoop
  <1>. QED BY <1>1, <1>8, OneAccounted DEF MigrationInvariant

LEMMA MigrateObjectKeepsInvariant ==
    ASSUME MigrationInvariant, NEW g \in Copies, NEW stage \in {"secrets", "configMaps"},
           migrateObject(g, stage)
    PROVE  MigrationInvariant'
  <1>0. MigrationTypeOK /\ PodsOwned /\ Accounted
    BY DEF MigrationInvariant
  <1>. DEFINE k == Head(left[g])
  <1>1. /\ pc[g] = <<stage>> /\ left[g] # <<>> /\ left' = [left EXCEPT ![g] = Tail(@)]
        /\ UNCHANGED <<stamp, pods, terminating, vol, mishaps>>
        /\ \/ store' = [store EXCEPT ![g][k] = "source"] /\ UNCHANGED <<pc, item, logged>>
           \/ /\ store' = [store EXCEPT ![g][k] = "deleted"] /\ UNCHANGED logged
              /\ item' = [item EXCEPT ![g] = k] /\ GoTo(g, <<"recreate", stage>>)
           \/ Log(g, k) /\ UNCHANGED <<store, pc, item>>
    BY DEF migrateObject
  <1>2. left[g] \in Seq(Items)
    BY <1>0 DEF MigrationTypeOK
  <1>3. /\ Names(left[g]) = {k} \cup Names(left'[g]) /\ left'[g] \in Seq(Items)
        /\ \A h \in Copies : h # g => left'[h] = left[h]
        /\ left' \in [Copies -> Seq(Items)]
    BY <1>0, <1>1, <1>2, NamesOfTail DEF MigrationTypeOK
  <1>. HIDE DEF k
  <1>4. stage \in Stages /\ InLoop(g, stage) /\ pc[g] \notin AtItem
    BY <1>0, <1>1, ObjectLabels, AccountedByLoop
  <1>5. k \in Names(Listed(stage)) /\ k \in Items /\ k \in Objects
    BY <1>3, <1>4, ObjectLabels, Lists DEF InLoop
  <1>6. PICK kk : kk = k
    OBVIOUS
  <1>7. /\ DOMAIN pc' = Copies /\ DOMAIN item' = Copies
        /\ store' \in [Copies -> [Objects -> {"own", "deleted", "source"}]]
        /\ logged' \in [Copies -> SUBSET Items]
        /\ \A h \in Copies : h # g =>
             pc'[h] = pc[h] /\ item'[h] = item[h] /\ store'[h] = store[h] /\ logged'[h] = logged[h]
        /\ \A x \in Objects : x # k => store'[g][x] = store[g][x]
        /\ logged[g] \subseteq logged'[g]
        /\ \/ pc'[g] = <<stage>> /\ (k \in logged'[g] \/ store'[g][k] = "source")
           \/ pc'[g] = <<"recreate", stage>> /\ item'[g] = k
    <2>1. CASE store' = [store EXCEPT ![g][k] = "source"] /\ UNCHANGED <<pc, item, logged>>
      BY <1>0, <1>1, <1>5, <2>1 DEF MigrationTypeOK
    <2>2. CASE /\ store' = [store EXCEPT ![g][k] = "deleted"] /\ UNCHANGED logged
               /\ item' = [item EXCEPT ![g] = k] /\ GoTo(g, <<"recreate", stage>>)
      BY <1>0, <1>5, <2>2, OneMoves DEF MigrationTypeOK
    <2>3. CASE Log(g, k) /\ UNCHANGED <<store, pc, item>>
      BY <1>0, <1>1, <1>5, <2>3 DEF MigrationTypeOK, Log
    <2>. QED BY <1>1, <2>1, <2>2, <2>3
  <1>8. MigrationTypeOK' /\ Others(g)
    BY <1>0, <1>1, <1>3, <1>7 DEF MigrationTypeOK, Others
  <1>9. PodsOwned'
    BY <1>0, <1>1, <1>4, <1>7, <1>8, NoPods
  <1>10. Accounted'
    <2>1. kk \in Names(Listed(stage)) /\ pc'[g] \in Loop(stage)
      BY <1>5, <1>6, <1>7, ObjectLabels
    <2>2. /\ Names(left'[g]) \subseteq Names(left[g])
          /\ \A x \in Names(Listed(stage)) : x # kk =>
               (x \in Names(left[g]) => x \in Names(left'[g])) /\ ~(pc[g] \in AtItem /\ x = item[g])
      BY <1>3, <1>4, <1>6
    <2>3. /\ \A x \in Objects : x # kk => store'[g][x] = store[g][x]
          /\ logged[g] \subseteq logged'[g]
          /\ pc'[g] \in AtItem => item'[g] = kk
          /\ pc'[g] \in AtItem \/ kk \in logged'[g] \/ store'[g][kk] = "source"
      BY <1>6, <1>7, ObjectLabels
    <2>. QED BY <1>1, <1>4, <1>8, <2>1, <2>2, <2>3, ObjectStep
  <1>. QED BY <1>8, <1>9, <1>10 DEF MigrationInvariant

LEMMA RecreateObjectKeepsInvariant ==
    ASSUME MigrationInvariant, NEW g \in Copies, NEW stage \in {"secrets", "configMaps"},
           recreateObject(g, stage)
    PROVE  MigrationInvariant'
  <1>0. MigrationTypeOK /\ PodsOwned /\ Accounted
    BY DEF MigrationInvariant
  <1>1. /\ pc[g] = <<"recreate", stage>> /\ GoTo(g, <<stage>>)
        /\ item' = [item EXCEPT ![g] = "none"]
        /\ UNCHANGED <<left, stamp, pods, terminating, vol, mishaps>>
        /\ \/ store' = [store EXCEPT ![g][item[g]] = "source"] /\ UNCHANGED logged
           \/ Log(g, item[g]) /\ UNCHANGED store
    BY DEF recreateObject
  <1>2. PICK k : k = item[g]
    OBVIOUS
  <1>3. stage \in Stages /\ InLoop(g, stage) /\ pc[g] \in AtItem
    BY <1>0, <1>1, ObjectLabels, AccountedByLoop
  <1>4. k \in Names(Listed(stage)) /\ k \in Items /\ k \in Objects
    BY <1>2, <1>3, ObjectLabels, Lists DEF InLoop
  <1>5. /\ DOMAIN pc' = Copies /\ pc'[g] = <<stage>>
        /\ \A h \in Copies : h # g => pc'[h] = pc[h]
    BY <1>0, <1>1, OneMoves
  <1>6. /\ DOMAIN item' = Copies /\ \A h \in Copies : h # g => item'[h] = item[h]
    BY <1>0, <1>1 DEF MigrationTypeOK
  <1>7. /\ store' \in [Copies -> [Objects -> {"own", "deleted", "source"}]]
        /\ logged' \in [Copies -> SUBSET Items]
        /\ \A h \in Copies : h # g => store'[h] = store[h] /\ logged'[h] = logged[h]
        /\ \A x \in Objects : x # k => store'[g][x] = store[g][x]
        /\ logged[g] \subseteq logged'[g]
        /\ k \in logged'[g] \/ store'[g][k] = "source"
    <2>1. CASE store' = [store EXCEPT ![g][item[g]] = "source"] /\ UNCHANGED logged
      BY <1>0, <1>2, <1>4, <2>1 DEF MigrationTypeOK
    <2>2. CASE Log(g, item[g]) /\ UNCHANGED store
      BY <1>0, <1>2, <1>4, <2>2 DEF MigrationTypeOK, Log
    <2>. QED BY <1>1, <2>1, <2>2
  <1>8. MigrationTypeOK' /\ Others(g)
    BY <1>0, <1>1, <1>5, <1>6, <1>7 DEF MigrationTypeOK, Others
  <1>9. PodsOwned'
    BY <1>0, <1>1, <1>3, <1>5, <1>8, NoPods
  <1>10. Accounted'
    <2>1. pc'[g] \in Loop(stage) /\ pc'[g] \notin AtItem
      BY <1>5, ObjectLabels
    <2>. QED BY <1>1, <1>2, <1>3, <1>4, <1>7, <1>8, <2>1, ObjectStep
  <1>. QED BY <1>8, <1>9, <1>10 DEF MigrationInvariant

LEMMA AwaitSleepKeepsInvariant ==
    ASSUME MigrationInvariant, NEW g \in Copies, NEW role \in Roles, awaitSleep(g, role)
    PROVE  MigrationInvariant'
  <1>0. MigrationTypeOK
    BY DEF MigrationInvariant
  <1>1. CASE pc'[g] # <<"pvcs">>
    BY <1>0, <1>1, OutsideQuiet, QuietKeepsInvariant
  <1>2. CASE pc'[g] = <<"pvcs">>
    <2>1. \/ /\ GoTo(g, <<"pvcs">>) /\ left' = [left EXCEPT ![g] = Listed("pvcs")]
             /\ UNCHANGED mishaps
          \/ GoTo(g, <<"restore", "source">>)
          \/ GoTo(g, <<"hibernate", "source">>)
          \/ GoTo(g, AfterError(role))
      BY DEF awaitSleep, Enter
    <2>2. /\ ~GoTo(g, <<"restore", "source">>) /\ ~GoTo(g, <<"hibernate", "source">>)
          /\ ~GoTo(g, AfterError(role))
      BY <1>0, <1>2, OneMoves DEF AfterError
    <2>3. pc[g] = <<"asleep", role>> /\ UNCHANGED <<item, stamp, pods, terminating, data>>
      BY DEF awaitSleep
    <2>4. pc[g] \notin Loops
      BY <2>3, LoopTable DEF Loops, Roles
    <2>. QED BY <2>1, <2>2, <2>3, <2>4, EnterKeepsInvariant DEF Stages
  <1>. QED BY <1>1, <1>2

\* The end of a loop: what is left of its list is empty, so all of it has settled.
LEMMA LoopEnds ==
    ASSUME MigrationInvariant, NEW g \in Copies, NEW stage \in Stages,
           pc[g] = <<stage>>, left[g] = <<>>
    PROVE  /\ Settled(g, Listed(stage))
           /\ stage # "pvcs" => Settled(g, PVCs)
           /\ stage = "configMaps" => Settled(g, Secrets)
  <1>1. InLoop(g, stage) /\ pc[g] \notin AtItem
    BY AccountedByLoop, LoopsApart DEF MigrationInvariant
  <1>. QED BY <1>1, NamesOfNothing DEF InLoop, Settled

LEMMA NextStageKeepsInvariant ==
    ASSUME MigrationInvariant, NEW g \in Copies, nextStage(g)
    PROVE  MigrationInvariant'
  <1>0. MigrationTypeOK
    BY DEF MigrationInvariant
  <1>1. left[g] = <<>> /\ UNCHANGED <<item, stamp, pods, terminating, data, mishaps>>
    BY DEF nextStage
  <1>2. CASE GoTo(g, <<"restore", "source">>) /\ UNCHANGED left /\ pc[g] \in LoopHeads
    <2>1. <<"restore", "source">> \notin Loops
      BY LoopTable DEF Loops
    <2>2. Quiet
      BY <1>0, <1>1, <1>2, <2>1, QuietMove
    <2>. QED BY <2>2, QuietKeepsInvariant
  <1>3. CASE /\ pc[g] = <<"pvcs">> /\ GoTo(g, <<"secrets">>)
             /\ left' = [left EXCEPT ![g] = Listed("secrets")]
    <2>1. Settled(g, PVCs)
      BY <1>1, <1>3, LoopEnds, Lists DEF Stages
    <2>. QED BY <1>1, <1>3, <2>1, EnterKeepsInvariant DEF Stages, LoopHeads
  <1>4. CASE /\ pc[g] = <<"secrets">> /\ GoTo(g, <<"configMaps">>)
             /\ left' = [left EXCEPT ![g] = Listed("configMaps")]
    <2>1. Settled(g, PVCs) /\ Settled(g, Secrets)
      BY <1>1, <1>4, LoopEnds, Lists DEF Stages
    <2>. QED BY <1>1, <1>4, <2>1, EnterKeepsInvariant DEF Stages, LoopHeads
  <1>. QED BY <1>2, <1>3, <1>4 DEF nextStage, Enter, LoopHeads

LEMMA GoroutineKeepsInvariant ==
    ASSUME MigrationInvariant, NEW g \in Copies, Goroutine(g)
    PROVE  MigrationInvariant'
  <1>0. MigrationTypeOK
    BY DEF MigrationInvariant
  <1>1. CASE \/ create(g) \/ awaitCopy(g)
             \/ \E role \in Roles : hibernateModule(g, role) \/ restore(g, role)
    <2>1. PICK role \in Roles : \/ create(g) \/ awaitCopy(g) \/ hibernateModule(g, role)
                                \/ restore(g, role)
      BY <1>1 DEF Roles
    <2>. QED BY <1>0, <2>1, OutsideQuiet, QuietKeepsInvariant
  <1>2. CASE \E role \in Roles : awaitSleep(g, role) \/ cleanupPod(g, role)
    BY <1>2, AwaitSleepKeepsInvariant, CleanupPodKeepsInvariant
  <1>3. CASE \/ migratePVC(g) \/ createDestPod(g) \/ waitForPodReady(g) \/ migrateDataViaTar(g)
    BY <1>3, MigratePVCKeepsInvariant, CreateDestPodKeepsInvariant, CopyKeepsInvariant
  <1>4. CASE \E stage \in {"secrets", "configMaps"} :
               migrateObject(g, stage) \/ recreateObject(g, stage)
    BY <1>4, MigrateObjectKeepsInvariant, RecreateObjectKeepsInvariant
  <1>5. CASE nextStage(g)
    BY <1>5, NextStageKeepsInvariant
  <1>. QED BY <1>1, <1>2, <1>3, <1>4, <1>5 DEF Goroutine

LEMMA NextKeepsInvariant == MigrationInvariant /\ [Next]_vars => MigrationInvariant'
  <1>. SUFFICES ASSUME MigrationInvariant, [Next]_vars PROVE MigrationInvariant'
    OBVIOUS
  <1>0. MigrationTypeOK
    BY DEF MigrationInvariant
  <1>1. CASE \E g \in Copies : forkWorkspace(Call[g])
    BY <1>0, <1>1, ForkQuiet, QuietKeepsInvariant
  <1>2. CASE \E g \in Copies : Goroutine(g)
    BY <1>2, GoroutineKeepsInvariant
  <1>3. CASE \E m \in Modules : Controller(m) \/ deliver(m) \/ delete(m)
    BY <1>0, <1>3, ControllerQuiet, QuietKeepsInvariant
  <1>4. CASE \E s \in Sources, value \in BOOLEAN : setHibernated(s, value)
    <2>1. PICK m \in Modules : TRUE
      BY <1>4 DEF Modules
    <2>. QED BY <1>0, <1>4, <2>1, ControllerQuiet, QuietKeepsInvariant
  <1>5. CASE podGone
    BY <1>5, PodGoneKeepsInvariant
  <1>6. CASE restart
    BY <1>0, <1>6, RestartQuiet, QuietKeepsInvariant
  <1>7. CASE UNCHANGED vars
    BY <1>0, <1>7, NobodyMoves, QuietKeepsInvariant DEF vars
  <1>. QED BY <1>1, <1>2, <1>3, <1>4, <1>5, <1>6, <1>7 DEF Next

LEMMA InitSatisfiesInvariant == Init => MigrationInvariant
  <1>. SUFFICES ASSUME Init PROVE MigrationInvariant
    OBVIOUS
  <1>1. /\ pc = [g \in Copies |-> <<"unstarted">>]
        /\ left = [g \in Copies |-> <<>>] /\ item = [g \in Copies |-> "none"]
        /\ stamp = [g \in Copies |-> 0]
        /\ pods = {} /\ terminating = {}
        /\ vol = [g \in Copies |-> [p \in Volumes |-> "other"]]
        /\ store = [g \in Copies |-> [k \in Objects |-> "own"]]
        /\ logged = [g \in Copies |-> {}]
        /\ mishaps = 0
    BY DEF Init
  <1>2. 0 \in 0 .. MaxSeconds /\ 0 \in 0 .. MaxMishaps
    BY ConstantsAssumption
  <1>3. MigrationTypeOK
    BY <1>1, <1>2 DEF MigrationTypeOK
  <1>4. PodsOwned
    <2>1. \A g \in Copies : Holds(g) = {}
      BY <1>1 DEF Holds
    <2>. QED BY <1>1, <2>1 DEF PodsOwned
  <1>5. Accounted
    <2>1. \A stage \in Stages : <<"unstarted">> \notin Loop(stage)
      BY LoopTable DEF Stages
    <2>. QED BY <1>1, <2>1 DEF Accounted
  <1>. QED BY <1>3, <1>4, <1>5 DEF MigrationInvariant

-----------------------------------------------------------------------------
(* The theorems *)

\* The invariant of the migrations: the pods in use are owned by one goroutine each, and
\* what has been taken from a list is in work, has arrived or was reported.
THEOREM MigrationsAccountedFor == Spec => []MigrationInvariant
  BY InitSatisfiesInvariant, NextKeepsInvariant, PTL DEF Spec

\* A goroutine works with its own pods, alive, however many forks migrate into the same
\* namespace in the same second.
THEOREM PodsNotShared == Spec => []PodsMine
  <1>1. MigrationInvariant => PodsMine
    <2>. SUFFICES ASSUME MigrationInvariant PROVE PodsMine
      OBVIOUS
    <2>1. \A g \in Copies : pc[g] \in {<<"ready">>, <<"tar">>} => Holds(g) = Roles
      BY HoldsTable
    <2>. QED BY <2>1 DEF MigrationInvariant, PodsOwned, PodsMine, Copying
  <1>. QED BY <1>1, MigrationsAccountedFor, PTL

\* When all goroutines have ended, every migration pod is deleted, unless the deletion
\* failed or the operator restarted.
THEOREM PodsCleanedUp == Spec => []NoPodLeft
  <1>1. MigrationInvariant => NoPodLeft
    <2>. SUFFICES ASSUME MigrationInvariant, mishaps = 0,
                         \A g \in Copies : pc[g] \in {<<"unstarted">>, <<"done">>}
                  PROVE  pods \subseteq terminating
      BY DEF NoPodLeft
    <2>1. \A g \in Copies : Holds(g) = {}
      BY DEF Holds
    <2>. QED BY <2>1 DEF MigrationInvariant, PodsOwned
  <1>. QED BY <1>1, MigrationsAccountedFor, PTL

-----------------------------------------------------------------------------
(* The Modules under the goroutines' hands. *)

InFlight(m) == Names(objs[m])

\* The phases the outline of the module controller writes over each phase.
Follows(p, q) ==
    \/ p = "gone" /\ q = ""
    \/ p = "" /\ q = "installing"
    \/ p \in {"installing", "resuming"} /\ q = "ready"
    \/ p = "sleeping" /\ q = "sleeped"
    \/ p \in {"installing", "sleeping", "resuming"} /\ q = "failed"
    \/ p = "ready" /\ q = "sleeping"
    \/ p = "sleeped" /\ q = "resuming"
    \/ p \in {"ready", "sleeped", "failed"} /\ q = "uninstalling"
    \/ p = "uninstalling" /\ q = "gone"

\* Where the server may be while the worker is at an operation.
Fits(operation, p) ==
    /\ operation = "install" => p \in {"", "installing"}
    /\ operation = "sleep" => p \in {"ready", "sleeping", "uninstalling"}
    /\ operation = "resume" => p \in {"sleeped", "resuming", "uninstalling"}

Operations == {"idle", "install", "sleep", "resume"}

ModulesTypeOK ==
    /\ objs \in [Modules -> Seq(Version)] /\ \A m \in Modules : Len(objs[m]) >= 1
    /\ busy \in [Modules -> Operations] /\ running \in [Modules -> BOOLEAN]
    /\ wanted \in [Sources -> BOOLEAN]
    /\ DOMAIN pc = Copies /\ mine \in [Copies -> [Roles -> Version]] /\ old \in [Copies -> BOOLEAN]

\* A status write is accepted on the newest version only, so that every copy is at most
\* one behind; and the phase tells whether the application runs.
ModuleInOrder(m) ==
    /\ \A v \in InFlight(m) : v.phase = Server(m).phase \/ Follows(v.phase, Server(m).phase)
    /\ Fits(busy[m], Server(m).phase)
    /\ Server(m).phase \in {"installing", "resuming"} => running[m]
    /\ Server(m).phase = "sleeped" => ~running[m]

\* The copy of a goroutine that has not made it.
NotMade(g) == pc[g] \in {<<"unstarted">>, <<"create">>} => objs[g] = <<NotFound>>

ModulesInvariant ==
    /\ ModulesTypeOK
    /\ \A m \in Modules : ModuleInOrder(m)
    /\ \A g \in Copies : NotMade(g)

-----------------------------------------------------------------------------
(* Putting Modules to sleep, and back. *)

\* Nobody asked the Module to sleep, and nothing is on its way there.
Awake(m) ==
    /\ \A v \in InFlight(m) :
         ~v.hibernated /\ v.phase \notin {"sleeping", "sleeped", "resuming", "uninstalling"}
    /\ busy[m] \notin {"sleep", "resume"}

\* It was asked to, and no copy is left from which the controller would wake it.
Lulled(m) ==
    /\ Server(m).hibernated
    /\ \A v \in InFlight(m) :
         (v.phase = "sleeped" => v.hibernated) /\ v.phase \notin {"resuming", "uninstalling"}
    /\ busy[m] # "resume"

Down(m) == Lulled(m) /\ Server(m).phase = "sleeped"

\* A source its goroutine has not touched.
Untouched(s) ==
    /\ \A v \in InFlight(s) : v.hibernated = wanted[s]
    /\ IF wanted[s] THEN Lulled(s) ELSE Awake(s)

Early == {<<"unstarted">>, <<"create">>, <<"await">>, <<"hibernate", "copy">>, <<"asleep", "copy">>,
          <<"hibernate", "source">>}

BothDown == Loops \cup {<<"restore", "source">>}

\* What holds of its Modules while a goroutine is at a label.
Held(g, at) ==
    LET s == From[g] IN
    /\ at \in {<<"await">>, <<"hibernate", "copy">>} => Awake(g) \/ Lulled(g)
    /\ at = <<"hibernate", "copy">> /\ mine[g]["copy"].hibernated => Lulled(g)
    /\ at = <<"asleep", "copy">> => Lulled(g)
    /\ at \in {<<"hibernate", "source">>, <<"asleep", "source">>} \cup BothDown => Down(g)
    /\ at \in Early => Untouched(s)
    /\ at \in Early \ {<<"unstarted">>} => mine[g]["source"].hibernated = wanted[s]
    /\ at # <<"unstarted">> => old[g] = wanted[s]
    /\ at = <<"asleep", "source">> => Lulled(s)
    /\ at \in BothDown => Down(s) /\ mine[g]["source"].hibernated
    /\ at \in {<<"restore", "copy">>, <<"done">>} =>
         Server(s).hibernated = wanted[s] \/ Server(s).phase = "failed"

Labels == Early \cup BothDown \cup {<<"asleep", "source">>, <<"restore", "copy">>, <<"done">>}

\* A source is served, or there is none of this name to fork.
SourceServed(s) == \A v \in InFlight(s) : v.phase \notin {"uninstalling", "gone"}
Missing(s) ==
    objs[s] = <<NotFound>> /\ \A g \in Copies : From[g] = s => pc[g] = <<"unstarted">>

ForkInvariant ==
    mishaps = 0 =>
         /\ \A s \in Sources : SourceServed(s) \/ Missing(s)
         /\ \A s \in Sources : (\A g \in Copies : From[g] # s) => Server(s).hibernated = wanted[s]
         /\ \A g \in Copies : pc[g] \in Labels /\ Held(g, pc[g])

\* Every source is forked once, and none waits to be woken at the start.
OneForkEach ==
    /\ \A g, h \in Copies : From[g] = From[h] => g = h
    /\ \A st \in Settings : \A s \in Sources : st.sources[s] # SourceWakes

-----------------------------------------------------------------------------
(* Versions, and what a step does to the ones of a Module. *)

LEMMA FirstAndLast ==
    ASSUME NEW T, NEW q \in Seq(T), Len(q) >= 1
    PROVE  /\ Names(q) \subseteq T /\ q[1] \in Names(q) /\ q[Len(q)] \in Names(q)
           /\ Len(q) = 1 => Names(q) = {q[1]} /\ q[Len(q)] = q[1]
  <1>1. Len(q) \in Nat /\ DOMAIN q = 1 .. Len(q)
    OBVIOUS
  <1>2. \A i \in DOMAIN q : q[i] \in T
    OBVIOUS
  <1>3. 1 \in DOMAIN q /\ Len(q) \in DOMAIN q
    BY <1>1
  <1>4. Len(q) = 1 => DOMAIN q = {1}
    BY <1>1
  <1>. QED BY <1>2, <1>3, <1>4 DEF Names

LEMMA Appended ==
    ASSUME NEW T, NEW q \in Seq(T), Len(q) >= 1, NEW v \in T
    PROVE  /\ Append(q, v) \in Seq(T) /\ Len(Append(q, v)) >= 1
           /\ Names(Append(q, v)) = Names(q) \cup {v}
           /\ Append(q, v)[1] = q[1] /\ Append(q, v)[Len(Append(q, v))] = v
  <1>1. /\ Len(q) \in Nat /\ DOMAIN q = 1 .. Len(q)
        /\ Append(q, v) \in Seq(T) /\ Len(Append(q, v)) = Len(q) + 1
        /\ DOMAIN Append(q, v) = 1 .. Len(q) + 1
        /\ \A i \in 1 .. Len(q) : Append(q, v)[i] = q[i]
        /\ Append(q, v)[Len(q) + 1] = v
    OBVIOUS
  <1>2. 1 .. Len(q) + 1 = (1 .. Len(q)) \cup {Len(q) + 1} /\ 1 \in 1 .. Len(q)
    BY <1>1
  <1>3. ASSUME NEW x \in Names(Append(q, v)) PROVE x \in Names(q) \cup {v}
    <2>1. PICK i \in 1 .. Len(q) + 1 : x = Append(q, v)[i]
      BY <1>1, <1>3 DEF Names
    <2>. QED BY <1>1, <1>2, <2>1 DEF Names
  <1>4. ASSUME NEW x \in Names(q) \cup {v} PROVE x \in Names(Append(q, v))
    <2>1. CASE x = v
      <3>1. Len(q) + 1 \in DOMAIN Append(q, v)
        BY <1>1
      <3>. QED BY <1>1, <2>1, <3>1 DEF Names
    <2>2. CASE x \in Names(q)
      <3>1. PICK i \in 1 .. Len(q) : x = q[i]
        BY <1>1, <2>2 DEF Names
      <3>. QED BY <1>1, <1>2, <3>1 DEF Names
    <2>. QED BY <1>4, <2>1, <2>2
  <1>. QED BY <1>1, <1>2, <1>3, <1>4

LEMMA Superseded ==
    ASSUME NEW T, NEW q \in Seq(T), Len(q) > 1
    PROVE  /\ Tail(q) \in Seq(T) /\ Len(Tail(q)) >= 1
           /\ Names(Tail(q)) \subseteq Names(q)
           /\ Tail(q)[Len(Tail(q))] = q[Len(q)]
  <1>1. q # <<>> /\ Len(q) \in Nat
    OBVIOUS
  <1>2. /\ Tail(q) \in Seq(T) /\ Len(Tail(q)) = Len(q) - 1
        /\ \A i \in 1 .. Len(q) - 1 : Tail(q)[i] = q[i + 1]
    BY <1>1
  <1>3. Names(Tail(q)) \subseteq Names(q)
    BY <1>1, NamesOfTail
  <1>. QED BY <1>1, <1>2, <1>3

Resting(m) == objs'[m] = objs[m] /\ running'[m] = running[m]
Kept(m) == Resting(m) /\ busy'[m] = busy[m]

\* The worker takes up an operation, or leaves one.
Decided(m) ==
    /\ Resting(m)
    /\ busy'[m] = "idle" \/ (busy[m] = "idle" /\ busy'[m] = Due(Cached(m)))

Delivered(m) ==
    /\ Len(objs[m]) > 1 /\ objs'[m] = Tail(objs[m])
    /\ busy'[m] = busy[m] /\ running'[m] = running[m]

Patched(m, value) ==
    /\ Server(m).phase # "gone"
    /\ objs'[m] = Append(objs[m], [Server(m) EXCEPT !.hibernated = value])
    /\ busy'[m] = busy[m] /\ running'[m] = running[m]

\* A status write of the worker: it begins an operation, ends one, or gives up one nobody
\* is at,
Worked(m, p) ==
    /\ Len(objs[m]) = 1 /\ objs'[m] = Append(objs[m], [Server(m) EXCEPT !.phase = p])
    /\ \/ /\ busy[m] # "idle" /\ busy'[m] = busy[m] /\ p = Begins[busy[m]]
          /\ Server(m).phase \notin {Begins[busy[m]], "uninstalling", "gone"}
          /\ running'[m] = (running[m] \/ busy[m] # "sleep")
       \/ /\ busy[m] # "idle" /\ busy'[m] = "idle" /\ Server(m).phase = Begins[busy[m]]
          /\ \/ p = Ends[busy[m]] /\ running'[m] = (busy[m] # "sleep")
             \/ p = "failed" /\ busy[m] = "install" /\ running'[m] = running[m]
       \/ /\ busy[m] = "idle" /\ busy'[m] = "idle" /\ Server(m).phase \in Transitional
          /\ p = "failed" /\ running'[m] = running[m]

\* ... or of a deletion.
Removed(m, p) ==
    /\ Len(objs[m]) = 1 /\ objs'[m] = Append(objs[m], [Server(m) EXCEPT !.phase = p])
    /\ busy[m] = "idle" /\ busy'[m] = "idle"
    /\ \/ Server(m).phase = "uninstalling" /\ p = "gone" /\ running'[m] = FALSE
       \/ Server(m).phase \in {"ready", "sleeped", "failed"} /\ p = "uninstalling" /\ running'[m] = running[m]

Made(g) ==
    /\ objs[g] = <<NotFound>>
    /\ \E h \in BOOLEAN : objs'[g] = Append(objs[g], [phase |-> "", hibernated |-> h])
    /\ busy'[g] = busy[g] /\ running'[g] = running[g]

ModuleStep(m) ==
    \/ Kept(m) \/ Decided(m) \/ Delivered(m) \/ Made(m)
    \/ \E value \in BOOLEAN : Patched(m, value)
    \/ \E p \in Phase : Worked(m, p) \/ Removed(m, p)

LEMMA OperationTable ==
    /\ Begins["install"] = "installing" /\ Begins["sleep"] = "sleeping" /\ Begins["resume"] = "resuming"
    /\ Ends["install"] = "ready" /\ Ends["sleep"] = "sleeped" /\ Ends["resume"] = "ready"
    /\ \A v \in Version : Due(v) \in Operations
  BY DEF Begins, Ends, Due, Operations

LEMMA FollowsContract ==
    ASSUME NEW m, NEW p, NEW q, Follows(p, q)
    PROVE  q \in Life(m)!After(p)
  BY DEF Follows, Life!After

\* A version after a write.
LEMMA VersionWritten ==
    ASSUME NEW w \in Version, NEW p \in Phase, NEW value \in BOOLEAN
    PROVE  /\ [w EXCEPT !.phase = p] \in Version /\ [w EXCEPT !.phase = p].phase = p
           /\ [w EXCEPT !.phase = p].hibernated = w.hibernated
           /\ [w EXCEPT !.hibernated = value] \in Version
           /\ [w EXCEPT !.hibernated = value].phase = w.phase
           /\ [w EXCEPT !.hibernated = value].hibernated = value
  BY DEF Version

LEMMA WrittenOver ==
    ASSUME NEW m \in Modules, ModulesTypeOK, NEW v \in Version, objs'[m] = Append(objs[m], v)
    PROVE  /\ objs'[m] \in Seq(Version) /\ Len(objs'[m]) >= 1
           /\ Server(m)' = v /\ InFlight(m)' = InFlight(m) \cup {v} /\ Cached(m)' = Cached(m)
  BY Appended DEF ModulesTypeOK, Server, InFlight, Cached

LEMMA VersionsOf ==
    ASSUME NEW m \in Modules, ModulesTypeOK
    PROVE  /\ InFlight(m) \subseteq Version /\ Server(m) \in InFlight(m) /\ Cached(m) \in InFlight(m)
           /\ Server(m) \in Version /\ Cached(m) \in Version
           /\ Len(objs[m]) = 1 => InFlight(m) = {Server(m)}
           /\ busy[m] \in Operations /\ running[m] \in BOOLEAN
  BY FirstAndLast DEF ModulesTypeOK, Server, InFlight, Cached

LEMMA NotMadeYet ==
    ASSUME NEW m \in Modules, ModulesTypeOK, objs[m] = <<NotFound>>
    PROVE  /\ Server(m) = NotFound /\ Cached(m) = NotFound /\ InFlight(m) = {NotFound}
           /\ Len(objs[m]) = 1 /\ NotFound.phase = "gone" /\ ~NotFound.hibernated
  <1>1. Len(objs[m]) = 1 /\ objs[m][1] = NotFound
    BY <<NotFound>>[1] = NotFound
  <1>2. NotFound.phase = "gone" /\ ~NotFound.hibernated
    BY DEF NotFound
  <1>. QED BY <1>1, <1>2, VersionsOf DEF Server, Cached

\* What a step does to the type of a Module's state, to its order and to its contract.
ModuleTyped(m) ==
    objs[m] \in Seq(Version) /\ Len(objs[m]) >= 1 /\ busy[m] \in Operations /\ running[m] \in BOOLEAN

ContractStep(m) == Life(m)!LifeNext \/ UNCHANGED Life(m)!life

LEMMA LifeStep ==
    ASSUME NEW m \in Modules, NEW m1 \in BOOLEAN, NEW m2 \in BOOLEAN,
           running[m] = m1, running'[m] = m2,
           Server(m)'.phase = Server(m).phase \/ Follows(Server(m).phase, Server(m)'.phase),
           Server(m)'.phase = "sleeped" => ~m2,
           \/ m1 = m2
           \/ m2 /\ Server(m)'.phase \in {"installing", "resuming"}
           \/ ~m2 /\ Server(m)'.phase \in {"sleeped", "gone"}
    PROVE  ContractStep(m)
  <1>1. Server(m)'.phase = Server(m).phase \/ Server(m)'.phase \in Life(m)!After(Server(m).phase)
    BY FollowsContract
  <1>2. UNCHANGED running[m] \/ Life(m)!Starts \/ Life(m)!Stops
    <2>1. CASE m1 = m2
      BY <2>1
    <2>2. CASE m2 /\ ~m1
      BY <2>2 DEF Life!Starts
    <2>3. CASE m1 /\ ~m2
      BY <2>3 DEF Life!Stops
    <2>. QED BY <2>1, <2>2, <2>3
  <1>. QED BY <1>1, <1>2 DEF ContractStep, Life!LifeNext, Life!PhaseStep

\* The same for a write over the newest version, and only one.
LEMMA PhaseWritten ==
    ASSUME NEW m \in Modules, ModulesTypeOK, ModuleInOrder(m), NEW p \in Phase,
           Len(objs[m]) = 1, objs'[m] = Append(objs[m], [Server(m) EXCEPT !.phase = p]),
           Follows(Server(m).phase, p)
    PROVE  /\ objs'[m] \in Seq(Version) /\ Len(objs'[m]) >= 1
           /\ Server(m)'.phase = p /\ Server(m)'.hibernated = Server(m).hibernated
           /\ InFlight(m)' = {Server(m), Server(m)'}
           /\ \A v \in InFlight(m)' : v.phase = Server(m)'.phase \/ Follows(v.phase, Server(m)'.phase)
  <1>. DEFINE v == [Server(m) EXCEPT !.phase = p]
  <1>1. v \in Version /\ v.phase = p /\ v.hibernated = Server(m).hibernated
    BY VersionsOf DEF Version
  <1>2. /\ objs'[m] \in Seq(Version) /\ Len(objs'[m]) >= 1
        /\ Server(m)' = v /\ InFlight(m)' = InFlight(m) \cup {v}
    BY <1>1, WrittenOver
  <1>3. InFlight(m) = {Server(m)}
    BY VersionsOf
  <1>. HIDE DEF v
  <1>. QED BY <1>1, <1>2, <1>3

LEMMA StepInOrder ==
    ASSUME NEW m \in Modules, ModulesTypeOK, ModuleInOrder(m), ModuleStep(m)
    PROVE  ModuleTyped(m)' /\ ModuleInOrder(m)' /\ ContractStep(m)
  <1>1. /\ objs[m] \in Seq(Version) /\ Len(objs[m]) >= 1
        /\ InFlight(m) \subseteq Version /\ Server(m) \in InFlight(m) /\ Cached(m) \in InFlight(m)
        /\ Server(m) \in Version /\ Cached(m) \in Version
        /\ busy[m] \in Operations /\ running[m] \in BOOLEAN
    BY VersionsOf DEF ModulesTypeOK
  <1>2. CASE Kept(m)
    <2>1. Server(m)' = Server(m) /\ InFlight(m)' = InFlight(m)
      BY <1>2 DEF Kept, Resting, Server, InFlight
    <2>2. ModuleInOrder(m)' /\ ModuleTyped(m)'
      BY <1>1, <1>2, <2>1 DEF ModuleInOrder, ModuleTyped, Kept, Resting
    <2>3. ContractStep(m)
      BY <1>1, <1>2, <2>1, LifeStep DEF ModuleInOrder, Kept, Resting
    <2>. QED BY <2>2, <2>3
  <1>3. CASE Decided(m)
    <2>1. Server(m)' = Server(m) /\ InFlight(m)' = InFlight(m)
      BY <1>3 DEF Decided, Resting, Server, InFlight
    <2>2. busy'[m] \in Operations
      BY <1>1, <1>3, OperationTable DEF Decided, Operations
    <2>3. Fits(busy'[m], Server(m).phase)
      <3>1. CASE busy'[m] = "idle"
        BY <3>1 DEF Fits
      <3>2. CASE busy'[m] = Due(Cached(m)) /\ busy'[m] # "idle"
        <4>1. Cached(m).phase = Server(m).phase \/ Follows(Cached(m).phase, Server(m).phase)
          BY <1>1 DEF ModuleInOrder
        <4>. QED BY <3>2, <4>1 DEF Due, Fits, Follows
      <3>. QED BY <1>3, <3>1, <3>2 DEF Decided
    <2>4. ModuleInOrder(m)' /\ ModuleTyped(m)'
      BY <1>1, <1>3, <2>1, <2>2, <2>3 DEF ModuleInOrder, ModuleTyped, Decided, Resting
    <2>5. ContractStep(m)
      BY <1>1, <1>3, <2>1, LifeStep DEF ModuleInOrder, Decided, Resting
    <2>. QED BY <2>4, <2>5
  <1>4. CASE Delivered(m)
    <2>1. /\ objs'[m] \in Seq(Version) /\ Len(objs'[m]) >= 1
          /\ Server(m)' = Server(m) /\ InFlight(m)' \subseteq InFlight(m)
      BY <1>1, <1>4, Superseded DEF Delivered, Server, InFlight
    <2>2. ModuleInOrder(m)' /\ ModuleTyped(m)'
      BY <1>1, <1>4, <2>1 DEF ModuleInOrder, ModuleTyped, Delivered
    <2>3. ContractStep(m)
      BY <1>1, <1>4, <2>1, LifeStep DEF ModuleInOrder, Delivered
    <2>. QED BY <2>2, <2>3
  <1>5. ASSUME NEW value \in BOOLEAN, Patched(m, value)
        PROVE  ModuleTyped(m)' /\ ModuleInOrder(m)' /\ ContractStep(m)
    <2>. DEFINE v == [Server(m) EXCEPT !.hibernated = value]
    <2>1. v \in Version /\ v.phase = Server(m).phase
      BY <1>1, VersionWritten DEF Phase, Version
    <2>2. /\ objs'[m] \in Seq(Version) /\ Len(objs'[m]) >= 1
          /\ Server(m)' = v /\ InFlight(m)' = InFlight(m) \cup {v}
      BY <1>5, <2>1, WrittenOver DEF Patched
    <2>. HIDE DEF v
    <2>3. ModuleInOrder(m)' /\ ModuleTyped(m)'
      BY <1>1, <1>5, <2>1, <2>2 DEF ModuleInOrder, ModuleTyped, Patched
    <2>4. ContractStep(m)
      BY <1>1, <1>5, <2>1, <2>2, LifeStep DEF ModuleInOrder, Patched
    <2>. QED BY <2>3, <2>4
  <1>6. CASE Made(m)
    <2>1. PICK h \in BOOLEAN : objs'[m] = Append(objs[m], [phase |-> "", hibernated |-> h])
      BY <1>6 DEF Made
    <2>. DEFINE v == [phase |-> "", hibernated |-> h]
    <2>2. v \in Version /\ v.phase = ""
      BY DEF Version, Phase
    <2>3. /\ objs'[m] \in Seq(Version) /\ Len(objs'[m]) >= 1
          /\ Server(m)' = v /\ InFlight(m)' = InFlight(m) \cup {v}
      BY <2>1, <2>2, WrittenOver
    <2>4. Server(m).phase = "gone" /\ InFlight(m) = {Server(m)}
      BY <1>6, NotMadeYet DEF Made
    <2>. HIDE DEF v
    <2>5. ModuleInOrder(m)' /\ ModuleTyped(m)'
      BY <1>1, <1>6, <2>2, <2>3, <2>4 DEF ModuleInOrder, ModuleTyped, Made, Follows, Fits, Operations
    <2>6. ContractStep(m)
      BY <1>1, <1>6, <2>2, <2>3, <2>4, LifeStep DEF Made, Follows
    <2>. QED BY <2>5, <2>6
  <1>7. ASSUME NEW p \in Phase, Worked(m, p)
        PROVE  ModuleTyped(m)' /\ ModuleInOrder(m)' /\ ContractStep(m)
    <2>1. Follows(Server(m).phase, p)
      BY <1>1, <1>7, OperationTable DEF Worked, ModuleInOrder, Fits, Follows, Operations, Transitional
    <2>2. /\ objs'[m] \in Seq(Version) /\ Len(objs'[m]) >= 1 /\ Server(m)'.phase = p
          /\ \A v \in InFlight(m)' : v.phase = Server(m)'.phase \/ Follows(v.phase, Server(m)'.phase)
      BY <1>7, <2>1, PhaseWritten DEF Worked
    <2>3. busy'[m] \in Operations /\ running'[m] \in BOOLEAN
      BY <1>1, <1>7 DEF Worked, Operations
    <2>4. Fits(busy'[m], p)
      BY <1>1, <1>7, OperationTable DEF Worked, Fits, Operations
    <2>5. /\ p \in {"installing", "resuming"} => running'[m]
          /\ p = "sleeped" => ~running'[m]
      BY <1>1, <1>7, OperationTable DEF Worked, Operations
    <2>6. \/ running[m] = running'[m]
          \/ running'[m] /\ p \in {"installing", "resuming"}
          \/ ~running'[m] /\ p \in {"sleeped", "gone"}
      BY <1>1, <1>7, OperationTable DEF Worked, Operations, ModuleInOrder
    <2>7. ModuleInOrder(m)' /\ ModuleTyped(m)'
      BY <2>2, <2>3, <2>4, <2>5 DEF ModuleInOrder, ModuleTyped
    <2>8. ContractStep(m)
      BY <1>1, <2>1, <2>2, <2>3, <2>5, <2>6, LifeStep
    <2>. QED BY <2>7, <2>8
  <1>8. ASSUME NEW p \in Phase, Removed(m, p)
        PROVE  ModuleTyped(m)' /\ ModuleInOrder(m)' /\ ContractStep(m)
    <2>1. Follows(Server(m).phase, p) /\ p \in {"uninstalling", "gone"}
      BY <1>8 DEF Removed, Follows
    <2>2. /\ objs'[m] \in Seq(Version) /\ Len(objs'[m]) >= 1 /\ Server(m)'.phase = p
          /\ \A v \in InFlight(m)' : v.phase = Server(m)'.phase \/ Follows(v.phase, Server(m)'.phase)
      BY <1>8, <2>1, PhaseWritten DEF Removed
    <2>3. busy'[m] = "idle" /\ running'[m] \in BOOLEAN /\ (running'[m] = running[m] \/ (~running'[m] /\ p = "gone"))
      BY <1>1, <1>8 DEF Removed
    <2>4. ModuleInOrder(m)' /\ ModuleTyped(m)'
      BY <2>1, <2>2, <2>3 DEF ModuleInOrder, ModuleTyped, Fits, Operations
    <2>5. ContractStep(m)
      BY <1>1, <2>1, <2>2, <2>3, LifeStep
    <2>. QED BY <2>4, <2>5
  <1>. QED BY <1>2, <1>3, <1>4, <1>5, <1>6, <1>7, <1>8 DEF ModuleStep

-----------------------------------------------------------------------------
(* Who does what to a Module. *)

LEMMA NothingServed ==
    ASSUME ModulesTypeOK, NEW n \in Modules
    PROVE  /\ busy = [busy EXCEPT ![n] = busy[n]] /\ running = [running EXCEPT ![n] = running[n]]
           /\ objs = [objs EXCEPT ![n] = objs[n]]
  BY DEF ModulesTypeOK

\* The module controller and the watch of one Module, without deletions.
Minded(m) == Kept(m) \/ Decided(m) \/ Delivered(m) \/ \E p \in Phase : Worked(m, p)

LEMMA ControllerStep ==
    ASSUME ModulesTypeOK, NEW n \in Modules, Controller(n)
    PROVE  /\ \A m \in Modules : m # n => Kept(m)
           /\ \/ Minded(n)
              \/ Server(n).phase = "uninstalling" /\ \E p \in Phase : Removed(n, p)
           /\ UNCHANGED <<wanted, goroutine, mishaps>>
  <1>1. UNCHANGED <<wanted, goroutine, mishaps>>
    BY DEF Controller, decide, begin, finish, expire, uninstall
  <1>2. /\ objs \in [Modules -> Seq(Version)] /\ busy \in [Modules -> Operations]
        /\ running \in [Modules -> BOOLEAN]
    BY DEF ModulesTypeOK
  <1>3. CASE decide(n)
    <2>1. /\ busy' = [busy EXCEPT ![n] = Due(Cached(n))] /\ running' = [running EXCEPT ![n] = running[n]]
          /\ objs' = [objs EXCEPT ![n] = objs[n]] /\ busy[n] = "idle"
      BY <1>3, NothingServed DEF decide
    <2>2. Decided(n) /\ \A m \in Modules : m # n => Kept(m)
      BY <2>1, <1>2 DEF Decided, Kept, Resting
    <2>. QED BY <1>1, <2>2 DEF Minded
  <1>4. CASE begin(n)
    <2>1. CASE Server(n).phase \in {"uninstalling", "gone"}
      <3>1. /\ busy' = [busy EXCEPT ![n] = "idle"] /\ running' = [running EXCEPT ![n] = running[n]]
            /\ objs' = [objs EXCEPT ![n] = objs[n]]
        BY <1>4, <2>1, NothingServed DEF begin
      <3>2. Decided(n) /\ \A m \in Modules : m # n => Kept(m)
        BY <3>1, <1>2 DEF Decided, Kept, Resting
      <3>. QED BY <1>1, <3>2 DEF Minded
    <2>2. CASE Server(n).phase \notin {"uninstalling", "gone"}
      <3>. DEFINE p == Begins[busy[n]]
      <3>1. /\ busy' = [busy EXCEPT ![n] = busy[n]]
            /\ running' = [running EXCEPT ![n] = running[n] \/ busy[n] # "sleep"]
            /\ objs' = [objs EXCEPT ![n] = Append(objs[n], [Server(n) EXCEPT !.phase = p])]
            /\ Len(objs[n]) = 1 /\ busy[n] # "idle" /\ Server(n).phase # p
        BY <1>4, <2>2, NothingServed DEF begin, WritePhase
      <3>2. p \in Phase
        BY <1>2, <3>1, OperationTable DEF Operations, Phase
      <3>3. \A m \in Modules : m # n => Kept(m)
        BY <3>1, <1>2 DEF Kept, Resting
      <3>4. /\ busy'[n] = busy[n] /\ running'[n] = (running[n] \/ busy[n] # "sleep")
            /\ objs'[n] = Append(objs[n], [Server(n) EXCEPT !.phase = p])
        BY <3>1, <1>2
      <3>5. Worked(n, p)
        BY <2>2, <3>1, <3>4 DEF Worked
      <3>. QED BY <1>1, <3>2, <3>3, <3>5 DEF Minded
    <2>. QED BY <2>1, <2>2
  <1>5. CASE finish(n)
    <2>0. busy[n] # "idle" /\ Server(n).phase = Begins[busy[n]] /\ busy' = [busy EXCEPT ![n] = "idle"]
      BY <1>5 DEF finish
    <2>1. ASSUME WritePhase(n, Ends[busy[n]]), running' = [running EXCEPT ![n] = busy[n] # "sleep"]
          PROVE  Minded(n) /\ \A m \in Modules : m # n => Kept(m)
      <3>. DEFINE p == Ends[busy[n]]
      <3>1. p \in Phase
        BY <1>2, <2>0, OperationTable DEF Operations, Phase
      <3>2. /\ objs' = [objs EXCEPT ![n] = Append(objs[n], [Server(n) EXCEPT !.phase = p])]
            /\ Len(objs[n]) = 1
        BY <2>1 DEF WritePhase
      <3>3. \A m \in Modules : m # n => Kept(m)
        BY <2>0, <2>1, <3>2, <1>2 DEF Kept, Resting
      <3>4. /\ busy'[n] = "idle" /\ running'[n] = (busy[n] # "sleep")
            /\ objs'[n] = Append(objs[n], [Server(n) EXCEPT !.phase = p])
        BY <2>0, <2>1, <3>2, <1>2
      <3>5. Worked(n, p)
        BY <2>0, <3>2, <3>4 DEF Worked
      <3>. QED BY <3>1, <3>3, <3>5 DEF Minded
    <2>2. ASSUME busy[n] = "install", WritePhase(n, "failed"), UNCHANGED running
          PROVE  Minded(n) /\ \A m \in Modules : m # n => Kept(m)
      <3>1. /\ objs' = [objs EXCEPT ![n] = Append(objs[n], [Server(n) EXCEPT !.phase = "failed"])]
            /\ Len(objs[n]) = 1 /\ running' = [running EXCEPT ![n] = running[n]]
        BY <2>2, NothingServed DEF WritePhase
      <3>2. \A m \in Modules : m # n => Kept(m)
        BY <2>0, <3>1, <1>2 DEF Kept, Resting
      <3>3. /\ busy'[n] = "idle" /\ running'[n] = running[n]
            /\ objs'[n] = Append(objs[n], [Server(n) EXCEPT !.phase = "failed"])
        BY <2>0, <3>1, <1>2
      <3>4. Worked(n, "failed") /\ "failed" \in Phase
        BY <2>0, <2>2, <3>1, <3>3 DEF Worked, Phase
      <3>. QED BY <3>2, <3>4 DEF Minded
    <2>3. ASSUME UNCHANGED <<objs, running>>
          PROVE  Minded(n) /\ \A m \in Modules : m # n => Kept(m)
      <3>1. objs' = [objs EXCEPT ![n] = objs[n]] /\ running' = [running EXCEPT ![n] = running[n]]
        BY <2>3, NothingServed
      <3>2. Decided(n) /\ \A m \in Modules : m # n => Kept(m)
        BY <2>0, <3>1, <1>2 DEF Decided, Kept, Resting
      <3>. QED BY <3>2 DEF Minded
    <2>. QED BY <1>1, <1>5, <2>1, <2>2, <2>3 DEF finish
  <1>6. CASE expire(n)
    <2>1. /\ objs' = [objs EXCEPT ![n] = Append(objs[n], [Server(n) EXCEPT !.phase = "failed"])]
          /\ Len(objs[n]) = 1 /\ running' = [running EXCEPT ![n] = running[n]]
          /\ busy' = [busy EXCEPT ![n] = busy[n]] /\ busy[n] = "idle" /\ Server(n).phase \in Transitional
      BY <1>6, NothingServed DEF expire, WritePhase, controller
    <2>2. \A m \in Modules : m # n => Kept(m)
      BY <2>1, <1>2 DEF Kept, Resting
    <2>3. /\ busy'[n] = busy[n] /\ running'[n] = running[n]
          /\ objs'[n] = Append(objs[n], [Server(n) EXCEPT !.phase = "failed"])
      BY <2>1, <1>2
    <2>4. Worked(n, "failed") /\ "failed" \in Phase
      BY <2>1, <2>3 DEF Worked, Phase
    <2>. QED BY <1>1, <2>2, <2>4 DEF Minded
  <1>7. CASE uninstall(n)
    <2>1. /\ objs' = [objs EXCEPT ![n] = Append(objs[n], [Server(n) EXCEPT !.phase = "gone"])]
          /\ Len(objs[n]) = 1 /\ running' = [running EXCEPT ![n] = FALSE]
          /\ busy' = [busy EXCEPT ![n] = busy[n]] /\ busy[n] = "idle" /\ Server(n).phase = "uninstalling"
      BY <1>7, NothingServed DEF uninstall, WritePhase
    <2>2. \A m \in Modules : m # n => Kept(m)
      BY <2>1, <1>2 DEF Kept, Resting
    <2>3. /\ busy'[n] = busy[n] /\ running'[n] = FALSE
          /\ objs'[n] = Append(objs[n], [Server(n) EXCEPT !.phase = "gone"])
      BY <2>1, <1>2
    <2>4. Removed(n, "gone") /\ "gone" \in Phase
      BY <2>1, <2>3 DEF Removed, Phase
    <2>. QED BY <1>1, <2>1, <2>2, <2>4
  <1>. QED BY <1>3, <1>4, <1>5, <1>6, <1>7 DEF Controller

\* The steps of a goroutine that do not look at Modules.
Inside(g) ==
    \/ migratePVC(g) \/ createDestPod(g) \/ waitForPodReady(g) \/ migrateDataViaTar(g)
    \/ \E role \in Roles : cleanupPod(g, role)
    \/ \E stage \in {"secrets", "configMaps"} : migrateObject(g, stage) \/ recreateObject(g, stage)
    \/ nextStage(g)

LEMMA InsideStep ==
    ASSUME NEW g \in Copies, DOMAIN pc = Copies, Inside(g)
    PROVE  /\ UNCHANGED <<objs, controller, wanted, mine, old>>
           /\ DOMAIN pc' = Copies /\ \A h \in Copies : h # g => pc'[h] = pc[h]
           /\ pc[g] \in Loops /\ pc'[g] \in Loops \cup {<<"restore", "source">>}
  <1>1. UNCHANGED <<objs, controller, wanted, mine, old>>
    BY DEF Inside, migratePVC, createDestPod, waitForPodReady, migrateDataViaTar, cleanupPod,
       migrateObject, recreateObject, nextStage
  <1>2. DOMAIN pc' = Copies /\ \A h \in Copies : h # g => pc'[h] = pc[h]
    BY DEF Inside, migratePVC, createDestPod, waitForPodReady, migrateDataViaTar, cleanupPod,
       migrateObject, recreateObject, nextStage, Enter, GoTo
  <1>3. CASE migratePVC(g) \/ createDestPod(g) \/ waitForPodReady(g) \/ migrateDataViaTar(g)
    BY <1>3, LoopTable DEF Loops, migratePVC, createDestPod, waitForPodReady, migrateDataViaTar, GoTo
  <1>4. CASE \E role \in Roles : cleanupPod(g, role)
    BY <1>4, LoopTable DEF Loops, cleanupPod, GoTo, Roles
  <1>5. CASE \E stage \in {"secrets", "configMaps"} : migrateObject(g, stage) \/ recreateObject(g, stage)
    BY <1>5, LoopTable DEF Loops, migrateObject, recreateObject, GoTo
  <1>6. CASE nextStage(g)
    BY <1>6, LoopTable DEF Loops, nextStage, Enter, GoTo
  <1>. QED BY <1>1, <1>2, <1>3, <1>4, <1>5, <1>6 DEF Inside

LEMMA GoroutineCases ==
    ASSUME NEW g \in Copies, Goroutine(g)
    PROVE  \/ create(g) \/ awaitCopy(g) \/ Inside(g)
           \/ \E role \in Roles : hibernateModule(g, role) \/ awaitSleep(g, role) \/ restore(g, role)
  BY DEF Goroutine, Inside

LEMMA GoroutineStarted ==
    ASSUME DOMAIN pc = Copies, NEW g \in Copies, Goroutine(g)
    PROVE  pc[g] # <<"unstarted">>
  <1>1. CASE create(g) \/ awaitCopy(g)
    <2>1. pc[g] \in {<<"create">>, <<"await">>}
      BY <1>1 DEF create, awaitCopy
    <2>. QED BY <2>1
  <1>2. CASE Inside(g)
    BY <1>2, InsideStep, LoopTable DEF Loops
  <1>3. ASSUME NEW role \in Roles, hibernateModule(g, role) \/ awaitSleep(g, role) \/ restore(g, role)
        PROVE  pc[g] # <<"unstarted">>
    <2>1. pc[g] \in {<<"hibernate", role>>, <<"asleep", role>>, <<"restore", role>>}
      BY <1>3 DEF hibernateModule, awaitSleep, restore
    <2>. QED BY <2>1
  <1>. QED BY <1>1, <1>2, <1>3, GoroutineCases

\* A merge patch, or what comes instead.
LEMMA PatchStep ==
    ASSUME ModulesTypeOK, NEW n \in Modules, NEW value \in BOOLEAN, UNCHANGED controller,
           Patch(n, value)
    PROVE  Patched(n, value) /\ \A m \in Modules : m # n => Kept(m)
  <1>1. /\ objs' = [objs EXCEPT ![n] = Append(objs[n], [Server(n) EXCEPT !.hibernated = value])]
        /\ Server(n).phase # "gone" /\ UNCHANGED <<busy, running>>
    BY DEF Patch, controller
  <1>2. objs \in [Modules -> Seq(Version)]
    BY DEF ModulesTypeOK
  <1>3. objs'[n] = Append(objs[n], [Server(n) EXCEPT !.hibernated = value])
    BY <1>1, <1>2
  <1>4. \A m \in Modules : m # n => objs'[m] = objs[m]
    BY <1>1, <1>2
  <1>. QED BY <1>1, <1>3, <1>4 DEF Patched, Kept, Resting

LEMMA AllKept == UNCHANGED <<objs, controller>> => \A m \in Modules : Kept(m)
  BY DEF controller, Kept, Resting

LEMMA RolesOf ==
    ASSUME NEW g \in Copies
    PROVE  /\ g \in Modules /\ From[g] \in Sources /\ From[g] \in Modules /\ From[g] # g
           /\ ModuleOf(g, "copy") = g /\ ModuleOf(g, "source") = From[g]
           /\ \A role \in Roles : ModuleOf(g, role) \in Modules
  BY ConstantsAssumption DEF Modules, ModuleOf, Roles

LEMMA CreateStep ==
    ASSUME ModulesTypeOK, NEW g \in Copies, create(g), objs[g] = <<NotFound>>
    PROVE  /\ UNCHANGED <<controller, wanted, old>> /\ pc[g] = <<"create">>
           /\ \A h \in Copies : h # g => pc'[h] = pc[h] /\ mine'[h] = mine[h]
           /\ DOMAIN pc' = Copies /\ mine' \in [Copies -> [Roles -> Version]]
           /\ \A m \in Modules : m # g => Kept(m)
           /\ pc'[g] \in {<<"await">>, <<"done">>} /\ mine'[g]["source"] = mine[g]["source"]
           /\ \/ Kept(g)
              \/ /\ Made(g) /\ mine'[g]["source"] = mine[g]["source"]
                 /\ Server(g)'.phase = "" /\ Server(g)'.hibernated = mine[g]["source"].hibernated
                 /\ InFlight(g)' = {NotFound, Server(g)'}
  <1>1. /\ UNCHANGED <<controller, wanted, old>> /\ pc[g] = <<"create">> /\ DOMAIN pc = Copies
        /\ mine \in [Copies -> [Roles -> Version]] /\ objs \in [Modules -> Seq(Version)]
    BY DEF create, ModulesTypeOK
  <1>2. /\ DOMAIN pc' = Copies /\ \A h \in Copies : h # g => pc'[h] = pc[h]
    BY <1>1 DEF create, GoTo
  <1>3. mine[g]["source"].hibernated \in BOOLEAN
    BY <1>1 DEF Version, Roles
  <1>4. g \in Modules
    BY RolesOf
  <1>a. pc'[g] \in {<<"await">>, <<"done">>}
    BY <1>1 DEF create, GoTo
  <1>5. CASE UNCHANGED <<objs, mine>>
    BY <1>1, <1>2, <1>4, <1>5, <1>a, AllKept
  <1>6. ASSUME NEW new, new = [phase |-> "", hibernated |-> mine[g]["source"].hibernated],
               objs' = [objs EXCEPT ![g] = Append(objs[g], new)],
               mine' = [mine EXCEPT ![g]["copy"] = new]
        PROVE  /\ mine' \in [Copies -> [Roles -> Version]]
               /\ \A h \in Copies : h # g => mine'[h] = mine[h]
               /\ \A m \in Modules : m # g => Kept(m)
               /\ Made(g) /\ mine'[g]["source"] = mine[g]["source"]
               /\ Server(g)'.phase = "" /\ Server(g)'.hibernated = mine[g]["source"].hibernated
               /\ InFlight(g)' = {NotFound, Server(g)'}
    <2>1. new \in Version
      BY <1>3, <1>6 DEF Version, Phase
    <2>2. /\ mine' \in [Copies -> [Roles -> Version]] /\ \A h \in Copies : h # g => mine'[h] = mine[h]
          /\ mine'[g]["source"] = mine[g]["source"]
      BY <1>1, <1>6, <2>1 DEF Roles
    <2>3. objs'[g] = Append(objs[g], new) /\ \A m \in Modules : m # g => objs'[m] = objs[m]
      BY <1>1, <1>4, <1>6
    <2>4. Server(g)' = new /\ InFlight(g)' = InFlight(g) \cup {new}
      BY <1>4, <2>1, <2>3, WrittenOver
    <2>5. InFlight(g) = {NotFound}
      BY <1>4, NotMadeYet
    <2>6. Made(g)
      BY <1>1, <1>3, <1>6, <2>3 DEF Made, controller
    <2>7. \A m \in Modules : m # g => Kept(m)
      BY <1>1, <2>3 DEF Kept, Resting, controller
    <2>8. new.phase = "" /\ new.hibernated = mine[g]["source"].hibernated
      BY <1>6
    <2>. QED BY <2>2, <2>4, <2>5, <2>6, <2>7, <2>8
  <1>. QED BY <1>1, <1>2, <1>5, <1>6, <1>a DEF create

LEMMA AwaitCopyStep ==
    ASSUME ModulesTypeOK, NEW g \in Copies, awaitCopy(g)
    PROVE  /\ UNCHANGED <<objs, controller, wanted, old>> /\ pc[g] = <<"await">>
           /\ \A h \in Copies : h # g => pc'[h] = pc[h] /\ mine'[h] = mine[h]
           /\ DOMAIN pc' = Copies /\ mine' \in [Copies -> [Roles -> Version]]
           /\ \/ pc'[g] = <<"done">>
              \/ /\ pc'[g] = <<"hibernate", "copy">>
                 /\ mine'[g]["copy"] = Cached(g) /\ mine'[g]["source"] = mine[g]["source"]
  <1>1. /\ UNCHANGED <<objs, controller, wanted, old>> /\ pc[g] = <<"await">> /\ DOMAIN pc = Copies
        /\ mine \in [Copies -> [Roles -> Version]]
    BY DEF awaitCopy, ModulesTypeOK
  <1>2. Cached(g) \in Version
    BY RolesOf, VersionsOf
  <1>3. CASE mine' = [mine EXCEPT ![g]["copy"] = Cached(g)] /\ GoTo(g, <<"hibernate", "copy">>)
    BY <1>1, <1>2, <1>3 DEF GoTo, Roles
  <1>4. CASE UNCHANGED mine /\ GoTo(g, <<"done">>)
    BY <1>1, <1>4 DEF GoTo
  <1>. QED BY <1>3, <1>4 DEF awaitCopy

LEMMA HibernateStep ==
    ASSUME ModulesTypeOK, NEW g \in Copies, NEW role \in Roles, hibernateModule(g, role)
    PROVE  LET m == ModuleOf(g, role) IN
           /\ UNCHANGED <<controller, wanted, old>> /\ pc[g] = <<"hibernate", role>>
           /\ \A h \in Copies : h # g => pc'[h] = pc[h] /\ mine'[h] = mine[h]
           /\ DOMAIN pc' = Copies /\ mine' \in [Copies -> [Roles -> Version]]
           /\ \A n \in Modules : n # m => Kept(n)
           /\ \A other \in Roles : other # role => mine'[g][other] = mine[g][other]
           /\ \/ Kept(m) /\ mine[g][role].hibernated /\ pc'[g] = <<"asleep", role>> /\ mine'[g] = mine[g]
              \/ Patched(m, TRUE) /\ pc'[g] = <<"asleep", role>>
              \/ /\ Kept(m) /\ PatchFails(m) /\ mine'[g] = mine[g]
                 /\ pc'[g] = AfterError(role)
  <1>. DEFINE m == ModuleOf(g, role)
  <1>1. /\ UNCHANGED <<controller, wanted, old>> /\ pc[g] = <<"hibernate", role>> /\ DOMAIN pc = Copies
        /\ mine \in [Copies -> [Roles -> Version]]
    BY DEF hibernateModule, ModulesTypeOK
  <1>2. m \in Modules /\ Server(m) \in Version
    BY RolesOf, VersionsOf
  <1>3. CASE mine[g][role].hibernated /\ GoTo(g, <<"asleep", role>>) /\ UNCHANGED <<objs, mine, mishaps>>
    <2>1. \A n \in Modules : Kept(n)
      BY <1>1, <1>3, AllKept
    <2>. QED BY <1>1, <1>2, <1>3, <2>1 DEF GoTo
  <1>4. ASSUME Patch(m, TRUE), mine' = [mine EXCEPT ![g][role] = [Server(m) EXCEPT !.hibernated = TRUE]],
               GoTo(g, <<"asleep", role>>)
        PROVE  /\ \A h \in Copies : h # g => pc'[h] = pc[h] /\ mine'[h] = mine[h]
               /\ DOMAIN pc' = Copies /\ mine' \in [Copies -> [Roles -> Version]]
               /\ \A n \in Modules : n # m => Kept(n)
               /\ \A other \in Roles : other # role => mine'[g][other] = mine[g][other]
               /\ Patched(m, TRUE) /\ pc'[g] = <<"asleep", role>>
    <2>1. [Server(m) EXCEPT !.hibernated = TRUE] \in Version
      BY <1>2 DEF Version
    <2>2. mine' \in [Copies -> [Roles -> Version]] /\ \A h \in Copies : h # g => mine'[h] = mine[h]
      BY <1>1, <1>4, <2>1
    <2>3. \A other \in Roles : other # role => mine'[g][other] = mine[g][other]
      BY <1>1, <1>4
    <2>4. Patched(m, TRUE) /\ \A n \in Modules : n # m => Kept(n)
      BY <1>1, <1>2, <1>4, PatchStep
    <2>. QED BY <1>1, <1>4, <2>2, <2>3, <2>4 DEF GoTo
  <1>5. CASE PatchFails(m) /\ GoTo(g, AfterError(role)) /\ UNCHANGED mine
    <2>1. \A n \in Modules : Kept(n)
      BY <1>1, <1>5, AllKept DEF PatchFails
    <2>2. pc'[g] = AfterError(role) /\ DOMAIN pc' = Copies /\ \A h \in Copies : h # g => pc'[h] = pc[h]
      BY <1>1, <1>5 DEF GoTo
    <2>. QED BY <1>1, <1>2, <1>5, <2>1, <2>2
  <1>. QED BY <1>1, <1>3, <1>4, <1>5 DEF hibernateModule

LEMMA AwaitSleepStep ==
    ASSUME ModulesTypeOK, NEW g \in Copies, NEW role \in Roles, awaitSleep(g, role)
    PROVE  LET c == Cached(ModuleOf(g, role)) IN
           /\ UNCHANGED <<objs, controller, wanted, old>> /\ pc[g] = <<"asleep", role>>
           /\ \A h \in Copies : h # g => pc'[h] = pc[h] /\ mine'[h] = mine[h]
           /\ DOMAIN pc' = Copies /\ mine' \in [Copies -> [Roles -> Version]]
           /\ \/ /\ Asleep(c) /\ mine'[g][role] = c
                 /\ \A other \in Roles : other # role => mine'[g][other] = mine[g][other]
                 /\ role = "copy" => pc'[g] = <<"hibernate", "source">>
                 /\ role = "source" => pc'[g] \in {<<"pvcs">>, <<"restore", "source">>}
              \/ /\ pc'[g] = AfterError(role)
                 /\ c.phase \in {"uninstalling", "failed"} \/ Mishap
  <1>. DEFINE c == Cached(ModuleOf(g, role))
  <1>1. /\ UNCHANGED <<objs, controller, wanted, old>> /\ pc[g] = <<"asleep", role>> /\ DOMAIN pc = Copies
        /\ mine \in [Copies -> [Roles -> Version]]
    BY DEF awaitSleep, ModulesTypeOK
  <1>2. c \in Version
    BY RolesOf, VersionsOf
  <1>3. DOMAIN pc' = Copies /\ \A h \in Copies : h # g => pc'[h] = pc[h]
    BY <1>1 DEF awaitSleep, Enter, GoTo
  <1>4. CASE Asleep(c) /\ mine' = [mine EXCEPT ![g][role] = c] /\ GoTo(g, <<"hibernate", "source">>) /\ role = "copy"
    BY <1>1, <1>2, <1>3, <1>4 DEF GoTo
  <1>5. CASE Asleep(c) /\ mine' = [mine EXCEPT ![g][role] = c] /\ Enter(g, "pvcs") /\ role # "copy"
    BY <1>1, <1>2, <1>3, <1>5 DEF Enter, GoTo
  <1>6. CASE /\ c.phase \in {"uninstalling", "failed"} \/ Expires(ModuleOf(g, role), {"sleeped"})
             /\ GoTo(g, AfterError(role)) /\ UNCHANGED mine
    <2>1. pc'[g] = AfterError(role)
      BY <1>1, <1>6 DEF GoTo
    <2>. QED BY <1>1, <1>3, <1>6, <2>1 DEF Expires
  <1>. QED BY <1>4, <1>5, <1>6 DEF awaitSleep

LEMMA RestoreStep ==
    ASSUME ModulesTypeOK, NEW g \in Copies, NEW role \in Roles, restore(g, role), old[g] \in BOOLEAN
    PROVE  LET m == ModuleOf(g, role) IN
           /\ UNCHANGED <<controller, wanted, old, mine>> /\ pc[g] = <<"restore", role>>
           /\ DOMAIN pc' = Copies /\ \A h \in Copies : h # g => pc'[h] = pc[h]
           /\ \A n \in Modules : n # m => Kept(n)
           /\ pc'[g] = AfterRestore(role)
           /\ \/ Kept(m) /\ mine[g][role].hibernated = RestoreTo(g, role)
              \/ Patched(m, RestoreTo(g, role))
              \/ Kept(m) /\ PatchFails(m)
  <1>. DEFINE m == ModuleOf(g, role)
  <1>1. /\ UNCHANGED <<controller, wanted, old, mine>> /\ pc[g] = <<"restore", role>> /\ DOMAIN pc = Copies
    BY DEF restore, ModulesTypeOK
  <1>2. m \in Modules /\ RestoreTo(g, role) \in BOOLEAN
    BY RolesOf DEF RestoreTo
  <1>3. DOMAIN pc' = Copies /\ (\A h \in Copies : h # g => pc'[h] = pc[h]) /\ pc'[g] = AfterRestore(role)
    BY <1>1 DEF restore, GoTo
  <1>4. CASE UNCHANGED objs /\ mine[g][role].hibernated = RestoreTo(g, role)
    BY <1>1, <1>2, <1>3, <1>4, AllKept
  <1>5. CASE Patch(m, RestoreTo(g, role))
    <2>1. Patched(m, RestoreTo(g, role)) /\ \A n \in Modules : n # m => Kept(n)
      BY <1>1, <1>2, <1>5, PatchStep
    <2>. QED BY <1>1, <1>3, <2>1
  <1>6. CASE PatchFails(m)
    <2>1. \A n \in Modules : Kept(n)
      BY <1>1, <1>6, AllKept DEF PatchFails
    <2>. QED BY <1>1, <1>2, <1>3, <1>6, <2>1
  <1>. QED BY <1>4, <1>5, <1>6 DEF restore

\* Nothing happens to a Module that does not exist until it is made.
LEMMA NothingToMind ==
    ASSUME ModulesTypeOK, NEW m \in Modules, ModuleInOrder(m), objs[m] = <<NotFound>>, Minded(m)
    PROVE  objs'[m] = objs[m]
  <1>1. Server(m).phase = "gone" /\ Len(objs[m]) = 1 /\ busy[m] \in Operations
    BY NotMadeYet, VersionsOf
  <1>2. busy[m] = "idle"
    BY <1>1 DEF ModuleInOrder, Fits, Operations
  <1>. QED BY <1>1, <1>2 DEF Minded, Kept, Decided, Resting, Delivered, Worked, Transitional

LEMMA MindedStep == \A m : Minded(m) => ModuleStep(m)
  BY DEF Minded, ModuleStep

\* What a goroutine does to the Modules, ...
LEMMA GoroutineStep ==
    ASSUME ModulesInvariant, NEW g \in Copies, Goroutine(g)
    PROVE  /\ UNCHANGED <<controller, wanted, old>>
           /\ DOMAIN pc' = Copies /\ mine' \in [Copies -> [Roles -> Version]]
           /\ \A h \in Copies : h # g => pc'[h] = pc[h] /\ mine'[h] = mine[h]
           /\ pc'[g] \notin {<<"unstarted">>, <<"create">>}
           /\ \A m \in Modules : m \notin {g, From[g]} => Kept(m)
           /\ \A m \in Modules : Kept(m) \/ Made(m) \/ \E value \in BOOLEAN : Patched(m, value)
  <1>1. ModulesTypeOK /\ NotMade(g) /\ old[g] \in BOOLEAN /\ DOMAIN pc = Copies
        /\ mine \in [Copies -> [Roles -> Version]]
    BY DEF ModulesInvariant, ModulesTypeOK
  <1>2. /\ From[g] \in Modules /\ g \in Modules
        /\ \A role \in Roles : ModuleOf(g, role) \in {g, From[g]}
    BY RolesOf DEF ModuleOf, Roles
  <1>3. CASE create(g)
    <2>1. objs[g] = <<NotFound>>
      BY <1>1, <1>3 DEF NotMade, create
    <2>2. /\ UNCHANGED <<controller, wanted, old>>
          /\ DOMAIN pc' = Copies /\ mine' \in [Copies -> [Roles -> Version]]
          /\ \A h \in Copies : h # g => pc'[h] = pc[h] /\ mine'[h] = mine[h]
          /\ \A m \in Modules : m # g => Kept(m)
          /\ pc'[g] \in {<<"done">>, <<"await">>} /\ (Kept(g) \/ Made(g))
      BY <1>1, <1>3, <2>1, CreateStep
    <2>3. pc'[g] \notin {<<"unstarted">>, <<"create">>}
      BY <2>2
    <2>4. \A m \in Modules : Kept(m) \/ Made(m)
      BY <2>2
    <2>. QED BY <2>2, <2>3, <2>4
  <1>4. CASE awaitCopy(g)
    <2>1. \A m \in Modules : Kept(m)
      BY <1>1, <1>4, AwaitCopyStep, AllKept
    <2>. QED BY <1>1, <1>4, <2>1, AwaitCopyStep
  <1>5. CASE Inside(g)
    <2>1. UNCHANGED <<objs, controller, wanted, mine, old>>
      BY <1>1, <1>5, InsideStep
    <2>2. \A m \in Modules : Kept(m)
      BY <2>1, AllKept
    <2>3. pc'[g] \notin {<<"unstarted">>, <<"create">>}
      BY <1>1, <1>5, InsideStep, LoopTable DEF Loops
    <2>. QED BY <1>1, <1>5, <2>1, <2>2, <2>3, InsideStep
  <1>6. ASSUME NEW role \in Roles, hibernateModule(g, role)
        PROVE  /\ UNCHANGED <<controller, wanted, old>>
               /\ DOMAIN pc' = Copies /\ mine' \in [Copies -> [Roles -> Version]]
               /\ \A h \in Copies : h # g => pc'[h] = pc[h] /\ mine'[h] = mine[h]
               /\ pc'[g] \in {<<"asleep", role>>, AfterError(role)}
               /\ \A m \in Modules : m \notin {g, From[g]} => Kept(m)
               /\ \A m \in Modules : Kept(m) \/ Made(m) \/ \E value \in BOOLEAN : Patched(m, value)
    BY <1>1, <1>2, <1>6, HibernateStep
  <1>7. ASSUME NEW role \in Roles, awaitSleep(g, role)
        PROVE  /\ UNCHANGED <<objs, controller, wanted, old>>
               /\ DOMAIN pc' = Copies /\ mine' \in [Copies -> [Roles -> Version]]
               /\ \A h \in Copies : h # g => pc'[h] = pc[h] /\ mine'[h] = mine[h]
               /\ pc'[g] \in {<<"hibernate", "source">>, <<"pvcs">>, <<"restore", "source">>, AfterError(role)}
    BY <1>1, <1>7, AwaitSleepStep DEF Roles
  <1>8. ASSUME NEW role \in Roles, restore(g, role)
        PROVE  /\ UNCHANGED <<controller, wanted, old, mine>>
               /\ DOMAIN pc' = Copies
               /\ \A h \in Copies : h # g => pc'[h] = pc[h] /\ mine'[h] = mine[h]
               /\ pc'[g] = AfterRestore(role)
               /\ \A m \in Modules : m \notin {g, From[g]} => Kept(m)
               /\ \A m \in Modules : Kept(m) \/ Made(m) \/ \E value \in BOOLEAN : Patched(m, value)
    <2>1. RestoreTo(g, role) \in BOOLEAN
      BY <1>1 DEF RestoreTo
    <2>. QED BY <1>1, <1>2, <1>8, <2>1, RestoreStep
  <1>9. \A role \in Roles : /\ <<"asleep", role>> \notin {<<"unstarted">>, <<"create">>}
                            /\ AfterError(role) \notin {<<"unstarted">>, <<"create">>}
                            /\ AfterRestore(role) \notin {<<"unstarted">>, <<"create">>}
    BY DEF AfterError, AfterRestore
  <1>10. UNCHANGED <<objs, controller>> =>
           /\ \A m \in Modules : m \notin {g, From[g]} => Kept(m)
           /\ \A m \in Modules : Kept(m) \/ Made(m) \/ \E value \in BOOLEAN : Patched(m, value)
    BY AllKept
  <1>11. CASE \E role \in Roles : hibernateModule(g, role) \/ awaitSleep(g, role) \/ restore(g, role)
    <2>1. CASE \E role \in Roles : hibernateModule(g, role)
      BY <1>6, <1>9, <2>1
    <2>2. CASE \E role \in Roles : awaitSleep(g, role)
      BY <1>7, <1>9, <1>10, <2>2
    <2>3. CASE \E role \in Roles : restore(g, role)
      BY <1>1, <1>8, <1>9, <2>3
    <2>. QED BY <1>11, <2>1, <2>2, <2>3
  <1>. QED BY <1>3, <1>4, <1>5, <1>11, GoroutineCases

\* ... forkWorkspace, ...
LEMMA ForkStep ==
    ASSUME ModulesTypeOK, NEW call, forkWorkspace(call)
    PROVE  /\ UNCHANGED <<objs, controller, wanted, mishaps>>
           /\ DOMAIN pc' = Copies /\ mine' \in [Copies -> [Roles -> Version]] /\ old' \in [Copies -> BOOLEAN]
           /\ \A g \in Copies :
                \/ pc'[g] = pc[g] /\ mine'[g] = mine[g] /\ old'[g] = old[g]
                \/ /\ pc[g] = <<"unstarted">> /\ pc'[g] = <<"create">>
                   /\ mine'[g]["source"] = Cached(From[g]) /\ old'[g] = Cached(From[g]).hibernated
  <1>1. /\ mine \in [Copies -> [Roles -> Version]] /\ old \in [Copies -> BOOLEAN]
        /\ UNCHANGED <<objs, controller, wanted, mishaps>>
    BY DEF ModulesTypeOK, forkWorkspace
  <1>2. \A g \in Copies : Cached(From[g]) \in Version
    BY RolesOf, VersionsOf
  <1>3. \A g \in Copies : Cached(From[g]).hibernated \in BOOLEAN
    BY <1>2 DEF Version
  <1>. DEFINE started == {g \in Copies : Call[g] = call /\ Cached(From[g]).phase # "gone"}
  <1>4. /\ \A g \in started : pc[g] = <<"unstarted">>
        /\ pc' = [g \in Copies |-> IF g \in started THEN <<"create">> ELSE pc[g]]
        /\ mine' = [g \in Copies |-> IF g \in started
                                 THEN [mine[g] EXCEPT !["source"] = Cached(From[g])] ELSE mine[g]]
        /\ old' = [g \in Copies |-> IF g \in started THEN Cached(From[g]).hibernated ELSE old[g]]
    BY DEF forkWorkspace
  <1>. HIDE DEF started
  <1>5. \A g \in Copies : /\ [mine[g] EXCEPT !["source"] = Cached(From[g])] \in [Roles -> Version]
                          /\ [mine[g] EXCEPT !["source"] = Cached(From[g])]["source"] = Cached(From[g])
    BY <1>1, <1>2 DEF Roles
  <1>6. DOMAIN pc' = Copies /\ mine' \in [Copies -> [Roles -> Version]] /\ old' \in [Copies -> BOOLEAN]
    BY <1>1, <1>3, <1>4, <1>5
  <1>7. ASSUME NEW g \in Copies
        PROVE  \/ pc'[g] = pc[g] /\ mine'[g] = mine[g] /\ old'[g] = old[g]
               \/ /\ pc[g] = <<"unstarted">> /\ pc'[g] = <<"create">>
                  /\ mine'[g]["source"] = Cached(From[g]) /\ old'[g] = Cached(From[g]).hibernated
    BY <1>4, <1>5
  <1>. QED BY <1>1, <1>6, <1>7

\* ... and the others.
LEMMA DeliverStep ==
    ASSUME ModulesTypeOK, NEW n \in Modules, deliver(n)
    PROVE  /\ Delivered(n) /\ \A m \in Modules : m # n => Kept(m)
           /\ UNCHANGED <<wanted, goroutine, mishaps>>
  <1>1. objs \in [Modules -> Seq(Version)] /\ UNCHANGED <<busy, running, wanted, goroutine, mishaps>>
        /\ objs' = [objs EXCEPT ![n] = Tail(objs[n])] /\ Len(objs[n]) > 1
    BY DEF ModulesTypeOK, deliver, controller
  <1>2. objs'[n] = Tail(objs[n]) /\ \A m \in Modules : m # n => objs'[m] = objs[m]
    BY <1>1
  <1>. QED BY <1>1, <1>2 DEF Delivered, Kept, Resting

LEMMA DeleteStep ==
    ASSUME ModulesTypeOK, NEW n \in Modules, delete(n)
    PROVE  /\ Removed(n, "uninstalling") /\ \A m \in Modules : m # n => Kept(m)
           /\ Server(n).phase \in {"ready", "sleeped", "failed"}
           /\ UNCHANGED <<wanted, goroutine>>
  <1>1. /\ objs \in [Modules -> Seq(Version)] /\ UNCHANGED <<busy, running, wanted, goroutine>>
        /\ objs' = [objs EXCEPT ![n] = Append(objs[n], [Server(n) EXCEPT !.phase = "uninstalling"])]
        /\ Len(objs[n]) = 1 /\ busy[n] = "idle" /\ Server(n).phase \in {"ready", "sleeped", "failed"}
    BY DEF ModulesTypeOK, delete, controller, WritePhase
  <1>2. /\ objs'[n] = Append(objs[n], [Server(n) EXCEPT !.phase = "uninstalling"])
        /\ \A m \in Modules : m # n => objs'[m] = objs[m]
    BY <1>1
  <1>. QED BY <1>1, <1>2 DEF Removed, Kept, Resting

LEMMA RestartStep ==
    ASSUME ModulesTypeOK, restart
    PROVE  /\ \A m \in Modules : Decided(m)
           /\ UNCHANGED <<wanted, mine, old>> /\ DOMAIN pc' = Copies
           /\ \A g \in Copies : pc'[g] = pc[g] \/ pc'[g] = <<"lost">>
  <1>1. /\ UNCHANGED <<objs, running, wanted, mine, old>> /\ busy' = [m \in Modules |-> "idle"]
        /\ pc' = [g \in Copies |-> IF pc[g] \in Ended THEN pc[g] ELSE <<"lost">>]
    BY DEF restart
  <1>. QED BY <1>1 DEF Decided, Resting

LEMMA SetHibernatedStep ==
    ASSUME ModulesTypeOK, NEW s \in Sources, NEW value \in BOOLEAN, setHibernated(s, value)
    PROVE  /\ Patched(s, value) /\ \A m \in Modules : m # s => Kept(m)
           /\ wanted' \in [Sources -> BOOLEAN] /\ UNCHANGED goroutine
  <1>1. /\ Patch(s, value) /\ UNCHANGED controller /\ UNCHANGED goroutine
        /\ wanted' = [wanted EXCEPT ![s] = value]
    BY DEF setHibernated
  <1>2. s \in Modules /\ wanted \in [Sources -> BOOLEAN]
    BY DEF Modules, ModulesTypeOK
  <1>3. Patched(s, value) /\ \A m \in Modules : m # s => Kept(m)
    BY <1>1, <1>2, PatchStep
  <1>4. wanted' \in [Sources -> BOOLEAN]
    BY <1>1, <1>2
  <1>. QED BY <1>1, <1>3, <1>4

\* The functions stay functions on the Modules.
LEMMA StillFunctions ==
    ASSUME ModulesTypeOK, [Next]_vars
    PROVE  /\ DOMAIN objs' = Modules /\ DOMAIN busy' = Modules /\ DOMAIN running' = Modules
           /\ objs' = [m \in Modules |-> objs'[m]] /\ busy' = [m \in Modules |-> busy'[m]]
           /\ running' = [m \in Modules |-> running'[m]]
  <1>1. /\ objs \in [Modules -> Seq(Version)] /\ busy \in [Modules -> Operations]
        /\ running \in [Modules -> BOOLEAN]
    BY DEF ModulesTypeOK
  <1>. DEFINE Same == /\ objs' = [m \in Modules |-> objs'[m]] /\ busy' = [m \in Modules |-> busy'[m]]
                      /\ running' = [m \in Modules |-> running'[m]]
  <1>2. UNCHANGED <<busy, running>> =>
          busy' = [m \in Modules |-> busy'[m]] /\ running' = [m \in Modules |-> running'[m]]
    BY <1>1
  <1>3. UNCHANGED objs => objs' = [m \in Modules |-> objs'[m]]
    BY <1>1
  <1>4. \A n, v : objs' = [objs EXCEPT ![n] = v] => objs' = [m \in Modules |-> objs'[m]]
    BY <1>1
  <1>5. \A n, v : busy' = [busy EXCEPT ![n] = v] => busy' = [m \in Modules |-> busy'[m]]
    BY <1>1
  <1>6. \A n, v : running' = [running EXCEPT ![n] = v] => running' = [m \in Modules |-> running'[m]]
    BY <1>1
  <1>7. \A n, value : Patch(n, value) => objs' = [m \in Modules |-> objs'[m]]
    BY <1>4 DEF Patch
  <1>8. \A n, p : WritePhase(n, p) => objs' = [m \in Modules |-> objs'[m]]
    BY <1>4 DEF WritePhase
  <1>9. ASSUME NEW g \in Copies, Goroutine(g) PROVE Same
    <2>1. UNCHANGED <<busy, running>>
      BY <1>9 DEF Goroutine, create, awaitCopy, hibernateModule, awaitSleep, restore, migratePVC, createDestPod,
         waitForPodReady, migrateDataViaTar, cleanupPod, migrateObject, recreateObject, nextStage, controller
    <2>2. CASE create(g)
      BY <1>2, <1>3, <1>4, <2>1, <2>2 DEF create
    <2>3. CASE awaitCopy(g) \/ Inside(g) \/ \E role \in Roles : awaitSleep(g, role)
      <3>1. UNCHANGED objs
        BY <2>3 DEF awaitCopy, Inside, awaitSleep, migratePVC, createDestPod,
         waitForPodReady, migrateDataViaTar, cleanupPod, migrateObject, recreateObject, nextStage
      <3>. QED BY <1>2, <1>3, <2>1, <3>1
    <2>4. CASE \E role \in Roles : hibernateModule(g, role) \/ restore(g, role)
      <3>1. UNCHANGED objs \/ \E n, value : Patch(n, value)
        BY <2>4 DEF hibernateModule, restore, PatchFails
      <3>. QED BY <1>2, <1>3, <1>7, <2>1, <3>1
    <2>. QED BY <1>9, <2>2, <2>3, <2>4, GoroutineCases
  <1>10. ASSUME NEW n \in Modules, Controller(n) PROVE Same
    <2>1. CASE decide(n)
      <3>1. UNCHANGED <<objs, running>> /\ busy' = [busy EXCEPT ![n] = Due(Cached(n))]
        BY <2>1 DEF decide
      <3>2. running' = [m \in Modules |-> running'[m]]
        BY <1>1, <3>1
      <3>. QED BY <1>3, <1>5, <3>1, <3>2
    <2>2. CASE begin(n)
      <3>1. CASE UNCHANGED <<objs, running>> /\ busy' = [busy EXCEPT ![n] = "idle"]
        <4>1. running' = [m \in Modules |-> running'[m]]
          BY <1>1, <3>1
        <4>. QED BY <1>3, <1>5, <3>1, <4>1
      <3>2. CASE /\ WritePhase(n, Begins[busy[n]]) /\ UNCHANGED busy
                 /\ running' = [running EXCEPT ![n] = running[n] \/ busy[n] # "sleep"]
        <4>1. busy' = [m \in Modules |-> busy'[m]]
          BY <1>1, <3>2
        <4>. QED BY <1>6, <1>8, <3>2, <4>1
      <3>. QED BY <2>2, <3>1, <3>2 DEF begin
    <2>3. CASE finish(n)
      <3>1. busy' = [m \in Modules |-> busy'[m]]
        BY <1>5, <2>3 DEF finish
      <3>2. UNCHANGED objs \/ \E p : WritePhase(n, p)
        BY <2>3 DEF finish
      <3>3. UNCHANGED running \/ \E v : running' = [running EXCEPT ![n] = v]
        BY <2>3 DEF finish
      <3>4. running' = [m \in Modules |-> running'[m]]
        BY <1>1, <1>6, <3>3
      <3>. QED BY <1>3, <1>8, <3>1, <3>2, <3>4
    <2>4. CASE expire(n)
      BY <1>2, <1>8, <2>4 DEF expire, controller
    <2>5. CASE uninstall(n)
      <3>1. busy' = [m \in Modules |-> busy'[m]]
        BY <1>1, <2>5 DEF uninstall
      <3>. QED BY <1>6, <1>8, <2>5, <3>1 DEF uninstall
    <2>. QED BY <1>10, <2>1, <2>2, <2>3, <2>4, <2>5 DEF Controller
  <1>11. ASSUME NEW n \in Modules, deliver(n) \/ delete(n) PROVE Same
    <2>1. UNCHANGED <<busy, running>> /\ objs' = [m \in Modules |-> objs'[m]]
      BY <1>4, <1>8, <1>11 DEF deliver, delete, controller
    <2>. QED BY <1>2, <2>1
  <1>12. ASSUME NEW s \in Sources, NEW value \in BOOLEAN, setHibernated(s, value) PROVE Same
    <2>1. UNCHANGED <<busy, running>> /\ objs' = [m \in Modules |-> objs'[m]]
      BY <1>7, <1>12 DEF setHibernated, controller
    <2>. QED BY <1>2, <2>1
  <1>13. CASE restart
    <2>1. UNCHANGED <<objs, running>> /\ busy' = [m \in Modules |-> "idle"]
      BY <1>13 DEF restart
    <2>. QED BY <1>1, <1>3, <2>1
  <1>14. CASE UNCHANGED <<objs, busy, running>>
    BY <1>2, <1>3, <1>14
  <1>15. \A call : forkWorkspace(call) => UNCHANGED <<objs, busy, running>>
    BY DEF forkWorkspace, controller
  <1>16. podGone \/ UNCHANGED vars => UNCHANGED <<objs, busy, running>>
    BY DEF podGone, vars, controller
  <1>17. Same
    BY <1>9, <1>10, <1>11, <1>12, <1>13, <1>14, <1>15, <1>16 DEF Next
  <1>. QED BY <1>17

\* Each step is one of a Module's, for every Module.
LEMMA EveryModule ==
    ASSUME ModulesInvariant, [Next]_vars
    PROVE  /\ \A m \in Modules : ModuleStep(m)
           /\ wanted' \in [Sources -> BOOLEAN] /\ DOMAIN pc' = Copies
           /\ mine' \in [Copies -> [Roles -> Version]] /\ old' \in [Copies -> BOOLEAN]
           /\ \A h \in Copies : NotMade(h)'
  <1>1. /\ ModulesTypeOK /\ (\A m \in Modules : ModuleInOrder(m)) /\ (\A h \in Copies : NotMade(h))
        /\ wanted \in [Sources -> BOOLEAN] /\ DOMAIN pc = Copies
        /\ mine \in [Copies -> [Roles -> Version]] /\ old \in [Copies -> BOOLEAN]
    BY DEF ModulesInvariant, ModulesTypeOK
  <1>2. Copies \subseteq Modules /\ Sources \subseteq Modules
        /\ (\A h \in Copies : h \notin Sources) /\ (\A h \in Copies : From[h] \in Sources)
    BY ConstantsAssumption DEF Modules
  <1>. DEFINE Goal == /\ \A m \in Modules : ModuleStep(m)
                      /\ wanted' \in [Sources -> BOOLEAN] /\ DOMAIN pc' = Copies
                      /\ mine' \in [Copies -> [Roles -> Version]] /\ old' \in [Copies -> BOOLEAN]
                      /\ \A h \in Copies : NotMade(h)'
  <1>3. \A h \in Copies : objs'[h] = objs[h] /\ (pc'[h] = pc[h] \/ pc[h] = <<"unstarted">>) => NotMade(h)'
    BY <1>1 DEF NotMade
  <1>4. \A h \in Copies : pc'[h] \notin {<<"unstarted">>, <<"create">>} => NotMade(h)'
    BY DEF NotMade
  <1>5. \A m \in Modules : Kept(m) => ModuleStep(m) /\ objs'[m] = objs[m]
    BY DEF ModuleStep, Kept, Resting
  <1>6. \A h \in Copies : Minded(h) /\ pc'[h] = pc[h] => NotMade(h)'
    <2>. SUFFICES ASSUME NEW h \in Copies, Minded(h), pc'[h] = pc[h],
                         pc[h] \in {<<"unstarted">>, <<"create">>}
                  PROVE  objs'[h] = objs[h]
      BY <1>3, <1>4
    <2>1. objs[h] = <<NotFound>>
      BY <1>1 DEF NotMade
    <2>. QED BY <1>1, <1>2, <2>1, NothingToMind
  <1>7. \A h \in Copies : Server(h).phase # "gone" /\ pc'[h] = pc[h] => NotMade(h)'
    <2>. SUFFICES ASSUME NEW h \in Copies, pc[h] \in {<<"unstarted">>, <<"create">>}
                  PROVE  Server(h).phase = "gone"
      BY <1>4
    <2>1. objs[h] = <<NotFound>>
      BY <1>1 DEF NotMade
    <2>. QED BY <1>1, <1>2, <2>1, NotMadeYet
  <1>8. UNCHANGED <<wanted, goroutine>> =>
          /\ wanted' \in [Sources -> BOOLEAN] /\ DOMAIN pc' = Copies
          /\ mine' \in [Copies -> [Roles -> Version]] /\ old' \in [Copies -> BOOLEAN]
          /\ \A h \in Copies : pc'[h] = pc[h]
    BY <1>1 DEF goroutine
  <1>9. ASSUME NEW call, forkWorkspace(call) PROVE Goal
    <2>1. \A m \in Modules : Kept(m)
      BY <1>1, <1>9, ForkStep, AllKept
    <2>2. /\ wanted' \in [Sources -> BOOLEAN] /\ DOMAIN pc' = Copies
          /\ mine' \in [Copies -> [Roles -> Version]] /\ old' \in [Copies -> BOOLEAN]
      BY <1>1, <1>9, ForkStep
    <2>3. \A h \in Copies : pc'[h] = pc[h] \/ pc[h] = <<"unstarted">>
      BY <1>1, <1>9, ForkStep
    <2>. QED BY <1>2, <1>3, <1>5, <2>1, <2>2, <2>3
  <1>10. ASSUME NEW g \in Copies, Goroutine(g) PROVE Goal
    <2>1. /\ UNCHANGED <<wanted, old>>
          /\ DOMAIN pc' = Copies /\ mine' \in [Copies -> [Roles -> Version]]
          /\ \A h \in Copies : h # g => pc'[h] = pc[h]
          /\ pc'[g] \notin {<<"unstarted">>, <<"create">>}
      BY <1>10, GoroutineStep
    <2>2. \A m \in Modules : m \notin {g, From[g]} => Kept(m)
      BY <1>10, GoroutineStep
    <2>3. \A m \in Modules : Kept(m) \/ Made(m) \/ \E value \in BOOLEAN : Patched(m, value)
      BY <1>10, GoroutineStep
    <2>4. \A m \in Modules : ModuleStep(m)
      BY <2>3 DEF ModuleStep
    <2>5. \A h \in Copies : NotMade(h)'
      BY <1>2, <1>3, <1>4, <1>5, <2>1, <2>2
    <2>. QED BY <1>1, <2>1, <2>4, <2>5
  <1>11. ASSUME NEW n \in Modules, Controller(n) PROVE Goal
    <2>1. /\ \A m \in Modules : m # n => Kept(m)
          /\ \/ Minded(n)
             \/ Server(n).phase = "uninstalling" /\ \E p \in Phase : Removed(n, p)
          /\ UNCHANGED <<wanted, goroutine>>
      BY <1>1, <1>11, ControllerStep
    <2>2. ModuleStep(n)
      BY <2>1, MindedStep DEF ModuleStep
    <2>3. \A h \in Copies : NotMade(h)'
      BY <1>2, <1>3, <1>5, <1>6, <1>7, <1>8, <2>1
    <2>. QED BY <1>5, <1>8, <2>1, <2>2, <2>3
  <1>12. ASSUME NEW n \in Modules, deliver(n) PROVE Goal
    <2>1. Delivered(n) /\ (\A m \in Modules : m # n => Kept(m)) /\ UNCHANGED <<wanted, goroutine>>
      BY <1>1, <1>12, DeliverStep
    <2>2. ModuleStep(n) /\ Minded(n)
      BY <2>1 DEF ModuleStep, Minded
    <2>3. \A h \in Copies : NotMade(h)'
      BY <1>2, <1>3, <1>5, <1>6, <1>8, <2>1, <2>2
    <2>. QED BY <1>5, <1>8, <2>1, <2>2, <2>3
  <1>13. ASSUME NEW n \in Modules, delete(n) PROVE Goal
    <2>1. /\ Removed(n, "uninstalling") /\ (\A m \in Modules : m # n => Kept(m))
          /\ UNCHANGED <<wanted, goroutine>> /\ Server(n).phase \in {"ready", "sleeped", "failed"}
      BY <1>1, <1>13, DeleteStep
    <2>2. ModuleStep(n)
      BY <2>1 DEF ModuleStep, Phase
    <2>3. \A h \in Copies : NotMade(h)'
      BY <1>2, <1>3, <1>5, <1>7, <1>8, <2>1
    <2>. QED BY <1>5, <1>8, <2>1, <2>2, <2>3
  <1>14. CASE restart
    <2>1. /\ \A m \in Modules : Decided(m)
          /\ UNCHANGED <<wanted, mine, old>> /\ DOMAIN pc' = Copies
          /\ \A h \in Copies : pc'[h] = pc[h] \/ pc'[h] = <<"lost">>
      BY <1>1, <1>14, RestartStep
    <2>2. \A m \in Modules : ModuleStep(m) /\ objs'[m] = objs[m]
      BY <2>1 DEF ModuleStep, Decided, Resting
    <2>3. \A h \in Copies : NotMade(h)'
      BY <1>2, <1>3, <1>4, <2>1, <2>2
    <2>. QED BY <1>1, <2>1, <2>2, <2>3
  <1>15. ASSUME NEW s \in Sources, NEW value \in BOOLEAN, setHibernated(s, value) PROVE Goal
    <2>1. /\ Patched(s, value) /\ (\A m \in Modules : m # s => Kept(m))
          /\ wanted' \in [Sources -> BOOLEAN] /\ UNCHANGED goroutine
      BY <1>1, <1>15, SetHibernatedStep
    <2>2. ModuleStep(s)
      BY <2>1 DEF ModuleStep
    <2>3. /\ UNCHANGED <<pc, mine, old>>
      BY <2>1 DEF goroutine
    <2>4. \A h \in Copies : NotMade(h)'
      BY <1>2, <1>3, <1>5, <2>1, <2>3
    <2>. QED BY <1>1, <1>5, <2>1, <2>2, <2>3, <2>4
  <1>16. CASE podGone \/ UNCHANGED vars
    <2>1. UNCHANGED <<objs, controller, wanted, goroutine>>
      BY <1>16 DEF podGone, vars
    <2>2. \A m \in Modules : Kept(m)
      BY <2>1, AllKept
    <2>3. \A h \in Copies : NotMade(h)'
      BY <1>2, <1>3, <1>5, <1>8, <2>1, <2>2
    <2>. QED BY <1>5, <1>8, <2>1, <2>2, <2>3
  <1>17. Goal
    BY <1>9, <1>10, <1>11, <1>12, <1>13, <1>14, <1>15, <1>16 DEF Next
  <1>. QED BY <1>17

LEMMA NextKeepsModules ==
    ASSUME ModulesInvariant, [Next]_vars
    PROVE  ModulesInvariant' /\ \A m \in Modules : ContractStep(m)
  <1>1. ModulesTypeOK /\ \A m \in Modules : ModuleInOrder(m)
    BY DEF ModulesInvariant
  <1>2. /\ \A m \in Modules : ModuleStep(m)
        /\ wanted' \in [Sources -> BOOLEAN] /\ DOMAIN pc' = Copies
        /\ mine' \in [Copies -> [Roles -> Version]] /\ old' \in [Copies -> BOOLEAN]
        /\ \A h \in Copies : NotMade(h)'
    BY EveryModule
  <1>3. \A m \in Modules : ModuleTyped(m)' /\ ModuleInOrder(m)' /\ ContractStep(m)
    BY <1>1, <1>2, StepInOrder
  <1>4. /\ objs' = [m \in Modules |-> objs'[m]] /\ busy' = [m \in Modules |-> busy'[m]]
        /\ running' = [m \in Modules |-> running'[m]]
    BY <1>1, StillFunctions
  <1>5. \A m \in Modules : /\ objs'[m] \in Seq(Version) /\ Len(objs'[m]) >= 1
                           /\ busy'[m] \in Operations /\ running'[m] \in BOOLEAN
    BY <1>3 DEF ModuleTyped
  <1>6. /\ objs' \in [Modules -> Seq(Version)] /\ busy' \in [Modules -> Operations]
        /\ running' \in [Modules -> BOOLEAN]
    BY <1>4, <1>5
  <1>7. ModulesTypeOK'
    BY <1>2, <1>5, <1>6 DEF ModulesTypeOK
  <1>. QED BY <1>2, <1>3, <1>7 DEF ModulesInvariant

LEMMA InitModules == Init => ModulesInvariant /\ \A m \in Modules : Life(m)!LifeInit
  <1>. SUFFICES ASSUME Init PROVE ModulesInvariant /\ \A m \in Modules : Life(m)!LifeInit
    OBVIOUS
  <1>. DEFINE start == setting.sources
  <1>1. /\ objs = [m \in Modules |-> << IF m \in Sources THEN start[m] ELSE NotFound >>]
        /\ running = [m \in Modules |-> m \in Sources /\ start[m].phase = "ready"]
        /\ wanted = [s \in Sources |-> start[s].hibernated]
    BY DEF Init
  <1>s. start \in [Sources -> SourceStates]
    BY ConstantsAssumption DEF Init
  <1>. HIDE DEF start
  <1>2. /\ busy = [m \in Modules |-> "idle"] /\ pc = [g \in Copies |-> <<"unstarted">>]
        /\ mine = [g \in Copies |-> [r \in Roles |-> NotFound]] /\ old = [g \in Copies |-> FALSE]
    BY DEF Init
  <1>3. SourceStates \subseteq Version /\ \A v \in SourceStates : v.phase \in {"ready", "sleeped", "gone"}
    <2>1. \A p \in {"ready", "sleeped", "gone"} : \A h \in BOOLEAN :
            LET v == [phase |-> p, hibernated |-> h] IN v \in Version /\ v.phase = p
      BY DEF Version, Phase
    <2>2. \A v \in SourceStates : \E p \in {"ready", "sleeped", "gone"} : \E h \in BOOLEAN :
            v = [phase |-> p, hibernated |-> h]
      BY DEF SourceStates, SourceRuns, SourceSleeps, SourceWakes, NotFound
    <2>. QED BY <2>1, <2>2
  <1>4. NotFound \in Version /\ NotFound.phase = "gone"
    BY DEF NotFound, Version, Phase
  <1>. DEFINE first(m) == IF m \in Sources THEN start[m] ELSE NotFound
  <1>5. \A m \in Modules : first(m) \in Version /\ first(m).phase \in {"ready", "sleeped", "gone"}
    BY <1>s, <1>3, <1>4
  <1>6. \A m \in Modules : objs[m] = <<first(m)>>
    BY <1>1
  <1>7. \A m \in Modules : running[m] = (first(m).phase = "ready")
    BY <1>1, <1>4
  <1>8. \A m \in Modules : objs[m] \in Seq(Version) /\ Len(objs[m]) = 1 /\ objs[m][1] = first(m)
    <2>1. \A v \in Version : <<v>> \in Seq(Version) /\ Len(<<v>>) = 1 /\ <<v>>[1] = v
      OBVIOUS
    <2>. HIDE DEF first
    <2>. QED BY <1>5, <1>6, <2>1
  <1>9. ModulesTypeOK
    <2>1. objs \in [Modules -> Seq(Version)]
      BY <1>1, <1>8
    <2>2. running \in [Modules -> BOOLEAN]
      BY <1>1
    <2>3. wanted \in [Sources -> BOOLEAN]
      BY <1>s, <1>1, <1>3 DEF Version
    <2>4. /\ DOMAIN pc = Copies /\ mine \in [Copies -> [Roles -> Version]] /\ old \in [Copies -> BOOLEAN]
          /\ busy \in [Modules -> Operations]
      BY <1>2, <1>4 DEF Operations
    <2>. QED BY <1>8, <2>1, <2>2, <2>3, <2>4 DEF ModulesTypeOK
  <1>. HIDE DEF first
  <1>10. \A m \in Modules : Server(m) = first(m) /\ InFlight(m) = {Server(m)}
    BY <1>8, <1>9, VersionsOf DEF Server
  <1>11. \A m \in Modules : ModuleInOrder(m)
    BY <1>2, <1>5, <1>7, <1>10 DEF ModuleInOrder, Fits
  <1>12. \A g \in Copies : NotMade(g)
    BY <1>1, ConstantsAssumption DEF NotMade, Modules
  <1>13. \A m \in Modules : Life(m)!LifeInit
    BY <1>5, <1>7, <1>10 DEF Life!LifeInit, Phase
  <1>. QED BY <1>9, <1>11, <1>12, <1>13 DEF ModulesInvariant

\* Whatever goroutines, controller, users and restarts do, the phase on the server is at
\* most one status write ahead of every version still on its way to the informer cache, and
\* fits what the controller's worker is doing.
THEOREM ModulesInOrder == Spec => []ModulesInvariant
  <1>1. Init => ModulesInvariant
    BY InitModules
  <1>2. ModulesInvariant /\ [Next]_vars => ModulesInvariant'
    BY NextKeepsModules
  <1>. QED BY <1>1, <1>2, PTL DEF Spec

\* The Modules of the sources and of the copies live by the contract of ModuleLife under
\* every interleaving of the fork's goroutines with the module controller.
THEOREM ForkKeepsContract == Spec => ModulesKeepContract
  <1>1. Init => \A m \in Modules : Life(m)!LifeInit
    BY InitModules
  <1>2. ModulesInvariant /\ [Next]_vars =>
          [\A m \in Modules : Life(m)!LifeNext \/ UNCHANGED Life(m)!life]_<<objs, running>>
    BY NextKeepsModules DEF ContractStep
  <1>. QED BY <1>1, <1>2, ModulesInOrder, PTL DEF Spec, ModulesKeepContract

-----------------------------------------------------------------------------
(* What a goroutine leaves in the log. *)

\* Where a goroutine is once nothing is migrated any more, ...
Closing == {<<"restore", "source">>, <<"restore", "copy">>, <<"done">>}

\* ... and the phases of a Module that nobody will use again.
Over == {"uninstalling", "failed", "gone"}

Outcomes == {"none", "reported", "skipped"}

\* What is known of the outcome of one goroutine.
Told(g) ==
    /\ pc[g] \in {<<"unstarted">>, <<"create">>} => outcome[g] = "none"
    /\ pc[g] \in Closing /\ outcome[g] = "none" => \A x \in Items : Arrived(g, x)
    /\ outcome[g] = "skipped" => PVCs = <<>> \/ Server(g).phase \in Over

OutcomesInvariant == outcome \in [Copies -> Outcomes] /\ \A g \in Copies : Told(g)

LEMMA PatchedPhase ==
    ASSUME NEW m \in Modules, ModulesTypeOK, \E value \in BOOLEAN : Patched(m, value)
    PROVE  Server(m)'.phase = Server(m).phase
  <1>1. PICK value \in BOOLEAN : Patched(m, value)
    OBVIOUS
  <1>. DEFINE v == [Server(m) EXCEPT !.hibernated = value]
  <1>2. v \in Version /\ v.phase = Server(m).phase
    BY VersionsOf DEF Version
  <1>3. Server(m)' = v
    BY <1>1, <1>2, WrittenOver DEF Patched
  <1>. HIDE DEF v
  <1>. QED BY <1>2, <1>3

\* Only create makes a Module.
LEMMA NotMadeAnew ==
    ASSUME NEW m \in Modules, ModulesTypeOK, ModuleInOrder(m), Kept(m) \/ Minded(m) \/ Server(m).phase # "gone"
    PROVE  ~Made(m)
  <1>. SUFFICES ASSUME Made(m) PROVE FALSE
    OBVIOUS
  <1>1. objs[m] = <<NotFound>> /\ Server(m).phase = "gone" /\ Len(objs[m]) = 1
    BY NotMadeYet DEF Made
  <1>2. Minded(m)
    BY <1>1 DEF Minded
  <1>3. objs'[m] = objs[m]
    BY <1>1, <1>2, NothingToMind
  <1>4. PICK v : objs'[m] = Append(objs[m], v)
    BY DEF Made
  <1>5. Len(objs'[m]) = 2
    BY <1>1, <1>4
  <1>. QED BY <1>1, <1>3, <1>5

LEMMA MadeByCreate ==
    ASSUME ModulesInvariant, NEW g \in Copies, Goroutine(g), pc[g] # <<"create">>
    PROVE  ~Made(g)
  <1>1. ModulesTypeOK /\ ModuleInOrder(g) /\ g \in Modules /\ From[g] \in Modules /\ g # From[g]
        /\ DOMAIN pc = Copies /\ old[g] \in BOOLEAN
    BY RolesOf DEF ModulesInvariant, ModulesTypeOK
  <1>2. ASSUME Kept(g) \/ Server(g).phase # "gone" PROVE ~Made(g)
    BY <1>1, <1>2, NotMadeAnew
  <1>3. UNCHANGED <<objs, controller>> => ~Made(g)
    BY <1>1, <1>2, AllKept
  <1>4. CASE awaitCopy(g)
    BY <1>3, <1>4 DEF awaitCopy
  <1>5. CASE Inside(g)
    BY <1>1, <1>3, <1>5, InsideStep
  <1>6. ASSUME NEW role \in Roles, awaitSleep(g, role) PROVE ~Made(g)
    BY <1>3, <1>6 DEF awaitSleep
  <1>7. ASSUME NEW role \in Roles, hibernateModule(g, role) PROVE ~Made(g)
    <2>1. Kept(g) \/ Patched(g, TRUE)
      BY <1>1, <1>7, HibernateStep DEF ModuleOf
    <2>. QED BY <1>2, <2>1 DEF Patched
  <1>8. ASSUME NEW role \in Roles, restore(g, role) PROVE ~Made(g)
    <2>1. Kept(g) \/ Patched(g, RestoreTo(g, role))
      BY <1>1, <1>8, RestoreStep DEF ModuleOf
    <2>. QED BY <1>2, <2>1 DEF Patched
  <1>9. ~create(g)
    BY DEF create
  <1>. QED BY <1>4, <1>5, <1>6, <1>7, <1>8, <1>9, GoroutineCases

\* A Module that is over stays so, until one of its name is created.
LEMMA OverStays ==
    ASSUME NEW m \in Modules, ModulesTypeOK, ModuleInOrder(m), ModuleStep(m), ~Made(m),
           Server(m).phase \in Over
    PROVE  Server(m)'.phase \in Over
  <1>1. Server(m) \in Version /\ busy[m] \in Operations /\ objs[m] \in Seq(Version) /\ Len(objs[m]) >= 1
    BY VersionsOf DEF ModulesTypeOK
  <1>2. CASE Kept(m) \/ Decided(m)
    BY <1>2 DEF Kept, Decided, Resting, Server
  <1>3. CASE Delivered(m)
    <2>1. Server(m)' = Server(m)
      BY <1>1, <1>3, Superseded DEF Delivered, Server
    <2>. QED BY <2>1
  <1>4. CASE \E value \in BOOLEAN : Patched(m, value)
    BY <1>4, PatchedPhase
  <1>5. \A p : ~Worked(m, p)
    BY <1>1, OperationTable DEF Worked, ModuleInOrder, Fits, Operations, Transitional, Over
  <1>6. ASSUME NEW p \in Phase, Removed(m, p) PROVE Server(m)'.phase \in Over
    <2>. DEFINE v == [Server(m) EXCEPT !.phase = p]
    <2>1. v \in Version /\ v.phase = p
      BY <1>1 DEF Version
    <2>2. Server(m)' = v
      BY <1>6, <2>1, WrittenOver DEF Removed
    <2>3. p \in Over
      BY <1>6 DEF Removed, Over
    <2>. HIDE DEF v
    <2>. QED BY <2>1, <2>2, <2>3
  <1>. QED BY <1>2, <1>3, <1>4, <1>5, <1>6 DEF ModuleStep

\* What the cache shows of one that is over, the server confirms.
LEMMA SeenOver ==
    ASSUME NEW m \in Modules, ModulesTypeOK, ModuleInOrder(m), Cached(m).phase \in {"uninstalling", "failed"}
    PROVE  Server(m).phase \in Over
  <1>1. Cached(m) \in InFlight(m)
    BY VersionsOf
  <1>. QED BY <1>1 DEF ModuleInOrder, Follows, Over

LEMMA ClosingTable ==
    /\ \A x \in Loops \cup {<<"unstarted">>, <<"create">>, <<"await">>, <<"lost">>} : x \notin Closing
    /\ \A role \in Roles : <<"hibernate", role>> \notin Closing /\ <<"asleep", role>> \notin Closing
  BY LoopTable DEF Loops, Closing, Roles

\* One goroutine's step changes no other's outcome, ...
LEMMA OtherOutcomes ==
    ASSUME MigrationTypeOK, OutcomesInvariant, NEW g \in Copies, Goroutine(g)
    PROVE  /\ outcome' \in [Copies -> Outcomes]
           /\ \A h \in Copies : h # g => outcome'[h] = outcome[h] /\ \A x : Arrived(h, x)' <=> Arrived(h, x)
  <1>1. outcome \in [Copies -> Outcomes]
    BY DEF OutcomesInvariant
  <1>2. \/ UNCHANGED outcome
        \/ outcome' = [outcome EXCEPT ![g] = "reported"]
        \/ outcome' = [outcome EXCEPT ![g] = "skipped"]
    <2>1. CASE create(g) \/ awaitCopy(g)
      BY <2>1 DEF create, awaitCopy, Report, Skip
    <2>2. CASE Inside(g)
      BY <2>2 DEF Inside, migratePVC, createDestPod, waitForPodReady, migrateDataViaTar, cleanupPod,
         migrateObject, recreateObject, nextStage, Enter, Report
    <2>3. CASE \E role \in Roles : hibernateModule(g, role) \/ awaitSleep(g, role) \/ restore(g, role)
      BY <2>3 DEF hibernateModule, awaitSleep, restore, Enter, Report
    <2>. QED BY <2>1, <2>2, <2>3, GoroutineCases
  <1>3. outcome' \in [Copies -> Outcomes] /\ \A h \in Copies : h # g => outcome'[h] = outcome[h]
    BY <1>1, <1>2 DEF Outcomes
  <1>4. \A h \in Copies : h # g => vol'[h] = vol[h] /\ store'[h] = store[h] /\ logged'[h] = logged[h]
    <2>1. CASE UNCHANGED data
      BY <2>1 DEF data
    <2>2. CASE \/ migratePVC(g) \/ createDestPod(g) \/ waitForPodReady(g) \/ migrateDataViaTar(g)
      BY <2>2 DEF MigrationTypeOK, migratePVC, createDestPod, waitForPodReady, migrateDataViaTar, Log
    <2>3. CASE \E stage \in {"secrets", "configMaps"} : migrateObject(g, stage) \/ recreateObject(g, stage)
      BY <2>3 DEF MigrationTypeOK, migrateObject, recreateObject, Log
    <2>4. CASE \/ create(g) \/ awaitCopy(g) \/ nextStage(g)
               \/ \E role \in Roles : \/ hibernateModule(g, role) \/ awaitSleep(g, role)
                                      \/ cleanupPod(g, role) \/ restore(g, role)
      BY <2>1, <2>4 DEF create, awaitCopy, nextStage, hibernateModule, awaitSleep, cleanupPod, restore
    <2>. QED BY <2>2, <2>3, <2>4 DEF Goroutine
  <1>5. \A h \in Copies : h # g => \A x : Arrived(h, x)' <=> Arrived(h, x)
    BY <1>4 DEF Arrived
  <1>. QED BY <1>3, <1>5

\* ... and closes its own work with a word, with all of it settled, or where the copy shows why.
LEMMA GoroutineTells ==
    ASSUME ModulesInvariant, MigrationInvariant, OutcomesInvariant, NEW g \in Copies, Goroutine(g)
    PROVE  /\ pc'[g] \in Closing /\ outcome'[g] = "none" => \A x \in Items : Arrived(g, x)'
           /\ outcome'[g] = "skipped" => \/ outcome[g] = "skipped" /\ pc[g] # <<"create">>
                                         \/ PVCs = <<>>
                                         \/ Server(g).phase \in Over /\ Kept(g)
  <1>1. /\ DOMAIN pc = Copies /\ ModulesTypeOK /\ ModuleInOrder(g) /\ g \in Modules
        /\ outcome \in [Copies -> Outcomes] /\ Told(g) /\ MigrationTypeOK
    BY RolesOf DEF ModulesInvariant, ModulesTypeOK, OutcomesInvariant, MigrationInvariant
  <1>. DEFINE Goal == /\ pc'[g] \in Closing /\ outcome'[g] = "none" => \A x \in Items : Arrived(g, x)'
                      /\ outcome'[g] = "skipped" => \/ outcome[g] = "skipped" /\ pc[g] # <<"create">>
                                                    \/ PVCs = <<>>
                                                    \/ Server(g).phase \in Over /\ Kept(g)
  <1>2. Report(g) => Goal
    <2>. SUFFICES ASSUME Report(g) PROVE outcome'[g] = "reported"
      OBVIOUS
    <2>. QED BY <1>1 DEF Report
  <1>3. ASSUME UNCHANGED outcome, pc[g] # <<"create">> \/ outcome[g] = "none", pc'[g] \notin Closing
        PROVE  Goal
    BY <1>3
  <1>4. CASE create(g)
    <2>1. pc[g] = <<"create">> /\ outcome[g] = "none"
      BY <1>1, <1>4 DEF create, Told
    <2>2. Report(g) \/ (UNCHANGED outcome /\ pc'[g] = <<"await">>)
      BY <1>1, <1>4 DEF create, GoTo
    <2>. QED BY <1>2, <1>3, <2>1, <2>2, ClosingTable
  <1>5. CASE awaitCopy(g)
    <2>1. pc[g] = <<"await">> /\ pc[g] # <<"create">> /\ UNCHANGED <<objs, controller>>
      BY <1>5 DEF awaitCopy
    <2>2. Kept(g)
      BY <1>1, <2>1, AllKept
    <2>3. \/ Report(g)
          \/ UNCHANGED outcome /\ pc'[g] = <<"hibernate", "copy">>
          \/ Skip(g) /\ (Cached(g).phase \in {"uninstalling", "failed"} \/ PVCs = <<>>)
      BY <1>1, <1>5 DEF awaitCopy, GoTo
    <2>4. ASSUME Skip(g), Cached(g).phase \in {"uninstalling", "failed"} \/ PVCs = <<>> PROVE Goal
      <3>1. outcome'[g] = "skipped"
        BY <1>1, <2>4 DEF Skip
      <3>2. PVCs = <<>> \/ Server(g).phase \in Over
        BY <1>1, <2>4, SeenOver
      <3>. QED BY <2>2, <3>1, <3>2
    <2>5. <<"hibernate", "copy">> \notin Closing
      BY ClosingTable DEF Roles
    <2>. QED BY <1>2, <1>3, <2>1, <2>3, <2>4, <2>5
  <1>6. ASSUME NEW role \in Roles, hibernateModule(g, role) PROVE Goal
    <2>1. /\ pc[g] = <<"hibernate", role>>
          /\ Report(g) \/ (UNCHANGED outcome /\ pc'[g] = <<"asleep", role>>)
      BY <1>1, <1>6 DEF hibernateModule, GoTo
    <2>2. pc[g] # <<"create">>
      BY <2>1
    <2>. QED BY <1>2, <1>3, <2>1, <2>2, ClosingTable
  <1>7. ASSUME NEW role \in Roles, awaitSleep(g, role) PROVE Goal
    <2>1. /\ pc[g] = <<"asleep", role>>
          /\ \/ Report(g)
             \/ UNCHANGED outcome /\ pc'[g] \in {<<"hibernate", "source">>, <<"pvcs">>}
      BY <1>1, <1>7 DEF awaitSleep, Enter, GoTo
    <2>2. pc[g] # <<"create">>
      BY <2>1
    <2>3. <<"hibernate", "source">> \notin Closing /\ <<"pvcs">> \notin Closing
      BY ClosingTable, LoopTable DEF Roles, Loops
    <2>. QED BY <1>2, <1>3, <2>1, <2>2, <2>3
  <1>8. ASSUME NEW role \in Roles, restore(g, role) PROVE Goal
    <2>1. pc[g] = <<"restore", role>> /\ UNCHANGED <<outcome, vol, store, logged>>
      BY <1>8 DEF restore, data
    <2>2. pc[g] \in Closing /\ pc[g] # <<"create">>
      BY <2>1 DEF Roles, Closing
    <2>3. \A x : Arrived(g, x)' <=> Arrived(g, x)
      BY <2>1 DEF Arrived
    <2>. QED BY <1>1, <2>1, <2>2, <2>3 DEF Told
  <1>9. CASE nextStage(g) /\ pc[g] = <<"configMaps">>
    <2>1. left[g] = <<>> /\ UNCHANGED <<outcome, vol, store, logged>>
      BY <1>9 DEF nextStage, Enter, GoTo, data
    <2>2. Settled(g, ConfigMaps) /\ Settled(g, PVCs) /\ Settled(g, Secrets)
      BY <1>9, <2>1, LoopEnds, Lists DEF Stages
    <2>3. \A x \in Items : Arrived(g, x)
      BY <2>2, Lists DEF Settled, Items
    <2>4. \A x : Arrived(g, x)' <=> Arrived(g, x)
      BY <2>1 DEF Arrived
    <2>5. pc[g] # <<"create">>
      BY <1>9
    <2>. QED BY <2>1, <2>3, <2>4, <2>5
  <1>10. CASE Inside(g) /\ ~(nextStage(g) /\ pc[g] = <<"configMaps">>)
    <2>1. pc[g] # <<"create">>
      BY <1>1, <1>10, InsideStep, LoopTable DEF Loops
    <2>2. Report(g) \/ (UNCHANGED outcome /\ pc'[g] \in Loops)
      <3>1. CASE nextStage(g)
        BY <1>1, <1>10, <3>1, LoopTable DEF nextStage, Enter, GoTo, Loops
      <3>2. CASE \/ migratePVC(g) \/ createDestPod(g) \/ waitForPodReady(g) \/ migrateDataViaTar(g)
        BY <1>1, <3>2, LoopTable DEF Loops, migratePVC, createDestPod, waitForPodReady, migrateDataViaTar, GoTo
      <3>3. CASE \E role \in Roles : cleanupPod(g, role)
        BY <1>1, <3>3, LoopTable DEF Loops, cleanupPod, GoTo, Roles
      <3>4. CASE \E stage \in {"secrets", "configMaps"} : migrateObject(g, stage) \/ recreateObject(g, stage)
        BY <1>1, <3>4, LoopTable DEF Loops, migrateObject, recreateObject, GoTo
      <3>. QED BY <1>10, <3>1, <3>2, <3>3, <3>4 DEF Inside
    <2>. QED BY <1>2, <1>3, <2>1, <2>2, ClosingTable
  <1>11. Goal
    BY <1>4, <1>5, <1>6, <1>7, <1>8, <1>9, <1>10, GoroutineCases
  <1>. QED BY <1>11

LEMMA NextKeepsOutcomes ==
    ASSUME ModulesInvariant, MigrationInvariant, OutcomesInvariant, [Next]_vars
    PROVE  OutcomesInvariant'
  <1>1. /\ \A m \in Modules : ModuleStep(m) /\ ModuleInOrder(m)
        /\ ModulesTypeOK /\ MigrationTypeOK /\ Copies \subseteq Modules
        /\ outcome \in [Copies -> Outcomes] /\ \A g \in Copies : Told(g)
    BY EveryModule DEF ModulesInvariant, MigrationInvariant, OutcomesInvariant, Modules
  \* A step that is not the goroutine's.
  <1>2. ASSUME NEW h \in Copies, outcome'[h] = outcome[h], ~Made(h),
               \A x : Arrived(h, x)' <=> Arrived(h, x),
               \/ pc'[h] = pc[h] \/ pc'[h] = <<"lost">>
               \/ pc[h] = <<"unstarted">> /\ pc'[h] = <<"create">>
        PROVE  Told(h)'
    <2>1. Server(h).phase \in Over => Server(h)'.phase \in Over
      BY <1>1, <1>2, OverStays
    <2>2. <<"lost">> \notin {<<"unstarted">>, <<"create">>} /\ <<"lost">> \notin Closing /\ <<"create">> \notin Closing
      BY ClosingTable
    <2>. QED BY <1>1, <1>2, <2>1, <2>2 DEF Told
  <1>3. \A h \in Copies : Kept(h) \/ Minded(h) \/ Server(h).phase # "gone" => ~Made(h)
    BY <1>1, NotMadeAnew
  <1>4. UNCHANGED data => \A h \in Copies : \A x : Arrived(h, x)' <=> Arrived(h, x)
    BY DEF data, Arrived
  <1>5. ASSUME \A h \in Copies : ~Made(h), UNCHANGED <<outcome, data>>,
               \A h \in Copies : \/ pc'[h] = pc[h] \/ pc'[h] = <<"lost">>
                                 \/ pc[h] = <<"unstarted">> /\ pc'[h] = <<"create">>
        PROVE  OutcomesInvariant'
    BY <1>1, <1>2, <1>4, <1>5 DEF OutcomesInvariant
  <1>6. ASSUME NEW g \in Copies, Goroutine(g) PROVE OutcomesInvariant'
    <2>1. /\ \A h \in Copies : h # g => pc'[h] = pc[h] /\ Kept(h)
          /\ pc'[g] \notin {<<"unstarted">>, <<"create">>}
      BY <1>1, <1>6, GoroutineStep, ConstantsAssumption
    <2>2. /\ outcome' \in [Copies -> Outcomes]
          /\ \A h \in Copies : h # g => outcome'[h] = outcome[h] /\ \A x : Arrived(h, x)' <=> Arrived(h, x)
      BY <1>1, <1>6, OtherOutcomes
    <2>3. \A h \in Copies : h # g => Told(h)'
      BY <1>2, <1>3, <2>1, <2>2
    <2>4. Told(g)'
      <3>1. /\ pc'[g] \in Closing /\ outcome'[g] = "none" => \A x \in Items : Arrived(g, x)'
            /\ outcome'[g] = "skipped" => \/ outcome[g] = "skipped" /\ pc[g] # <<"create">>
                                          \/ PVCs = <<>>
                                          \/ Server(g).phase \in Over /\ Kept(g)
        BY <1>6, GoroutineTells
      <3>2. Kept(g) => Server(g)' = Server(g)
        BY DEF Kept, Resting, Server
      <3>3. pc[g] # <<"create">> => ~Made(g)
        BY <1>6, <1>1, <1>3, MadeByCreate
      <3>4. outcome[g] = "skipped" /\ pc[g] # <<"create">> => PVCs = <<>> \/ Server(g)'.phase \in Over
        BY <1>1, <3>3, OverStays DEF Told
      <3>. QED BY <2>1, <3>1, <3>2, <3>4 DEF Told
    <2>. QED BY <2>2, <2>3, <2>4 DEF OutcomesInvariant
  <1>7. ASSUME NEW n \in Modules, Controller(n) \/ deliver(n) \/ delete(n) PROVE OutcomesInvariant'
    <2>1. /\ UNCHANGED goroutine
          /\ \A m \in Modules : m # n => Kept(m)
          /\ Minded(n) \/ Server(n).phase # "gone"
      BY <1>1, <1>7, ControllerStep, DeliverStep, DeleteStep DEF Minded
    <2>2. UNCHANGED <<pc, outcome>>
      BY <2>1 DEF goroutine
    <2>3. UNCHANGED data
      BY <1>7 DEF Controller, decide, begin, finish, expire, uninstall, deliver, delete
    <2>. QED BY <1>1, <1>3, <1>5, <2>1, <2>2, <2>3
  <1>8. ASSUME NEW call, forkWorkspace(call) PROVE OutcomesInvariant'
    <2>1. \A m \in Modules : Kept(m)
      BY <1>1, <1>8, ForkStep, AllKept
    <2>2. \A h \in Copies : pc'[h] = pc[h] \/ (pc[h] = <<"unstarted">> /\ pc'[h] = <<"create">>)
      BY <1>1, <1>8, ForkStep
    <2>3. UNCHANGED <<outcome, data>>
      BY <1>8 DEF forkWorkspace
    <2>. QED BY <1>1, <1>3, <1>5, <2>1, <2>2, <2>3
  <1>9. CASE podGone \/ UNCHANGED vars
    <2>1. UNCHANGED <<objs, controller, goroutine, data>>
      BY <1>9 DEF podGone, vars
    <2>2. UNCHANGED <<pc, outcome>>
      BY <2>1 DEF goroutine
    <2>3. \A m \in Modules : Kept(m)
      BY <2>1, AllKept
    <2>. QED BY <1>1, <1>3, <1>5, <2>1, <2>2, <2>3
  <1>10. CASE restart
    <2>1. \A m \in Modules : Decided(m)
      BY <1>1, <1>10, RestartStep
    <2>2. \A h \in Copies : pc'[h] = pc[h] \/ pc'[h] = <<"lost">>
      BY <1>1, <1>10, RestartStep
    <2>3. UNCHANGED <<outcome, data>>
      BY <1>10 DEF restart
    <2>4. \A h \in Copies : ~Made(h)
      BY <1>1, <1>3, <2>1 DEF Minded
    <2>. QED BY <1>5, <2>2, <2>3, <2>4
  <1>11. ASSUME NEW s \in Sources, NEW value \in BOOLEAN, setHibernated(s, value) PROVE OutcomesInvariant'
    <2>1. UNCHANGED goroutine /\ \A m \in Modules : m # s => Kept(m)
      BY <1>1, <1>11, SetHibernatedStep
    <2>2. UNCHANGED <<pc, outcome>>
      BY <2>1 DEF goroutine
    <2>3. UNCHANGED data
      BY <1>11 DEF setHibernated
    <2>4. s \notin Copies
      BY ConstantsAssumption
    <2>. QED BY <1>1, <1>3, <1>5, <2>1, <2>2, <2>3, <2>4
  <1>. QED BY <1>6, <1>7, <1>8, <1>9, <1>10, <1>11 DEF Next

LEMMA InitOutcomes == Init => OutcomesInvariant
  <1>. SUFFICES ASSUME Init PROVE OutcomesInvariant
    OBVIOUS
  <1>1. pc = [g \in Copies |-> <<"unstarted">>] /\ outcome = [g \in Copies |-> "none"]
    BY DEF Init
  <1>. QED BY <1>1, ClosingTable DEF OutcomesInvariant, Told, Outcomes

\* A goroutine of forkWorkspace that is done has logged an error of its own, or every PVC,
\* Secret and ConfigMap has arrived or its error was logged; it leaves without a word only
\* where no PVC is listed or where its copy failed or is deleted.
THEOREM NothingDropped == Spec => []NothingDroppedSilently
  <1>1. OutcomesInvariant => NothingDroppedSilently
    BY DEF OutcomesInvariant, Told, NothingDroppedSilently, Closing, Over
  <1>2. ModulesInvariant /\ MigrationInvariant /\ OutcomesInvariant /\ [Next]_vars => OutcomesInvariant'
    BY NextKeepsOutcomes
  <1>. QED BY <1>1, <1>2, InitOutcomes, ModulesInOrder, MigrationsAccountedFor, PTL DEF Spec

-----------------------------------------------------------------------------
(* Sleep under the controller's hands. *)

\* What the controller and the watch may do to the versions of a Module.
LEMMA MindedEffect ==
    ASSUME NEW m \in Modules, ModulesTypeOK, ModuleInOrder(m), Minded(m)
    PROVE  /\ Server(m)' \in Version /\ Server(m)'.hibernated = Server(m).hibernated
           /\ InFlight(m)' \subseteq InFlight(m) \cup {Server(m)'}
           /\ \/ /\ Server(m)' = Server(m) /\ InFlight(m)' \subseteq InFlight(m)
                 /\ busy'[m] \in {busy[m], "idle", Due(Cached(m))}
              \/ /\ Server(m).phase \notin {"sleeped", "failed", "uninstalling"} \/ busy[m] = "resume"
                 /\ busy[m] = "resume" => Server(m).phase # "failed"
                 /\ busy'[m] \in {busy[m], "idle"}
                 /\ Server(m)'.phase \in {"installing", "sleeping", "resuming", "ready", "sleeped", "failed"}
                 /\ Server(m)'.phase = "resuming" => busy[m] = "resume"
                 /\ Server(m)'.phase \in {"sleeping", "sleeped"} => busy[m] = "sleep"
  <1>1. /\ objs[m] \in Seq(Version) /\ Len(objs[m]) >= 1 /\ Server(m) \in Version /\ busy[m] \in Operations
    BY VersionsOf DEF ModulesTypeOK
  <1>2. CASE Kept(m) \/ Decided(m)
    <2>1. Server(m)' = Server(m) /\ InFlight(m)' = InFlight(m)
      BY <1>2 DEF Kept, Decided, Resting, Server, InFlight
    <2>2. busy'[m] \in {busy[m], "idle", Due(Cached(m))}
      BY <1>2 DEF Kept, Decided
    <2>. QED BY <1>1, <2>1, <2>2
  <1>3. CASE Delivered(m)
    <2>1. Server(m)' = Server(m) /\ InFlight(m)' \subseteq InFlight(m)
      BY <1>1, <1>3, Superseded DEF Delivered, Server, InFlight
    <2>. QED BY <1>1, <1>3, <2>1 DEF Delivered
  <1>4. ASSUME NEW p \in Phase, Worked(m, p)
        PROVE  /\ Server(m)' \in Version /\ Server(m)'.hibernated = Server(m).hibernated
               /\ InFlight(m)' \subseteq InFlight(m) \cup {Server(m)'}
               /\ Server(m).phase \notin {"sleeped", "failed", "uninstalling"} \/ busy[m] = "resume"
               /\ busy[m] = "resume" => Server(m).phase # "failed"
               /\ busy'[m] \in {busy[m], "idle"}
               /\ Server(m)'.phase \in {"installing", "sleeping", "resuming", "ready", "sleeped", "failed"}
               /\ Server(m)'.phase = "resuming" => busy[m] = "resume"
               /\ Server(m)'.phase \in {"sleeping", "sleeped"} => busy[m] = "sleep"
    <2>. DEFINE v == [Server(m) EXCEPT !.phase = p]
    <2>1. v \in Version /\ v.phase = p /\ v.hibernated = Server(m).hibernated
      BY <1>1 DEF Version
    <2>2. Server(m)' = v /\ InFlight(m)' = InFlight(m) \cup {v}
      BY <1>4, <2>1, WrittenOver DEF Worked
    <2>. HIDE DEF v
    <2>3. /\ Server(m).phase \notin {"sleeped", "failed", "uninstalling"} \/ busy[m] = "resume"
          /\ busy[m] = "resume" => Server(m).phase # "failed"
      BY <1>1, <1>4, OperationTable DEF Worked, ModuleInOrder, Fits, Operations, Transitional
    <2>4. /\ p \in {"installing", "sleeping", "resuming", "ready", "sleeped", "failed"}
          /\ p = "resuming" => busy[m] = "resume"
          /\ p \in {"sleeping", "sleeped"} => busy[m] = "sleep"
      BY <1>1, <1>4, OperationTable DEF Worked, Operations
    <2>5. busy'[m] \in {busy[m], "idle"}
      BY <1>4 DEF Worked
    <2>. QED BY <2>1, <2>2, <2>3, <2>4, <2>5
  <1>. QED BY <1>2, <1>3, <1>4 DEF Minded

LEMMA AwakeMinded ==
    ASSUME NEW m \in Modules, ModulesTypeOK, ModuleInOrder(m), Minded(m), Awake(m)
    PROVE  Awake(m)'
  <1>1. Server(m) \in InFlight(m) /\ Cached(m) \in InFlight(m)
    BY VersionsOf
  <1>2. busy'[m] \notin {"sleep", "resume"}
    <2>1. Due(Cached(m)) \notin {"sleep", "resume"}
      BY <1>1 DEF Awake, Due
    <2>. QED BY <2>1, MindedEffect DEF Awake
  <1>3. \A v \in InFlight(m)' :
         ~v.hibernated /\ v.phase \notin {"sleeping", "sleeped", "resuming", "uninstalling"}
    <2>1. ~Server(m)'.hibernated /\ Server(m)'.phase \notin {"sleeping", "sleeped", "resuming", "uninstalling"}
      BY <1>1, MindedEffect DEF Awake
    <2>. QED BY <2>1, MindedEffect DEF Awake
  <1>. QED BY <1>2, <1>3 DEF Awake

LEMMA LulledMinded ==
    ASSUME NEW m \in Modules, ModulesTypeOK, ModuleInOrder(m), Minded(m), Lulled(m)
    PROVE  Lulled(m)' /\ (Down(m) => Down(m)')
  <1>1. Server(m) \in InFlight(m) /\ Cached(m) \in InFlight(m)
    BY VersionsOf
  <1>2. busy'[m] # "resume"
    <2>1. Due(Cached(m)) # "resume"
      BY <1>1 DEF Lulled, Due
    <2>. QED BY <2>1, MindedEffect DEF Lulled
  <1>3. Server(m)'.hibernated /\ Server(m)'.phase \notin {"resuming", "uninstalling"}
    BY <1>1, MindedEffect DEF Lulled
  <1>4. \A v \in InFlight(m)' :
         (v.phase = "sleeped" => v.hibernated) /\ v.phase \notin {"resuming", "uninstalling"}
    BY <1>3, MindedEffect DEF Lulled
  <1>5. Lulled(m)'
    BY <1>2, <1>3, <1>4 DEF Lulled
  <1>6. Server(m).phase = "sleeped" => Server(m)'.phase = "sleeped"
    BY MindedEffect DEF Lulled
  <1>. QED BY <1>5, <1>6 DEF Down

LEMMA UntouchedMinded ==
    ASSUME NEW s \in Sources, ModulesTypeOK, ModuleInOrder(s), Minded(s), UNCHANGED wanted, Untouched(s)
    PROVE  Untouched(s)'
  <1>1. s \in Modules
    BY DEF Modules
  <1>2. Server(s) \in InFlight(s)
    BY <1>1, VersionsOf
  <1>3. \A v \in InFlight(s)' : v.hibernated = wanted[s]
    BY <1>1, <1>2, MindedEffect DEF Untouched
  <1>4. wanted[s] => Lulled(s)'
    BY <1>1, LulledMinded DEF Untouched
  <1>5. ~wanted[s] => Awake(s)'
    BY <1>1, AwakeMinded DEF Untouched
  <1>. QED BY <1>3, <1>4, <1>5 DEF Untouched

\* A merge patch to hibernate.
LEMMA PatchEffect ==
    ASSUME NEW m \in Modules, ModulesTypeOK, NEW value \in BOOLEAN, Patched(m, value)
    PROVE  /\ Server(m)' \in Version /\ Server(m)'.hibernated = value /\ Server(m)'.phase = Server(m).phase
           /\ InFlight(m)' = InFlight(m) \cup {Server(m)'} /\ busy'[m] = busy[m]
  <1>. DEFINE v == [Server(m) EXCEPT !.hibernated = value]
  <1>1. v \in Version /\ v.phase = Server(m).phase /\ v.hibernated = value
    BY VersionsOf DEF Version
  <1>2. Server(m)' = v /\ InFlight(m)' = InFlight(m) \cup {v}
    BY <1>1, WrittenOver DEF Patched
  <1>. HIDE DEF v
  <1>. QED BY <1>1, <1>2 DEF Patched

LEMMA PutToSleep ==
    ASSUME NEW m \in Modules, ModulesTypeOK, Patched(m, TRUE), Awake(m) \/ Lulled(m)
    PROVE  Lulled(m)'
  <1>1. Server(m) \in InFlight(m)
    BY VersionsOf
  <1>2. /\ Server(m)'.hibernated = TRUE /\ Server(m)'.phase \notin {"resuming", "uninstalling"}
        /\ InFlight(m)' = InFlight(m) \cup {Server(m)'} /\ busy'[m] = busy[m]
    BY <1>1, PatchEffect DEF Awake, Lulled
  <1>3. busy[m] # "resume"
    BY DEF Awake, Lulled
  <1>4. \A v \in InFlight(m) :
         (v.phase = "sleeped" => v.hibernated) /\ v.phase \notin {"resuming", "uninstalling"}
    BY DEF Awake, Lulled
  <1>. QED BY <1>2, <1>3, <1>4 DEF Lulled

\* What the cache shows of a Module that was put to sleep.
LEMMA SeenAsleep ==
    ASSUME NEW m \in Modules, ModulesTypeOK, ModuleInOrder(m), Lulled(m)
    PROVE  /\ Asleep(Cached(m)) => Down(m) /\ Cached(m).hibernated
           /\ Cached(m).phase = "failed" => Server(m).phase = "failed"
           /\ Cached(m).phase # "uninstalling"
  <1>1. Server(m) \in InFlight(m) /\ Cached(m) \in InFlight(m)
    BY VersionsOf
  <1>2. Cached(m).phase = Server(m).phase \/ Follows(Cached(m).phase, Server(m).phase)
    BY <1>1 DEF ModuleInOrder
  <1>3. Server(m).phase \notin {"resuming", "uninstalling"} /\ Cached(m).phase # "uninstalling"
    BY <1>1 DEF Lulled
  <1>4. Cached(m).phase \in {"sleeped", "failed"} => Server(m).phase = Cached(m).phase
    BY <1>2, <1>3 DEF Follows
  <1>. QED BY <1>1, <1>3, <1>4 DEF Lulled, Down, Asleep

\* The labels of the goroutines, apart.
LEMMA LabelTable ==
    /\ \A x \in Early : x \notin BothDown \cup {<<"asleep", "source">>, <<"restore", "copy">>, <<"done">>}
    /\ \A x \in BothDown : x \notin {<<"await">>, <<"hibernate", "copy">>, <<"asleep", "copy">>,
                                     <<"hibernate", "source">>, <<"unstarted">>, <<"asleep", "source">>,
                                     <<"restore", "copy">>, <<"done">>, <<"lost">>}
    /\ <<"restore", "source">> \in BothDown /\ <<"pvcs">> \in BothDown /\ <<"tar">> \in BothDown
    /\ Loops \subseteq BothDown /\ <<"lost">> \notin Labels
  BY LoopTable DEF Early, BothDown, Loops, Labels

LEMMA KeptHolds ==
    ASSUME NEW m, Kept(m)
    PROVE  /\ Server(m)' = Server(m) /\ InFlight(m)' = InFlight(m) /\ Cached(m)' = Cached(m)
           /\ (Awake(m) => Awake(m)') /\ (Lulled(m) => Lulled(m)') /\ (Down(m) => Down(m)')
           /\ wanted'[m] = wanted[m] => (Untouched(m) => Untouched(m)')
  <1>1. /\ Server(m)' = Server(m) /\ InFlight(m)' = InFlight(m) /\ Cached(m)' = Cached(m)
        /\ busy'[m] = busy[m]
    BY DEF Kept, Resting, Server, InFlight, Cached
  <1>2. (Awake(m) => Awake(m)') /\ (Lulled(m) => Lulled(m)')
    BY <1>1 DEF Awake, Lulled
  <1>3. Down(m) => Down(m)'
    BY <1>1, <1>2 DEF Down
  <1>4. wanted'[m] = wanted[m] => (Untouched(m) => Untouched(m)')
    BY <1>1, <1>2 DEF Untouched
  <1>. QED BY <1>1, <1>2, <1>3, <1>4

\* The Modules of a goroutine that does nothing, under hands that are not its own.
Watched(m) == Minded(m) \/ (Server(m).phase = "uninstalling" /\ \E p \in Phase : Removed(m, p))

LEMMA HeldWhileWaiting ==
    ASSUME NEW g \in Copies, ModulesTypeOK, ModuleInOrder(g), ModuleInOrder(From[g]),
           Held(g, pc[g]), Watched(g), Minded(From[g]),
           pc'[g] = pc[g], mine'[g] = mine[g], old'[g] = old[g], UNCHANGED wanted
    PROVE  Held(g, pc[g])'
  <1>1. g \in Modules /\ From[g] \in Modules /\ From[g] \in Sources
    BY RolesOf
  <1>. DEFINE s == From[g]
  <1>2. (Awake(g) => Awake(g)') /\ (Lulled(g) => Lulled(g)') /\ (Down(g) => Down(g)')
    <2>1. Awake(g) \/ Lulled(g) \/ Down(g) => Minded(g)
      <3>1. Server(g) \in InFlight(g)
        BY <1>1, VersionsOf
      <3>. QED BY <3>1 DEF Watched, Awake, Lulled, Down
    <2>. QED BY <1>1, <2>1, AwakeMinded, LulledMinded DEF Down
  <1>3. (Lulled(s) => Lulled(s)') /\ (Down(s) => Down(s)') /\ (Untouched(s) => Untouched(s)')
    BY <1>1, LulledMinded, UntouchedMinded DEF Down
  <1>4. /\ Server(s)'.hibernated = Server(s).hibernated
        /\ Server(s).phase = "failed" => Server(s)'.phase = "failed"
    BY <1>1, MindedEffect
  <1>. QED BY <1>2, <1>3, <1>4 DEF Held

LEMMA UntouchedAsWanted ==
    ASSUME NEW s \in Sources, ModulesTypeOK, Untouched(s)
    PROVE  /\ Server(s).hibernated = wanted[s] /\ Cached(s).hibernated = wanted[s]
           /\ Awake(s) \/ Lulled(s)
  <1>1. s \in Modules
    BY DEF Modules
  <1>2. Server(s) \in InFlight(s) /\ Cached(s) \in InFlight(s)
    BY <1>1, VersionsOf
  <1>. QED BY <1>2 DEF Untouched

\* One step of a goroutine, and what holds of its Modules at its next label.
LEMMA CreateHolds ==
    ASSUME NEW g \in Copies, ModulesTypeOK, ModuleInOrder(g), objs[g] = <<NotFound>>,
           Held(g, pc[g]), create(g)
    PROVE  pc'[g] \in Labels /\ Held(g, pc[g])'
  <1>. DEFINE s == From[g]
  <1>1. g \in Modules /\ s \in Modules /\ s \in Sources /\ s # g
    BY RolesOf
  <1>2. /\ UNCHANGED <<wanted, old>> /\ pc[g] = <<"create">>
        /\ Kept(s) /\ busy'[g] = busy[g] /\ mine'[g]["source"] = mine[g]["source"]
    BY <1>1, CreateStep DEF Kept, Made
  <1>3. Untouched(s) /\ mine[g]["source"].hibernated = wanted[s] /\ old[g] = wanted[s]
    BY <1>2 DEF Held, Early
  <1>4. Untouched(s)' /\ Server(s)' = Server(s) /\ Server(s).hibernated = wanted[s]
    BY <1>1, <1>2, <1>3, KeptHolds, UntouchedAsWanted
  <1>5. CASE pc'[g] = <<"done">>
    BY <1>2, <1>3, <1>4, <1>5, LabelTable DEF Held, Labels, Early
  <1>6. CASE pc'[g] = <<"await">>
    <2>1. Server(g).phase = "gone" /\ NotFound.phase = "gone" /\ ~NotFound.hibernated /\ busy[g] \in Operations
      BY <1>1, NotMadeYet, VersionsOf
    <2>2. busy[g] = "idle"
      BY <2>1 DEF ModuleInOrder, Fits, Operations
    <2>3. Awake(g)' \/ Lulled(g)'
      <3>1. busy'[g] = "idle"
        BY <1>2, <2>2
      <3>2. CASE Kept(g)
        <4>1. InFlight(g)' = {NotFound}
          BY <1>1, <3>2, NotMadeYet, KeptHolds
        <4>. QED BY <2>1, <3>1, <4>1 DEF Awake
      <3>3. CASE /\ Server(g)'.phase = "" /\ Server(g)'.hibernated = mine[g]["source"].hibernated
                 /\ InFlight(g)' = {NotFound, Server(g)'}
        <4>1. CASE mine[g]["source"].hibernated
          BY <2>1, <3>1, <3>3, <4>1 DEF Lulled
        <4>2. CASE ~mine[g]["source"].hibernated
          BY <2>1, <3>1, <3>3, <4>2 DEF Awake
        <4>. QED BY <4>1, <4>2
      <3>. QED BY <3>2, <3>3, CreateStep
    <2>4. <<"await">> \in Labels /\ <<"await">> \in Early
      BY DEF Labels, Early
    <2>5. /\ pc'[g] \notin BothDown \cup {<<"asleep", "source">>, <<"restore", "copy">>, <<"done">>}
          /\ pc'[g] \notin {<<"hibernate", "copy">>, <<"asleep", "copy">>, <<"hibernate", "source">>}
      <3>1. <<"await">> \notin {<<"hibernate", "copy">>, <<"asleep", "copy">>, <<"hibernate", "source">>}
        OBVIOUS
      <3>2. <<"await">> \notin BothDown \cup {<<"asleep", "source">>, <<"restore", "copy">>, <<"done">>}
        BY <2>4, LabelTable
      <3>. QED BY <1>6, <3>1, <3>2
    <2>6. mine'[g]["source"].hibernated = wanted'[s] /\ old'[g] = wanted'[s] /\ Untouched(s)'
      BY <1>2, <1>3, <1>4
    <2>7. Held(g, pc[g])'
      BY <2>3, <2>5, <2>6 DEF Held
    <2>. QED BY <1>6, <2>4, <2>7
  <1>7. pc'[g] \in {<<"await">>, <<"done">>}
    BY CreateStep
  <1>. QED BY <1>5, <1>6, <1>7

LEMMA AwaitCopyHolds ==
    ASSUME NEW g \in Copies, ModulesTypeOK, Held(g, pc[g]), awaitCopy(g)
    PROVE  pc'[g] \in Labels /\ Held(g, pc[g])'
  <1>. DEFINE s == From[g]
  <1>1. g \in Modules /\ s \in Modules /\ s \in Sources
    BY RolesOf
  <1>2. UNCHANGED <<objs, controller, wanted, old>> /\ pc[g] = <<"await">>
    BY AwaitCopyStep
  <1>3. Kept(s) /\ Kept(g)
    BY <1>1, <1>2, AllKept
  <1>4. /\ Untouched(s) /\ mine[g]["source"].hibernated = wanted[s] /\ old[g] = wanted[s]
        /\ Awake(g) \/ Lulled(g)
    BY <1>2 DEF Held, Early
  <1>5. /\ Untouched(s)' /\ Server(s)' = Server(s) /\ Server(s).hibernated = wanted[s]
        /\ Awake(g)' \/ Lulled(g)'
    BY <1>1, <1>2, <1>3, <1>4, KeptHolds, UntouchedAsWanted
  <1>6. CASE pc'[g] = <<"done">>
    BY <1>2, <1>4, <1>5, <1>6, LabelTable DEF Held, Labels, Early
  <1>7. CASE /\ pc'[g] = <<"hibernate", "copy">>
             /\ mine'[g]["copy"] = Cached(g) /\ mine'[g]["source"] = mine[g]["source"]
    <2>1. Cached(g).hibernated => Lulled(g)'
      <3>1. Cached(g) \in InFlight(g)
        BY <1>1, VersionsOf
      <3>2. Cached(g).hibernated => Lulled(g)
        BY <1>4, <3>1 DEF Awake
      <3>. QED BY <1>3, <3>2, KeptHolds
    <2>2. <<"hibernate", "copy">> \in Labels /\ <<"hibernate", "copy">> \in Early
      BY DEF Labels, Early
    <2>. QED BY <1>2, <1>4, <1>5, <1>7, <2>1, <2>2, LabelTable DEF Held
  <1>. QED BY <1>6, <1>7, AwaitCopyStep

LEMMA HibernateCopyHolds ==
    ASSUME NEW g \in Copies, ModulesTypeOK, Held(g, pc[g]), hibernateModule(g, "copy")
    PROVE  pc'[g] \in Labels /\ Held(g, pc[g])'
  <1>. DEFINE s == From[g]
  <1>1. g \in Modules /\ s \in Modules /\ s \in Sources /\ s # g /\ ModuleOf(g, "copy") = g
    BY RolesOf
  <1>2. /\ "copy" \in Roles /\ "source" \in Roles
    BY DEF Roles
  <1>3. /\ UNCHANGED <<wanted, old>> /\ pc[g] = <<"hibernate", "copy">> /\ Kept(s)
        /\ mine'[g]["source"] = mine[g]["source"]
        /\ \/ Kept(g) /\ mine[g]["copy"].hibernated /\ pc'[g] = <<"asleep", "copy">>
           \/ Patched(g, TRUE) /\ pc'[g] = <<"asleep", "copy">>
           \/ pc'[g] = <<"done">>
    BY <1>1, <1>2, HibernateStep DEF AfterError
  <1>4. /\ Untouched(s) /\ mine[g]["source"].hibernated = wanted[s] /\ old[g] = wanted[s]
        /\ Awake(g) \/ Lulled(g)
        /\ mine[g]["copy"].hibernated => Lulled(g)
    BY <1>3 DEF Held, Early
  <1>5. Untouched(s)' /\ Server(s)' = Server(s) /\ Server(s).hibernated = wanted[s]
    BY <1>1, <1>3, <1>4, KeptHolds, UntouchedAsWanted
  <1>6. CASE pc'[g] = <<"done">>
    BY <1>3, <1>4, <1>5, <1>6, LabelTable DEF Held, Labels, Early
  <1>7. CASE pc'[g] = <<"asleep", "copy">> /\ (Patched(g, TRUE) \/ (Kept(g) /\ mine[g]["copy"].hibernated))
    <2>1. Lulled(g)'
      BY <1>1, <1>4, <1>7, KeptHolds, PutToSleep
    <2>2. <<"asleep", "copy">> \in Labels /\ <<"asleep", "copy">> \in Early
      BY DEF Labels, Early
    <2>. QED BY <1>3, <1>4, <1>5, <1>7, <2>1, <2>2, LabelTable DEF Held
  <1>. QED BY <1>3, <1>6, <1>7

LEMMA CopyAsleepHolds ==
    ASSUME NEW g \in Copies, ModulesTypeOK, ModuleInOrder(g), Held(g, pc[g]), awaitSleep(g, "copy")
    PROVE  pc'[g] \in Labels /\ Held(g, pc[g])'
  <1>. DEFINE s == From[g]
  <1>1. g \in Modules /\ s \in Modules /\ s \in Sources /\ s # g /\ ModuleOf(g, "copy") = g
    BY RolesOf
  <1>2. /\ "copy" \in Roles /\ "source" \in Roles
    BY DEF Roles
  <1>3. /\ UNCHANGED <<objs, controller, wanted, old>> /\ pc[g] = <<"asleep", "copy">>
        /\ \/ /\ Asleep(Cached(g)) /\ mine'[g]["source"] = mine[g]["source"]
              /\ pc'[g] = <<"hibernate", "source">>
           \/ pc'[g] = <<"done">>
    BY <1>1, <1>2, AwaitSleepStep DEF AfterError
  <1>4. Kept(s) /\ Kept(g)
    BY <1>1, <1>3, AllKept
  <1>5. /\ Untouched(s) /\ mine[g]["source"].hibernated = wanted[s] /\ old[g] = wanted[s] /\ Lulled(g)
    BY <1>3 DEF Held, Early
  <1>6. Untouched(s)' /\ Server(s)' = Server(s) /\ Server(s).hibernated = wanted[s]
    BY <1>1, <1>3, <1>4, <1>5, KeptHolds, UntouchedAsWanted
  <1>7. CASE pc'[g] = <<"done">>
    BY <1>3, <1>5, <1>6, <1>7, LabelTable DEF Held, Labels, Early
  <1>8. CASE /\ Asleep(Cached(g)) /\ mine'[g]["source"] = mine[g]["source"]
             /\ pc'[g] = <<"hibernate", "source">>
    <2>1. Down(g)'
      BY <1>1, <1>4, <1>5, <1>8, KeptHolds, SeenAsleep
    <2>2. <<"hibernate", "source">> \in Labels /\ <<"hibernate", "source">> \in Early
      BY DEF Labels, Early
    <2>. QED BY <1>3, <1>5, <1>6, <1>8, <2>1, <2>2, LabelTable DEF Held
  <1>. QED BY <1>3, <1>7, <1>8

LEMMA HibernateSourceHolds ==
    ASSUME NEW g \in Copies, ModulesTypeOK, Held(g, pc[g]), hibernateModule(g, "source")
    PROVE  pc'[g] \in Labels /\ Held(g, pc[g])'
  <1>. DEFINE s == From[g]
  <1>1. g \in Modules /\ s \in Modules /\ s \in Sources /\ s # g /\ ModuleOf(g, "source") = s
    BY RolesOf
  <1>2. /\ "source" \in Roles /\ "source" # "copy"
    BY DEF Roles
  <1>3. /\ UNCHANGED <<wanted, old>> /\ pc[g] = <<"hibernate", "source">> /\ Kept(g)
        /\ \/ Kept(s) /\ mine[g]["source"].hibernated /\ pc'[g] = <<"asleep", "source">>
           \/ Patched(s, TRUE) /\ pc'[g] = <<"asleep", "source">>
           \/ Kept(s) /\ pc'[g] = <<"restore", "copy">>
    BY <1>1, <1>2, HibernateStep DEF AfterError
  <1>4. /\ Untouched(s) /\ mine[g]["source"].hibernated = wanted[s] /\ old[g] = wanted[s] /\ Down(g)
    BY <1>3 DEF Held, Early
  <1>5. Down(g)' /\ Server(s).hibernated = wanted[s] /\ (Awake(s) \/ Lulled(s)) /\ (wanted[s] => Lulled(s))
    BY <1>1, <1>3, <1>4, KeptHolds, UntouchedAsWanted DEF Untouched
  <1>6. CASE Kept(s) /\ pc'[g] = <<"restore", "copy">>
    <2>1. Server(s)' = Server(s)
      BY <1>6, KeptHolds
    <2>. QED BY <1>3, <1>4, <1>5, <1>6, <2>1, LabelTable DEF Held, Labels, Early
  <1>7. CASE pc'[g] = <<"asleep", "source">> /\ (Patched(s, TRUE) \/ (Kept(s) /\ mine[g]["source"].hibernated))
    <2>1. Lulled(s)'
      BY <1>1, <1>4, <1>5, <1>7, KeptHolds, PutToSleep
    <2>2. <<"asleep", "source">> \in Labels /\ <<"asleep", "source">> \notin Early \cup BothDown
      BY LabelTable DEF Labels
    <2>. QED BY <1>3, <1>4, <1>5, <1>7, <2>1, <2>2 DEF Held
  <1>. QED BY <1>3, <1>6, <1>7

LEMMA SourceAsleepHolds ==
    ASSUME NEW g \in Copies, ModulesTypeOK, ModuleInOrder(From[g]), Held(g, pc[g]), awaitSleep(g, "source"),
           ~Mishap
    PROVE  pc'[g] \in Labels /\ Held(g, pc[g])'
  <1>. DEFINE s == From[g]
  <1>1. g \in Modules /\ s \in Modules /\ s \in Sources /\ s # g /\ ModuleOf(g, "source") = s
    BY RolesOf
  <1>2. /\ "source" \in Roles /\ "source" # "copy"
    BY DEF Roles
  <1>3. /\ UNCHANGED <<objs, controller, wanted, old>> /\ pc[g] = <<"asleep", "source">>
        /\ \/ /\ Asleep(Cached(s)) /\ mine'[g]["source"] = Cached(s)
              /\ pc'[g] \in {<<"pvcs">>, <<"restore", "source">>}
           \/ /\ pc'[g] = <<"restore", "copy">> /\ Cached(s).phase \in {"uninstalling", "failed"}
    BY <1>1, <1>2, AwaitSleepStep DEF AfterError
  <1>4. Kept(s) /\ Kept(g)
    BY <1>1, <1>3, AllKept
  <1>5. old[g] = wanted[s] /\ Down(g) /\ Lulled(s)
    BY <1>3 DEF Held
  <1>6. Down(g)' /\ Lulled(s)' /\ Server(s)' = Server(s)
    BY <1>4, <1>5, KeptHolds
  <1>7. CASE pc'[g] = <<"restore", "copy">> /\ Cached(s).phase \in {"uninstalling", "failed"}
    <2>1. Server(s).phase = "failed"
      BY <1>1, <1>5, <1>7, SeenAsleep
    <2>2. <<"restore", "copy">> \in Labels /\ <<"restore", "copy">> \notin Early \cup BothDown
      BY LabelTable DEF Labels
    <2>. QED BY <1>3, <1>5, <1>6, <1>7, <2>1, <2>2 DEF Held
  <1>8. CASE /\ Asleep(Cached(s)) /\ mine'[g]["source"] = Cached(s)
             /\ pc'[g] \in {<<"pvcs">>, <<"restore", "source">>}
    <2>1. Down(s)' /\ Cached(s).hibernated
      BY <1>1, <1>4, <1>5, <1>8, KeptHolds, SeenAsleep
    <2>2. pc'[g] \in BothDown /\ BothDown \subseteq Labels
      BY <1>8, LabelTable DEF Labels
    <2>. QED BY <1>3, <1>5, <1>6, <1>8, <2>1, <2>2, LabelTable DEF Held
  <1>. QED BY <1>3, <1>7, <1>8

LEMMA InsideHolds ==
    ASSUME NEW g \in Copies, ModulesTypeOK, Held(g, pc[g]), Inside(g)
    PROVE  pc'[g] \in Labels /\ Held(g, pc[g])'
  <1>. DEFINE s == From[g]
  <1>1. g \in Modules /\ s \in Modules
    BY RolesOf
  <1>2. /\ UNCHANGED <<objs, controller, wanted, mine, old>>
        /\ pc[g] \in BothDown /\ pc'[g] \in BothDown
    BY InsideStep, LabelTable DEF ModulesTypeOK
  <1>3. Kept(s) /\ Kept(g)
    BY <1>1, <1>2, AllKept
  <1>4. old[g] = wanted[s] /\ Down(g) /\ Down(s) /\ mine[g]["source"].hibernated
    BY <1>2, LabelTable DEF Held
  <1>5. Down(g)' /\ Down(s)'
    BY <1>3, <1>4, KeptHolds
  <1>6. pc'[g] \in Labels
    BY <1>2 DEF Labels
  <1>. QED BY <1>2, <1>4, <1>5, <1>6, LabelTable DEF Held

LEMMA RestoreSourceHolds ==
    ASSUME NEW g \in Copies, ModulesTypeOK, Held(g, pc[g]), restore(g, "source"),
           Server(From[g]).phase # "gone", ~Mishap
    PROVE  pc'[g] \in Labels /\ Held(g, pc[g])'
  <1>. DEFINE s == From[g]
  <1>1. g \in Modules /\ s \in Modules /\ s \in Sources /\ s # g /\ ModuleOf(g, "source") = s
    BY RolesOf
  <1>2. "source" \in Roles /\ old[g] \in BOOLEAN
    BY DEF Roles, ModulesTypeOK
  <1>3. ~PatchFails(s) /\ RestoreTo(g, "source") = old[g] /\ AfterRestore("source") = <<"restore", "copy">>
    BY DEF PatchFails, RestoreTo, AfterRestore
  <1>4. /\ UNCHANGED <<wanted, old, mine>> /\ pc[g] = <<"restore", "source">>
        /\ pc'[g] = <<"restore", "copy">>
        /\ \/ Kept(s) /\ mine[g]["source"].hibernated = old[g]
           \/ Patched(s, old[g])
    BY <1>1, <1>2, <1>3, RestoreStep
  <1>5. old[g] = wanted[s] /\ Down(s) /\ mine[g]["source"].hibernated
    BY <1>4, LabelTable DEF Held
  <1>6. Server(s)'.hibernated = old[g]
    <2>1. CASE Kept(s) /\ mine[g]["source"].hibernated = old[g]
      <3>1. Server(s)'.hibernated = Server(s).hibernated /\ Server(s).hibernated /\ Server(s) \in Version
        BY <1>1, <1>5, <2>1, KeptHolds, VersionsOf DEF Down, Lulled
      <3>2. Server(s).hibernated = TRUE
        BY <3>1 DEF Version
      <3>3. old[g] = TRUE
        BY <1>2, <1>5, <2>1
      <3>. QED BY <3>1, <3>2, <3>3
    <2>2. CASE Patched(s, old[g])
      BY <1>1, <1>2, <2>2, PatchEffect
    <2>. QED BY <1>4, <2>1, <2>2
  <1>7. <<"restore", "copy">> \in Labels /\ <<"restore", "copy">> \notin Early \cup BothDown
    BY LabelTable DEF Labels
  <1>8. Server(s)'.hibernated = wanted'[s] /\ old'[g] = wanted'[s]
    BY <1>4, <1>5, <1>6
  <1>. QED BY <1>4, <1>7, <1>8 DEF Held

LEMMA RestoreCopyHolds ==
    ASSUME NEW g \in Copies, ModulesTypeOK, Held(g, pc[g]), restore(g, "copy")
    PROVE  pc'[g] \in Labels /\ Held(g, pc[g])'
  <1>. DEFINE s == From[g]
  <1>1. g \in Modules /\ s \in Modules /\ s # g /\ ModuleOf(g, "copy") = g
    BY RolesOf
  <1>2. "copy" \in Roles /\ old[g] \in BOOLEAN
    BY DEF Roles, ModulesTypeOK
  <1>3. /\ UNCHANGED <<wanted, old>> /\ pc[g] = <<"restore", "copy">> /\ pc'[g] = <<"done">> /\ Kept(s)
    BY <1>1, <1>2, RestoreStep DEF AfterRestore
  <1>4. old[g] = wanted[s] /\ (Server(s).hibernated = wanted[s] \/ Server(s).phase = "failed")
    BY <1>3 DEF Held
  <1>5. Server(s)' = Server(s)
    BY <1>3, KeptHolds
  <1>6. <<"done">> \in Labels /\ <<"done">> \notin Early \cup BothDown
    BY LabelTable DEF Labels
  <1>. QED BY <1>3, <1>4, <1>5, <1>6 DEF Held

LEMMA GoroutineHolds ==
    ASSUME ModulesInvariant, NEW g \in Copies, Held(g, pc[g]), Goroutine(g), ~Mishap,
           Server(From[g]).phase # "gone"
    PROVE  pc'[g] \in Labels /\ Held(g, pc[g])'
  <1>1. ModulesTypeOK /\ ModuleInOrder(g) /\ ModuleInOrder(From[g]) /\ NotMade(g)
    BY RolesOf DEF ModulesInvariant
  <1>2. create(g) => objs[g] = <<NotFound>>
    BY <1>1 DEF create, NotMade
  <1>3. ASSUME NEW role \in Roles, hibernateModule(g, role) \/ awaitSleep(g, role) \/ restore(g, role)
        PROVE  pc'[g] \in Labels /\ Held(g, pc[g])'
    <2>1. CASE role = "copy"
      BY <1>1, <1>3, <2>1, HibernateCopyHolds, CopyAsleepHolds, RestoreCopyHolds
    <2>2. CASE role = "source"
      BY <1>1, <1>3, <2>2, HibernateSourceHolds, SourceAsleepHolds, RestoreSourceHolds
    <2>. QED BY <2>1, <2>2 DEF Roles
  <1>4. CASE create(g)
    BY <1>1, <1>2, <1>4, CreateHolds
  <1>5. CASE awaitCopy(g) \/ Inside(g)
    BY <1>1, <1>5, AwaitCopyHolds, InsideHolds
  <1>. QED BY <1>3, <1>4, <1>5, GoroutineCases

-----------------------------------------------------------------------------
(* One fork of each source. *)

LEMMA MishapsStay ==
    ASSUME MigrationInvariant, [Next]_vars, mishaps' = 0
    PROVE  /\ mishaps = 0 /\ ~Mishap
           /\ ~restart /\ (\A m \in Modules : ~delete(m))
           /\ \A s \in Sources, value \in BOOLEAN : ~setHibernated(s, value)
  <1>1. MigrationTypeOK
    BY DEF MigrationInvariant
  <1>2. ~Mishap /\ \A kind \in MoveKinds : ~Move(kind)
    BY <1>1, MishapCounts
  <1>3. /\ ~restart /\ (\A m \in Modules : ~delete(m))
        /\ \A s \in Sources, value \in BOOLEAN : ~setHibernated(s, value)
    BY <1>2 DEF MoveKinds, restart, delete, setHibernated
  <1>4. UNCHANGED mishaps
    <2>1. ASSUME NEW g \in Copies, Goroutine(g) PROVE UNCHANGED mishaps
      BY <1>2, <2>1 DEF Goroutine, create, awaitCopy, Expires, hibernateModule, PatchFails, awaitSleep, cleanupPod,
         restore, migratePVC, createDestPod, waitForPodReady, migrateDataViaTar, migrateObject, recreateObject,
         nextStage
    <2>2. ASSUME NEW call, forkWorkspace(call) PROVE UNCHANGED mishaps
      BY <2>2 DEF forkWorkspace
    <2>3. ASSUME NEW m \in Modules, Controller(m) \/ deliver(m) PROVE UNCHANGED mishaps
      BY <2>3 DEF Controller, decide, begin, finish, expire, uninstall, deliver
    <2>4. podGone \/ UNCHANGED vars => UNCHANGED mishaps
      BY DEF podGone, vars
    <2>. QED BY <1>3, <2>1, <2>2, <2>3, <2>4 DEF Next
  <1>. QED BY <1>2, <1>3, <1>4

\* What the versions of a source are, under hands that are not its goroutine's.
LEMMA ServedStep ==
    ASSUME NEW s \in Sources, ModulesTypeOK, ModuleInOrder(s), SourceServed(s),
           Watched(s) \/ Made(s) \/ \E value \in BOOLEAN : Patched(s, value)
    PROVE  SourceServed(s)' /\ (Watched(s) => Minded(s))
  <1>1. s \in Modules
    BY DEF Modules
  <1>2. Server(s) \in InFlight(s)
    BY <1>1, VersionsOf
  <1>3. Server(s).phase \notin {"uninstalling", "gone"}
    BY <1>2 DEF SourceServed
  <1>4. ~Made(s)
    BY <1>1, <1>3, NotMadeYet DEF Made
  <1>5. Watched(s) => Minded(s)
    BY <1>3 DEF Watched
  <1>6. CASE Minded(s)
    <2>1. Server(s)'.phase \notin {"uninstalling", "gone"} /\ InFlight(s)' \subseteq InFlight(s) \cup {Server(s)'}
      BY <1>1, <1>3, <1>6, MindedEffect
    <2>. QED BY <1>5, <2>1 DEF SourceServed
  <1>7. ASSUME NEW value \in BOOLEAN, Patched(s, value) PROVE SourceServed(s)'
    BY <1>1, <1>3, <1>7, PatchEffect DEF SourceServed
  <1>. QED BY <1>4, <1>5, <1>6, <1>7

LEMMA MissingStep ==
    ASSUME NEW s \in Sources, ModulesTypeOK, ModuleInOrder(s), objs[s] = <<NotFound>>,
           Watched(s) \/ \E value \in BOOLEAN : Patched(s, value)
    PROVE  objs'[s] = <<NotFound>> /\ (Watched(s) => Minded(s))
  <1>1. s \in Modules
    BY DEF Modules
  <1>2. Server(s).phase = "gone" /\ Len(objs[s]) = 1
    BY <1>1, NotMadeYet
  <1>3. busy[s] \in Operations /\ busy[s] = "idle"
    BY <1>1, <1>2 DEF ModulesTypeOK, ModuleInOrder, Fits, Operations
  <1>4. Watched(s) /\ Minded(s)
    BY <1>2 DEF Watched, Patched
  <1>5. \A p : ~Worked(s, p)
    BY <1>2, <1>3 DEF Worked, Transitional
  <1>. QED BY <1>2, <1>4, <1>5 DEF Minded, Kept, Decided, Delivered, Resting

LEMMA NextKeepsForks ==
    ASSUME OneForkEach, ModulesInvariant, MigrationInvariant, ForkInvariant, [Next]_vars
    PROVE  ForkInvariant'
  <1>. SUFFICES ASSUME mishaps' = 0
                PROVE  /\ \A s \in Sources : SourceServed(s)' \/ Missing(s)'
                       /\ \A s \in Sources : (\A g \in Copies : From[g] # s) => Server(s)'.hibernated = wanted'[s]
                       /\ \A g \in Copies : pc'[g] \in Labels /\ Held(g, pc[g])'
    BY DEF ForkInvariant
  <1>. DEFINE Goal == /\ \A s \in Sources : SourceServed(s)' \/ Missing(s)'
                      /\ \A s \in Sources : (\A g \in Copies : From[g] # s) => Server(s)'.hibernated = wanted'[s]
                      /\ \A g \in Copies : pc'[g] \in Labels /\ Held(g, pc[g])'
  <1>1. /\ mishaps = 0 /\ ~Mishap
        /\ ~restart /\ (\A m \in Modules : ~delete(m))
        /\ \A s \in Sources, value \in BOOLEAN : ~setHibernated(s, value)
    BY MishapsStay
  <1>2. /\ \A s \in Sources : SourceServed(s) \/ Missing(s)
        /\ \A s \in Sources : (\A g \in Copies : From[g] # s) => Server(s).hibernated = wanted[s]
        /\ \A g \in Copies : pc[g] \in Labels /\ Held(g, pc[g])
    BY <1>1 DEF ForkInvariant
  <1>3. /\ ModulesTypeOK /\ (\A m \in Modules : ModuleInOrder(m)) /\ (\A g \in Copies : NotMade(g))
        /\ Copies \subseteq Modules /\ Sources \subseteq Modules /\ (\A g \in Copies : From[g] \in Sources)
        /\ \A s \in Sources : s \notin Copies
    BY ConstantsAssumption DEF ModulesInvariant, Modules
  <1>4. \A m \in Modules : Kept(m) => Minded(m) /\ Watched(m)
    BY DEF Minded, Watched
  <1>5. ASSUME \A m \in Modules : Watched(m), UNCHANGED <<wanted, goroutine>>
        PROVE  Goal
    <2>0. UNCHANGED pc
      BY <1>5 DEF goroutine
    <2>1. ASSUME NEW s \in Sources PROVE (SourceServed(s)' \/ Missing(s)') /\ Minded(s)
      <3>1. CASE SourceServed(s)
        BY <1>3, <1>5, <3>1, ServedStep
      <3>2. CASE Missing(s)
        <4>1. objs'[s] = <<NotFound>> /\ Minded(s)
          BY <1>3, <1>5, <3>2, MissingStep DEF Missing
        <4>. QED BY <2>0, <3>2, <4>1 DEF Missing
      <3>. QED BY <1>2, <3>1, <3>2
    <2>2. \A s \in Sources : Server(s)'.hibernated = Server(s).hibernated
      BY <1>3, <2>1, MindedEffect
    <2>3. \A g \in Copies : pc'[g] = pc[g] /\ mine'[g] = mine[g] /\ old'[g] = old[g]
      BY <1>5 DEF goroutine
    <2>4. \A g \in Copies : Held(g, pc[g])'
      BY <1>2, <1>3, <1>5, <2>1, <2>3, HeldWhileWaiting
    <2>. QED BY <1>2, <1>5, <2>1, <2>2, <2>3, <2>4
  <1>6. ASSUME NEW n \in Modules, Controller(n) \/ deliver(n) PROVE Goal
    <2>1. UNCHANGED <<wanted, goroutine>> /\ \A m \in Modules : m # n => Kept(m)
      BY <1>3, <1>6, ControllerStep, DeliverStep
    <2>2. Watched(n)
      BY <1>3, <1>6, ControllerStep, DeliverStep DEF Watched, Minded
    <2>. QED BY <1>4, <1>5, <2>1, <2>2
  <1>7. CASE podGone \/ UNCHANGED vars
    <2>1. UNCHANGED <<objs, controller, wanted, goroutine>>
      BY <1>7 DEF podGone, vars
    <2>. QED BY <1>4, <1>5, <2>1, AllKept
  <1>8. ASSUME NEW call, forkWorkspace(call) PROVE Goal
    <2>1. UNCHANGED <<objs, controller, wanted>>
      BY <1>3, <1>8, ForkStep
    <2>2. \A m \in Modules : Kept(m)
      BY <2>1, AllKept
    <2>3. ASSUME NEW s \in Sources PROVE (SourceServed(s)' \/ Missing(s)') /\ Server(s)' = Server(s)
      <3>1. Server(s)' = Server(s) /\ InFlight(s)' = InFlight(s) /\ objs'[s] = objs[s]
        BY <1>3, <2>1, <2>2, KeptHolds
      <3>2. CASE SourceServed(s)
        BY <3>1, <3>2 DEF SourceServed
      <3>3. CASE Missing(s)
        <4>1. Cached(s).phase = "gone"
          BY <3>3 DEF Missing, Cached, NotFound
        <4>2. \A g \in Copies : From[g] = s => pc'[g] = pc[g]
          BY <1>8, <4>1 DEF forkWorkspace
        <4>. QED BY <3>1, <3>3, <4>2 DEF Missing
      <3>. QED BY <1>2, <3>1, <3>2, <3>3
    <2>4. ASSUME NEW g \in Copies PROVE pc'[g] \in Labels /\ Held(g, pc[g])'
      <3>1. CASE pc'[g] = pc[g] /\ mine'[g] = mine[g] /\ old'[g] = old[g]
        BY <1>2, <1>3, <1>4, <2>1, <2>2, <3>1, HeldWhileWaiting
      <3>2. CASE /\ pc[g] = <<"unstarted">> /\ pc'[g] = <<"create">>
                 /\ mine'[g]["source"] = Cached(From[g]) /\ old'[g] = Cached(From[g]).hibernated
        <4>1. Untouched(From[g]) /\ From[g] \in Sources
          BY <1>2, <1>3, <3>2 DEF Held, Early
        <4>2. Untouched(From[g])' /\ Cached(From[g]).hibernated = wanted[From[g]]
          BY <1>3, <2>1, <2>2, <4>1, KeptHolds, UntouchedAsWanted
        <4>3. <<"create">> \in Labels /\ <<"create">> \in Early
          BY DEF Labels, Early
        <4>4. <<"create">> \notin {<<"await">>, <<"hibernate", "copy">>, <<"asleep", "copy">>,
                                   <<"hibernate", "source">>}
          OBVIOUS
        <4>5. <<"create">> \notin BothDown \cup {<<"asleep", "source">>, <<"restore", "copy">>, <<"done">>}
          BY <4>3, LabelTable
        <4>6. mine'[g]["source"].hibernated = wanted'[From[g]] /\ old'[g] = wanted'[From[g]]
          BY <2>1, <3>2, <4>2
        <4>. QED BY <3>2, <4>2, <4>3, <4>4, <4>5, <4>6 DEF Held
      <3>. QED BY <1>3, <1>8, <3>1, <3>2, ForkStep
    <2>. QED BY <1>2, <2>1, <2>3, <2>4
  <1>9. ASSUME NEW g \in Copies, Goroutine(g) PROVE Goal
    <2>1. /\ UNCHANGED <<wanted, old>>
          /\ \A h \in Copies : h # g => pc'[h] = pc[h] /\ mine'[h] = mine[h]
          /\ \A m \in Modules : m \notin {g, From[g]} => Kept(m)
      BY <1>9, GoroutineStep
    <2>2. \A m \in Modules : Kept(m) \/ Made(m) \/ \E value \in BOOLEAN : Patched(m, value)
      BY <1>9, GoroutineStep
    <2>0. ~Missing(From[g]) /\ SourceServed(From[g])
      <3>1. pc[g] # <<"unstarted">>
        BY <1>3, <1>9, GoroutineStarted DEF ModulesTypeOK
      <3>. QED BY <1>2, <1>3, <3>1 DEF Missing
    <2>3. ASSUME NEW s \in Sources PROVE SourceServed(s)' \/ Missing(s)'
      <3>1. CASE SourceServed(s)
        BY <1>3, <1>4, <2>2, <3>1, ServedStep
      <3>2. CASE Missing(s)
        <4>1. s # From[g] /\ s # g
          BY <1>3, <2>0, <3>2
        <4>2. objs'[s] = objs[s]
          BY <1>3, <2>1, <4>1 DEF Kept, Resting
        <4>3. \A h \in Copies : From[h] = s => pc'[h] = pc[h]
          BY <2>1, <4>1
        <4>. QED BY <3>2, <4>2, <4>3 DEF Missing
      <3>. QED BY <1>2, <3>1, <3>2
    <2>4. \A s \in Sources : (\A h \in Copies : From[h] # s) => Server(s)'.hibernated = wanted'[s]
      <3>1. \A s \in Sources : (\A h \in Copies : From[h] # s) => Kept(s)
        BY <1>3, <2>1
      <3>. QED BY <1>2, <2>1, <3>1, KeptHolds
    <2>5. pc'[g] \in Labels /\ Held(g, pc[g])'
      <3>1. Server(From[g]).phase # "gone"
        BY <1>3, <2>0, VersionsOf DEF SourceServed
      <3>. QED BY <1>1, <1>2, <1>9, <3>1, GoroutineHolds
    <2>6. ASSUME NEW h \in Copies, h # g PROVE pc'[h] \in Labels /\ Held(h, pc[h])'
      <3>1. h \notin {g, From[g]} /\ From[h] \notin {g, From[g]} /\ From[h] \in Sources
        BY <1>3, <2>6 DEF OneForkEach
      <3>2. Watched(h) /\ Minded(From[h])
        BY <1>3, <1>4, <2>1, <3>1
      <3>3. pc'[h] = pc[h] /\ mine'[h] = mine[h] /\ old'[h] = old[h]
        BY <2>1, <2>6
      <3>. QED BY <1>2, <1>3, <2>1, <3>2, <3>3, HeldWhileWaiting
    <2>. QED BY <2>3, <2>4, <2>5, <2>6
  <1>10. Goal
    BY <1>1, <1>6, <1>7, <1>8, <1>9 DEF Next
  <1>. QED BY <1>10

LEMMA InitForks ==
    ASSUME OneForkEach, Init
    PROVE  ForkInvariant
  <1>. DEFINE start == setting.sources
  <1>1. /\ objs = [m \in Modules |-> << IF m \in Sources THEN start[m] ELSE NotFound >>]
        /\ wanted = [s \in Sources |-> start[s].hibernated]
    BY DEF Init
  <1>s. /\ start \in [Sources -> SourceStates]
        /\ \A s \in Sources : start[s] # SourceWakes
    BY ConstantsAssumption DEF Init, OneForkEach
  <1>. HIDE DEF start
  <1>2. /\ busy = [m \in Modules |-> "idle"] /\ pc = [g \in Copies |-> <<"unstarted">>]
    BY DEF Init
  <1>3. ModulesTypeOK
    BY InitModules DEF ModulesInvariant
  <1>4. Sources \subseteq Modules /\ \A g \in Copies : From[g] \in Sources
    BY ConstantsAssumption DEF Modules
  <1>5. \A v \in SourceStates \ {SourceWakes} :
          \/ v.phase = "ready" /\ v.hibernated = FALSE
          \/ v.phase = "sleeped" /\ v.hibernated = TRUE
          \/ v = NotFound /\ v.phase = "gone" /\ v.hibernated = FALSE
    BY DEF SourceStates, SourceRuns, SourceSleeps, NotFound
  <1>6. ASSUME NEW s \in Sources
        PROVE  /\ Server(s) = start[s] /\ InFlight(s) = {start[s]} /\ wanted[s] = start[s].hibernated
               /\ busy[s] = "idle" /\ objs[s] = <<start[s]>>
    <2>1. objs[s] = <<start[s]>> /\ Len(objs[s]) = 1 /\ objs[s][1] = start[s]
      BY <1>1, <1>4
    <2>2. Server(s) = start[s]
      BY <2>1 DEF Server
    <2>. QED BY <1>1, <1>2, <1>3, <1>4, <2>1, <2>2, VersionsOf
  <1>7. \A s \in Sources : start[s] \in SourceStates \ {SourceWakes}
    BY <1>s
  <1>8. ASSUME NEW s \in Sources PROVE Untouched(s) /\ (SourceServed(s) \/ Missing(s))
    <2>1. CASE start[s].phase = "ready" /\ start[s].hibernated = FALSE
      BY <1>6, <2>1 DEF Untouched, Awake, SourceServed
    <2>2. CASE start[s].phase = "sleeped" /\ start[s].hibernated = TRUE
      BY <1>6, <2>2 DEF Untouched, Lulled, SourceServed
    <2>3. CASE start[s] = NotFound /\ start[s].phase = "gone" /\ start[s].hibernated = FALSE
      <3>1. Missing(s)
        BY <1>2, <1>6, <2>3 DEF Missing
      <3>2. Untouched(s)
        BY <1>6, <2>3 DEF Untouched, Awake
      <3>. QED BY <3>1, <3>2
    <2>. QED BY <1>5, <1>7, <2>1, <2>2, <2>3
  <1>9. <<"unstarted">> \in Labels /\ <<"unstarted">> \in Early
    BY DEF Labels, Early
  <1>10. <<"unstarted">> \notin {<<"await">>, <<"hibernate", "copy">>, <<"asleep", "copy">>, <<"hibernate", "source">>}
    OBVIOUS
  <1>11. <<"unstarted">> \notin BothDown \cup {<<"asleep", "source">>, <<"restore", "copy">>, <<"done">>}
    BY <1>9, LabelTable
  <1>12. \A g \in Copies : pc[g] = <<"unstarted">> /\ Untouched(From[g])
    BY <1>2, <1>4, <1>8
  <1>13. \A g \in Copies : pc[g] \in Labels /\ Held(g, pc[g])
    BY <1>9, <1>10, <1>11, <1>12 DEF Held
  <1>. QED BY <1>6, <1>8, <1>13 DEF ForkInvariant

\* Without a mishap, a goroutine of forkWorkspace finds its copy and its source as the
\* label it is at needs them, as long as no other goroutine forks the same source.
THEOREM ForksInOrder == OneForkEach => (Spec => []ForkInvariant)
  <1>. SUFFICES ASSUME OneForkEach PROVE Spec => []ForkInvariant
    OBVIOUS
  <1>1. Init => ForkInvariant
    BY InitForks
  <1>2. ForkInvariant /\ ModulesInvariant /\ MigrationInvariant /\ [Next]_vars => ForkInvariant'
    BY NextKeepsForks
  <1>. QED BY <1>1, <1>2, ModulesInOrder, MigrationsAccountedFor, PTL DEF Spec

\* migrateDataViaTar runs while neither the source's application nor the copy's does, for
\* any number of sources, each forked once.
THEOREM CopiesAtRest == OneForkEach => (Spec => []AtRest)
  <1>. SUFFICES ASSUME OneForkEach PROVE Spec => []AtRest
    OBVIOUS
  <1>1. ModulesInvariant /\ ForkInvariant => AtRest
    <2>. SUFFICES ASSUME ModulesInvariant, ForkInvariant, mishaps = 0, NEW g \in Copies, pc[g] = <<"tar">>
                  PROVE  ~running[g] /\ ~running[From[g]]
      BY DEF AtRest, Copying
    <2>1. Down(g) /\ Down(From[g])
      BY LabelTable DEF ForkInvariant, Held
    <2>2. ModuleInOrder(g) /\ ModuleInOrder(From[g])
      BY RolesOf DEF ModulesInvariant
    <2>. QED BY <2>1, <2>2 DEF Down, ModuleInOrder
  <1>2. Spec => []ForkInvariant
    BY ForksInOrder
  <1>. QED BY <1>1, <1>2, ModulesInOrder, PTL

\* When the goroutine of a source has ended, spec.hibernated of the source is what its user
\* asked for, on the error paths of migrateModuleData too.
THEOREM SourcesRestored == OneForkEach => (Spec => []SourceRestored)
  <1>. SUFFICES ASSUME OneForkEach PROVE Spec => []SourceRestored
    OBVIOUS
  <1>1. ModulesInvariant /\ ForkInvariant => SourceRestored
    <2>. SUFFICES ASSUME ModulesInvariant, ForkInvariant, mishaps = 0, NEW s \in Sources,
                         Server(s).phase # "failed", \A g \in Copies : From[g] = s => pc[g] \in Ended
                  PROVE  Server(s).hibernated = wanted[s]
      BY DEF SourceRestored
    <2>1. CASE \A g \in Copies : From[g] # s
      BY <2>1 DEF ForkInvariant
    <2>2. ASSUME NEW g \in Copies, From[g] = s PROVE Server(s).hibernated = wanted[s]
      <3>1. pc[g] \in Labels /\ Held(g, pc[g]) /\ pc[g] \in Ended
        BY <2>2 DEF ForkInvariant
      <3>2. pc[g] \in {<<"unstarted">>, <<"done">>}
        BY <3>1, LabelTable DEF Ended
      <3>3. CASE pc[g] = <<"unstarted">>
        <4>1. Untouched(s) /\ ModulesTypeOK
          BY <2>2, <3>1, <3>3 DEF Held, Early, ModulesInvariant
        <4>. QED BY <4>1, UntouchedAsWanted
      <3>4. CASE pc[g] = <<"done">>
        BY <2>2, <3>1, <3>4 DEF Held
      <3>. QED BY <3>2, <3>3, <3>4
    <2>. QED BY <2>1, <2>2
  <1>2. Spec => []ForkInvariant
    BY ForksInOrder
  <1>. QED BY <1>1, <1>2, ModulesInOrder, PTL
=============================================================================
