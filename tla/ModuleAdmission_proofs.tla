----------------------- MODULE ModuleAdmission_proofs -----------------------
(***************************************************************************)
(* Proofs about the validation of configuration values and the rendering   *)
(* of Modules, and about the releases of the copies forks make of them,    *)
(* for any definitions, values, workspaces and clusters and any number of  *)
(* edits and forks.                                                        *)
(***************************************************************************)
EXTENDS ModuleAdmission, TLAPS

-----------------------------------------------------------------------------
(* Configuration values *)

\* A number without its fraction differs from it by a fraction of its sign.
LEMMA TruncatedFraction ==
    ASSUME NEW t \in Int
    PROVE  /\ Truncated(t) \in Int
           /\ \E frac \in -9 .. 9 : t = 10 * Truncated(t) + frac /\ frac * t >= 0
<1>1. CASE t >= 0
  <2>. DEFINE n == t \div 10  frac == t % 10
  <2>1. n \in Int /\ frac \in 0 .. 9 /\ t = 10 * n + frac
    BY <1>1
  <2>2. Truncated(t) = n
    BY <1>1 DEF Truncated
  <2>. HIDE DEF n, frac
  <2>3. frac * t >= 0
    BY <1>1, <2>1
  <2>4. QED BY <2>1, <2>2, <2>3
<1>2. CASE t < 0
  <2>. DEFINE s == -t  n == s \div 10  frac == s % 10
  <2>1. s \in Nat /\ s > 0 /\ t = -s
    BY <1>2
  <2>s. HIDE DEF s
  <2>2. n \in Int /\ frac \in 0 .. 9 /\ s = 10 * n + frac
    BY <2>1
  <2>3. Truncated(t) = -n
    BY <1>2 DEF Truncated, s
  <2>. HIDE DEF n, frac
  <2>4. (-frac) * t >= 0 /\ t = 10 * (-n) + (-frac) /\ -frac \in -9 .. 9
    BY <2>1, <2>2
  <2>5. QED BY <2>2, <2>3, <2>4
<1>3. QED BY <1>1, <1>2

\* int(v) is v without its fraction, or v is out of range.
LEMMA ConvertedNumber ==
    ASSUME NEW t \in Int
    PROVE  /\ ToInt(t) \in Int
           /\ \/ ToInt(t) = Truncated(t)
              \/ ToInt(t) \in {MinInt, MaxInt} /\ (t >= 10 * (MaxInt + 1) \/ t <= 10 * (MinInt - 1))
<1>. DEFINE n == Truncated(t)
<1>1. PICK frac \in -9 .. 9 : t = 10 * n + frac /\ frac * t >= 0
  BY TruncatedFraction
<1>2. n \in Int /\ MaxInt \in Nat /\ MinInt \in Int /\ Above \in {MinInt, MaxInt}
      /\ MinInt = -MaxInt - 1
  BY TruncatedFraction, IntAssumption DEF MinInt
<1>3. ToInt(t) = CASE n > MaxInt -> Above [] n < MinInt -> MinInt [] OTHER -> n
  BY DEF ToInt
<1>. HIDE DEF n
<1>4. CASE n > MaxInt
  <2>1. ToInt(t) = Above
    BY <1>2, <1>3, <1>4
  <2>2. t > 0
    BY <1>1, <1>2, <1>4
  <2>3. frac >= 0
    BY <1>1, <2>2
  <2>4. t >= 10 * (MaxInt + 1)
    BY <1>1, <1>2, <1>4, <2>3
  <2>5. QED BY <1>2, <2>1, <2>4
<1>5. CASE n < MinInt
  <2>1. ToInt(t) = MinInt
    BY <1>2, <1>3, <1>5
  <2>2. t < 0
    BY <1>1, <1>2, <1>5
  <2>3. frac <= 0
    BY <1>1, <2>2
  <2>4. t <= 10 * (MinInt - 1)
    BY <1>1, <1>2, <1>5, <2>3
  <2>5. QED BY <1>2, <2>1, <2>4
<1>6. CASE ~(n > MaxInt) /\ ~(n < MinInt)
  BY <1>2, <1>3, <1>6 DEF n
<1>7. QED BY <1>4, <1>5, <1>6

\* What a validation returns for an integer.
LEMMA IntegerResult ==
    ASSUME NEW def, NEW input, NEW v \in ValidateInteger(def, input)
    PROVE  /\ TypeOf(input) = "number" /\ v = <<"integer", ToInt(ValueOf(input))>>
           /\ \A min \in def.min : min <= ToInt(ValueOf(input))
           /\ \A max \in def.max : ToInt(ValueOf(input)) <= max
BY DEF ValidateInteger

\* A validation has one result at most.
LEMMA OneResult ==
    ASSUME NEW m, m.def.type \in ConfigTypes \cup {None}
    PROVE  \A v, w \in GetValidatedConfig(m) : v = w
<1>. SUFFICES ASSUME NEW v \in GetValidatedConfig(m), NEW w \in GetValidatedConfig(m) PROVE v = w
  OBVIOUS
<1>1. m.def.type # None
  BY DEF GetValidatedConfig
<1>2. v \in Validate(m.def, m.config) /\ w \in Validate(m.def, m.config)
  BY <1>1 DEF GetValidatedConfig
<1>3. CASE m.config = NoValue
  BY <1>2, <1>3 DEF Validate
<1>4. CASE m.config # NoValue /\ ~m.def.editable
  BY <1>2, <1>4 DEF Validate
<1>5. CASE m.config # NoValue /\ m.def.editable
  <2>1. CASE m.def.type = "integer"
    <3>1. v \in ValidateInteger(m.def, m.config) /\ w \in ValidateInteger(m.def, m.config)
      BY <1>2, <1>5, <2>1 DEF Validate
    <3>2. QED BY <3>1, IntegerResult
  <2>2. CASE m.def.type \in {"boolean", "string", "option", "multipleOptions"}
    BY <1>2, <1>5, <2>2
       DEF Validate, ValidateBoolean, ValidateString, ValidateOption, ValidateMultipleOptions
  <2>3. QED BY <1>1, <2>1, <2>2 DEF ConfigTypes
<1>6. QED BY <1>3, <1>4, <1>5

\* Whatever a validation returns, the definition allows.
LEMMA ResultAllowed ==
    ASSUME NEW m \in ModuleSpec, NEW v \in GetValidatedConfig(m)
    PROVE  Allows(m.def, m.config, v)
<1>d. /\ m.def.type \in ConfigTypes /\ m.def.required \in BOOLEAN /\ m.def.editable \in BOOLEAN
      /\ TypeOf(m.config) = "number" => ValueOf(m.config) \in Int
      /\ v \in Validate(m.def, m.config)
  <2>1. m.def \in Definitions /\ m.config \in Inputs BY DEF ModuleSpec
  <2>2. m.def.type # None BY DEF GetValidatedConfig
  <2>3. QED BY <2>1, <2>2, ConfigAssumption DEF GetValidatedConfig
<1>1. CASE m.config = NoValue
  BY <1>d, <1>1 DEF Validate, Allows
<1>2. CASE m.config # NoValue /\ ~m.def.editable
  BY <1>d, <1>2 DEF Validate
<1>3. CASE m.config # NoValue /\ m.def.editable
  <2>1. CASE m.def.type = "integer"
    <3>. DEFINE t == ValueOf(m.config)
                n == ToInt(t)
    <3>1. v \in ValidateInteger(m.def, m.config)
      BY <1>d, <1>3, <2>1 DEF Validate
    <3>2. /\ TypeOf(m.config) = "number" /\ v = <<"integer", n>>
          /\ (\A min \in m.def.min : min <= n) /\ (\A max \in m.def.max : n <= max)
      BY <3>1, IntegerResult
    <3>3. \/ \E frac \in -9 .. 9 : t = 10 * n + frac /\ frac * t >= 0
          \/ n \in {MinInt, MaxInt} /\ (t >= 10 * (MaxInt + 1) \/ t <= 10 * (MinInt - 1))
      <4>1. t \in Int
        BY <1>d, <3>2
      <4>. HIDE DEF t
      <4>2. QED BY <4>1, ConvertedNumber, TruncatedFraction
    <3>. HIDE DEF n
    <3>4. TypeOf(v) = "integer" /\ ValueOf(v) = n
      BY <3>2 DEF TypeOf, ValueOf
    <3>5. AllowsInteger(m.def, ValueOf(m.config), ValueOf(v))
      BY <3>2, <3>3, <3>4 DEF AllowsInteger
    <3>6. QED BY <1>3, <2>1, <3>4, <3>5 DEF Allows
  <2>2. CASE m.def.type \in {"boolean", "string", "option", "multipleOptions"}
    <3>1. v = m.config /\ (TypeOf(v) = "string" => ValueOf(v) \in m.def.values)
      BY <1>d, <1>3, <2>2
         DEF Validate, ValidateBoolean, ValidateString, ValidateOption, ValidateMultipleOptions
    <3>2. QED BY <1>3, <2>2, <3>1 DEF Allows
  <2>3. QED BY <1>d, <2>1, <2>2 DEF ConfigTypes
<1>4. QED BY <1>1, <1>2, <1>3

-----------------------------------------------------------------------------
(* Rendering *)

\* A namespace without randBase62 comes out as one name at most.
LEMMA OneNamespace ==
    ASSUME NEW t, t # "{{random}}", NEW r, NEW v
    PROVE  \A x, y \in renderInterface(t, r, v) : x = y
BY DEF renderInterface, ValueOf, TypeOf

\* What there is to say of a rendered place.
LEMMA RenderedPlace ==
    ASSUME NEW m, NEW p \in RenderHelmSpec(m)
    PROVE  /\ m.kind = "helm" /\ m.values # "broken"
           /\ \E v \in GetValidatedConfig(m) :
                \E n \in GetNamespace(m, renderInterface(m.namespace, GetReleaseName(m), v)) :
                  p = Place(Cluster[m.workspace], n, GetReleaseName(m))
BY DEF RenderHelmSpec

\* A Module that adopts a release is rendered to the place of that release.
LEMMA AdoptedPlace ==
    ASSUME NEW m, m.existing
    PROVE  RenderHelmSpec(m) \subseteq {Place(Cluster[m.workspace], TeamNamespace, Legacy)}
<1>1. SUFFICES ASSUME NEW p \in RenderHelmSpec(m)
               PROVE  p = Place(Cluster[m.workspace], TeamNamespace, Legacy)
  OBVIOUS
<1>2. PICK v \in GetValidatedConfig(m) :
        \E n \in GetNamespace(m, renderInterface(m.namespace, GetReleaseName(m), v)) :
          p = Place(Cluster[m.workspace], n, GetReleaseName(m))
  BY RenderedPlace
<1>3. QED BY <1>2 DEF GetNamespace, GetReleaseName

\* Any other is rendered to one place, unless its namespace is a random one.
LEMMA OnePlace ==
    ASSUME NEW m \in ModuleSpec, ~m.existing, m.namespace # "{{random}}"
    PROVE  \A p, q \in RenderHelmSpec(m) : p = q
<1>. SUFFICES ASSUME NEW p \in RenderHelmSpec(m), NEW q \in RenderHelmSpec(m) PROVE p = q
  OBVIOUS
<1>1. \A v, w \in GetValidatedConfig(m) : v = w
  <2>1. m.def \in Definitions BY DEF ModuleSpec
  <2>2. QED BY <2>1, ConfigAssumption, OneResult
<1>2. PICK v \in GetValidatedConfig(m) :
        \E n \in GetNamespace(m, renderInterface(m.namespace, GetReleaseName(m), v)) :
          p = Place(Cluster[m.workspace], n, GetReleaseName(m))
  BY RenderedPlace
<1>3. PICK w \in GetValidatedConfig(m) :
        \E n \in GetNamespace(m, renderInterface(m.namespace, GetReleaseName(m), w)) :
          q = Place(Cluster[m.workspace], n, GetReleaseName(m))
  BY RenderedPlace
<1>4. v = w BY <1>1
<1>5. \A x, y \in renderInterface(m.namespace, GetReleaseName(m), v) : x = y
  BY OneNamespace
<1>6. QED BY <1>2, <1>3, <1>4, <1>5 DEF GetNamespace

\* Rendering looks at these fields only.
LEMMA SameFields ==
    ASSUME NEW m, NEW n, m.def = n.def, m.config = n.config
    PROVE  /\ GetValidatedConfig(m) = GetValidatedConfig(n)
           /\ /\ m.kind = n.kind /\ m.values = n.values /\ m.workspace = n.workspace
              /\ m.existing = n.existing /\ m.release = n.release /\ m.namespace = n.namespace
              => RenderHelmSpec(m) = RenderHelmSpec(n)
<1>1. GetValidatedConfig(m) = GetValidatedConfig(n)
  BY DEF GetValidatedConfig
<1>2. ASSUME m.kind = n.kind, m.values = n.values, m.workspace = n.workspace,
             m.existing = n.existing, m.release = n.release, m.namespace = n.namespace
      PROVE  RenderHelmSpec(m) = RenderHelmSpec(n)
  <2>1. GetReleaseName(m) = GetReleaseName(n)
    BY <1>2 DEF GetReleaseName
  <2>2. \A rendered : GetNamespace(m, rendered) = GetNamespace(n, rendered)
    BY <1>2 DEF GetNamespace
  <2>3. \A p : p \in RenderHelmSpec(m) <=> p \in RenderHelmSpec(n)
    BY <1>1, <1>2, <2>1, <2>2 DEF RenderHelmSpec
  <2>4. QED BY <2>3
<1>3. QED BY <1>1, <1>2

-----------------------------------------------------------------------------
(* What the webhooks make of a Module *)

\* Default changes nothing but the release name of a Helm Module without one.
LEMMA DefaultFields ==
    ASSUME NEW m \in ModuleSpec, stored \in Nat, stored < Len(GeneratedNames)
    PROVE  /\ Default(m) \in ModuleSpec
           /\ Default(m).kind = m.kind /\ Default(m).workspace = m.workspace
           /\ Default(m).existing = m.existing /\ Default(m).namespace = m.namespace
           /\ Default(m).values = m.values /\ Default(m).def = m.def /\ Default(m).config = m.config
<1>1. stored + 1 \in 1 .. Len(GeneratedNames)
  BY ConstantsAssumption
<1>2. GeneratedNames[stored + 1] \in Range(GeneratedNames)
  BY <1>1, ConstantsAssumption
<1>. HIDE ConstantsAssumption
<1>3. QED BY <1>2 DEF Default, ModuleSpec

\* An edited Module is one, and the fields whose names are not touched are as they were.
LEMMA EditedFields ==
    ASSUME NEW m \in ModuleSpec, NEW new \in Edited(m)
    PROVE  /\ new \in ModuleSpec
           /\ {f \in DOMAIN new : new[f] # m[f]} \subseteq Fields
           /\ "def" \notin {f \in DOMAIN new : new[f] # m[f]} => new.def = m.def
           /\ "values" \notin {f \in DOMAIN new : new[f] # m[f]} => new.values = m.values
<1>0. \/ \E w \in Workspaces : new = [m EXCEPT !.workspace = w]
      \/ \E k \in {"helm", "custom"} : new = [m EXCEPT !.kind = k]
      \/ \E r \in {Given, None} : new = [m EXCEPT !.release = r]
      \/ \E b \in BOOLEAN : new = [m EXCEPT !.existing = b]
      \/ \E t \in Templates : new = [m EXCEPT !.namespace = t]
      \/ \E c \in {{}, {"repo"}, {"git", "repo"}} : new = [m EXCEPT !.chart = c]
      \/ \E v \in {"good", "broken"} : new = [m EXCEPT !.values = v]
      \/ \E x \in 1 .. 2 : new = [m EXCEPT !.rest = x]
      \/ \E d \in Definitions : new = [m EXCEPT !.def = d]
      \/ \E i \in Inputs : new = [m EXCEPT !.config = i]
  BY DEF Edited
<1>c. \A c \in {{}, {"repo"}, {"git", "repo"}} : c \in SUBSET ChartSources
  BY DEF ChartSources
<1>1. new \in ModuleSpec
  BY <1>0, <1>c DEF ModuleSpec
<1>2. DOMAIN new = Fields
  BY <1>1 DEF ModuleSpec, Fields
<1>3. QED BY <1>1, <1>2 DEF Fields

LEMMA AbsentIsNoModule == Absent \notin ModuleSpec
BY DEF Absent, ModuleSpec, None

-----------------------------------------------------------------------------
(* The steps.  Each writes one Module. *)

\* What AdmissionInvariant says of one Module.
Sound(m) ==
    /\ mods[m] = Absent => placed[m] = Nowhere /\ touched[m] = {}
    /\ mods[m] # Absent /\ "def" \notin touched[m] => GetValidatedConfig(mods[m]) # {}
    /\ placed[m] \notin {Nowhere, Failed} => mods[m] # Absent /\ mods[m].kind = "helm" /\ Rendered(m)

LEMMA SoundModules == AdmissionInvariant <=> TypeOK /\ \A m \in Modules : Sound(m)
BY DEF AdmissionInvariant, Sound, Existing, Installed

\* It is enough to look at the Module a step writes.
LEMMA OneModule ==
    ASSUME AdmissionInvariant, NEW m \in Modules, TypeOK', Sound(m)',
           \A n \in Modules \ {m} : /\ mods'[n] = mods[n] /\ placed'[n] = placed[n]
                                    /\ touched'[n] = touched[n]
    PROVE  AdmissionInvariant'
<1>1. ASSUME NEW n \in Modules \ {m} PROVE Sound(n)'
  <2>1. Sound(n) BY SoundModules
  <2>2. mods'[n] = mods[n] /\ placed'[n] = placed[n] /\ touched'[n] = touched[n]
    OBVIOUS
  <2>3. Rendered(n) => Rendered(n)'
    BY <2>2 DEF Rendered
  <2>4. QED BY <2>1, <2>2, <2>3 DEF Sound
<1>2. \A n \in Modules : Sound(n)'
  BY <1>1
<1>3. QED BY <1>2 DEF AdmissionInvariant, Sound, Existing, Installed

LEMMA StoreStep ==
    ASSUME AdmissionInvariant, NEW m \in Modules, NEW spec \in ModuleSpec, store(m, spec)
    PROVE  AdmissionInvariant'
<1>t. TypeOK /\ Sound(m)
  BY SoundModules
<1>0. /\ mods \in [Modules -> ModuleSpec \cup {Absent}] /\ stored \in Nat /\ Len(GeneratedNames) \in Nat
      /\ mods[m] = Absent /\ stored < Len(GeneratedNames)
  BY <1>t, ConstantsAssumption DEF TypeOK, store, Existing
<1>u. /\ mods' = [mods EXCEPT ![m] = Default(spec)] /\ stored' = stored + 1
      /\ UNCHANGED <<placed, touched>> /\ GetValidatedConfig(Default(spec)) # {}
  BY DEF store, ValidateCreate, validateModule
<1>1. Default(spec) \in ModuleSpec
  BY <1>0, DefaultFields
<1>2. TypeOK'
  BY <1>t, <1>0, <1>u, <1>1 DEF TypeOK
<1>3. mods'[m] = Default(spec)
  BY <1>0, <1>u
<1>4. GetValidatedConfig(mods[m])' # {}
  BY <1>u, <1>3 DEF GetValidatedConfig
<1>5. Sound(m)'
  BY <1>t, <1>0, <1>u, <1>1, <1>3, <1>4, AbsentIsNoModule DEF Sound
<1>6. QED BY <1>0, <1>u, <1>2, <1>5, OneModule

LEMMA UpdateStep ==
    ASSUME AdmissionInvariant, NEW m \in Modules, updateModule(m)
    PROVE  AdmissionInvariant'
<1>t. TypeOK /\ Sound(m)
  BY SoundModules
<1>0. /\ mods \in [Modules -> ModuleSpec \cup {Absent}] /\ stored \in Nat /\ Len(GeneratedNames) \in Nat
      /\ mods[m] \in ModuleSpec /\ stored < Len(GeneratedNames) /\ touched \in [Modules -> SUBSET Fields]
  BY <1>t, ConstantsAssumption DEF TypeOK, updateModule, Existing
<1>1. PICK new \in Edited(mods[m]) :
        /\ ValidateUpdate(mods[m], Default(new))
        /\ mods' = [mods EXCEPT ![m] = Default(new)]
        /\ touched' = [touched EXCEPT ![m] = @ \cup {f \in DOMAIN new : new[f] # mods[m][f]}]
  BY DEF updateModule
<1>u. UNCHANGED <<placed, stored>>
  BY DEF updateModule
<1>. DEFINE old == mods[m]
            now == Default(new)
            changed == {f \in DOMAIN new : new[f] # old[f]}
<1>2. /\ new \in ModuleSpec /\ changed \subseteq Fields
      /\ "def" \notin changed => new.def = old.def
      /\ "values" \notin changed => new.values = old.values
  BY <1>0, EditedFields
<1>3. /\ now \in ModuleSpec /\ now.values = new.values /\ now.def = new.def
      /\ now.existing = new.existing /\ now.namespace = new.namespace
  BY <1>0, <1>2, DefaultFields
<1>4. /\ mods'[m] = now /\ touched'[m] = touched[m] \cup changed
      /\ \A n \in Modules \ {m} : mods'[n] = mods[n] /\ touched'[n] = touched[n]
  BY <1>0, <1>1
<1>5. TypeOK'
  <2>1. mods' \in [Modules -> ModuleSpec \cup {Absent}]
    BY <1>0, <1>1, <1>3
  <2>2. touched' \in [Modules -> SUBSET Fields]
    BY <1>0, <1>1, <1>2
  <2>3. QED BY <1>t, <1>u, <2>1, <2>2 DEF TypeOK
<1>6. /\ now.workspace = old.workspace /\ now.config = old.config /\ now.kind = old.kind
      /\ old.kind = "helm" =>
           /\ now.release = old.release /\ now.existing = old.existing
           /\ ~old.existing => now.namespace = old.namespace
  BY <1>1, <1>3 DEF ValidateUpdate, validateModuleImmutableUpdateFields
<1>. HIDE DEF old, now, changed
<1>7. old = mods[m] /\ placed'[m] = placed[m] /\ old # Absent /\ now # Absent
  BY <1>0, <1>u, <1>3, AbsentIsNoModule DEF old
<1>8. "def" \notin touched'[m] => now.def = old.def /\ GetValidatedConfig(now) = GetValidatedConfig(old)
  BY <1>2, <1>3, <1>4, <1>6, SameFields
<1>9. ASSUME placed[m] \notin {Nowhere, Failed}
      PROVE  now.kind = "helm" /\ Rendered(m)'
  <2>1. old.kind = "helm" /\ Rendered(m)
    BY <1>t, <1>7, <1>9 DEF Sound
  <2>2. now.existing = old.existing /\ now.workspace = old.workspace /\ now.kind = "helm"
    BY <1>6, <2>1
  <2>3. CASE old.existing
    BY <1>4, <1>7, <2>1, <2>2, <2>3 DEF Rendered
  <2>4. CASE ~old.existing
    <3>1. now.namespace = old.namespace
      BY <1>6, <2>1, <2>4
    <3>2. now.def = old.def =>
            RenderHelmSpec([now EXCEPT !.values = "good"]) = RenderHelmSpec([old EXCEPT !.values = "good"])
      <4>. DEFINE a == [now EXCEPT !.values = "good"]
                  b == [old EXCEPT !.values = "good"]
      <4>1. /\ a.values = "good" /\ a.kind = now.kind /\ a.workspace = now.workspace /\ a.def = now.def
            /\ a.existing = now.existing /\ a.release = now.release /\ a.namespace = now.namespace
            /\ a.config = now.config
        BY <1>3 DEF ModuleSpec
      <4>2. /\ b.values = "good" /\ b.kind = old.kind /\ b.workspace = old.workspace /\ b.def = old.def
            /\ b.existing = old.existing /\ b.release = old.release /\ b.namespace = old.namespace
            /\ b.config = old.config
        BY <1>0 DEF ModuleSpec, old
      <4>. HIDE DEF a, b
      <4>3. now.def = old.def => RenderHelmSpec(a) = RenderHelmSpec(b)
        BY <1>6, <2>1, <2>4, <3>1, <4>1, <4>2, SameFields
      <4>4. QED BY <4>3 DEF a, b
    <3>3. old.namespace # "{{random}}" =>
            /\ "def" \notin touched[m] => RenderHelmSpec([old EXCEPT !.values = "good"]) = {placed[m]}
            /\ touched[m] \cap {"def", "values"} = {} => old.values = "good"
      BY <1>7, <2>1, <2>4 DEF Rendered
    <3>4. ASSUME now.namespace # "{{random}}"
          PROVE  /\ "def" \notin touched'[m] => RenderHelmSpec([now EXCEPT !.values = "good"]) = {placed[m]}
                 /\ touched'[m] \cap {"def", "values"} = {} => now.values = "good"
      <4>1. touched'[m] \cap {"def", "values"} = {} => now.values = "good"
        BY <1>2, <1>3, <1>4, <3>1, <3>3, <3>4
      <4>2. "def" \notin touched'[m] => RenderHelmSpec([now EXCEPT !.values = "good"]) = {placed[m]}
        BY <1>4, <1>8, <3>1, <3>2, <3>3, <3>4
      <4>3. QED BY <4>1, <4>2
    <3>5. QED BY <1>4, <1>7, <2>2, <2>4, <3>4 DEF Rendered
  <2>5. QED BY <2>2, <2>3, <2>4
<1>10. Sound(m)'
  BY <1>t, <1>4, <1>7, <1>8, <1>9 DEF Sound
<1>11. QED BY <1>4, <1>5, <1>7, <1>10, <1>u, OneModule

\* An installation that fails leaves a Module with nothing to find.
LEMMA FailedInstall ==
    ASSUME AdmissionInvariant, NEW m \in Existing,
           placed' = [placed EXCEPT ![m] = Failed], mods' = mods, stored' = stored,
           \/ touched' = touched
           \/ touched' = [touched EXCEPT ![m] = {}] /\ GetValidatedConfig(mods[m]) # {}
    PROVE  AdmissionInvariant'
<1>t. TypeOK /\ Sound(m) /\ m \in Modules /\ mods[m] # Absent
  BY SoundModules DEF Existing
<1>1. TypeOK'
  BY <1>t DEF TypeOK
<1>2. placed'[m] = Failed
  BY <1>t DEF TypeOK
<1>3. touched'[m] = touched[m] \/ GetValidatedConfig(mods[m]) # {}
  BY <1>t DEF TypeOK
<1>4. Sound(m)'
  BY <1>t, <1>2, <1>3 DEF Sound
<1>5. \A n \in Modules \ {m} : placed'[n] = placed[n] /\ touched'[n] = touched[n]
  BY <1>t DEF TypeOK
<1>6. QED BY <1>t, <1>1, <1>4, <1>5, OneModule

LEMMA AdoptStep ==
    ASSUME AdmissionInvariant, NEW m \in Existing, mods[m].kind = "helm", stored' = stored,
           adoptExistingHelmRelease(m)
    PROVE  AdmissionInvariant'
<1>. DEFINE p == Place(Cluster[mods[m].workspace], TeamNamespace, Legacy)
<1>t. TypeOK /\ Sound(m) /\ m \in Modules /\ mods[m] # Absent
  BY SoundModules DEF Existing
<1>1. CASE p \notin releases
  BY <1>1, FailedInstall DEF adoptExistingHelmRelease
<1>2. CASE p \in releases
  <2>1. PICK v \in {mods[m].values, "broken"} : mods' = [mods EXCEPT ![m].values = v]
    BY <1>2 DEF adoptExistingHelmRelease
  <2>2. placed' = [placed EXCEPT ![m] = p] /\ touched' = touched /\ mods[m].existing
    BY <1>2 DEF adoptExistingHelmRelease
  <2>. HIDE DEF p
  <2>3. mods[m] \in ModuleSpec /\ mods \in [Modules -> ModuleSpec \cup {Absent}]
    BY <1>t DEF TypeOK
  <2>. DEFINE now == [mods[m] EXCEPT !.values = v]
  <2>4. /\ now \in ModuleSpec /\ now.existing = mods[m].existing /\ now.workspace = mods[m].workspace
        /\ now.def = mods[m].def /\ now.config = mods[m].config /\ now.kind = mods[m].kind
    <3>1. v \in {"good", "broken"} BY <2>3 DEF ModuleSpec
    <3>2. QED BY <2>3, <3>1 DEF ModuleSpec
  <2>5. mods'[m] = now /\ \A n \in Modules \ {m} : mods'[n] = mods[n]
    BY <1>t, <2>1, <2>3
  <2>6. mods' \in [Modules -> ModuleSpec \cup {Absent}]
    BY <1>t, <2>1, <2>3, <2>4
  <2>. HIDE DEF now
  <2>7. TypeOK'
    BY <1>t, <2>2, <2>6 DEF TypeOK
  <2>8. placed'[m] = p /\ \A n \in Modules \ {m} : placed'[n] = placed[n]
    BY <1>t, <2>2 DEF TypeOK
  <2>9. GetValidatedConfig(now) = GetValidatedConfig(mods[m])
    BY <2>4, SameFields
  <2>10. Rendered(m)'
    BY <2>2, <2>4, <2>5, <2>8 DEF Rendered, p
  <2>11. now # Absent
    BY <2>4, AbsentIsNoModule
  <2>12. Sound(m)'
    BY <1>t, <2>2, <2>4, <2>5, <2>9, <2>10, <2>11 DEF Sound
  <2>13. QED BY <1>t, <2>2, <2>5, <2>7, <2>8, <2>12, OneModule
<1>3. QED BY <1>1, <1>2

LEMMA InstallStep ==
    ASSUME AdmissionInvariant, NEW m \in Modules, installModule(m)
    PROVE  AdmissionInvariant'
<1>t. TypeOK /\ Sound(m) /\ m \in Existing /\ mods[m] # Absent
  BY SoundModules DEF Existing, installModule
<1>u. stored' = stored /\ mods[m].kind = "helm"
  BY DEF installModule
<1>1. CASE adoptExistingHelmRelease(m)
  BY <1>t, <1>u, <1>1, AdoptStep
<1>2. CASE /\ RenderHelmSpec(mods[m]) = {} \/ mods[m].chart = {}
           /\ placed' = [placed EXCEPT ![m] = Failed] /\ UNCHANGED <<mods, releases, lost, touched>>
  BY <1>t, <1>u, <1>2, FailedInstall
<1>3. CASE ~mods[m].existing /\ \E p \in RenderHelmSpec(mods[m]) : installAt(m, p)
  <2>1. PICK p \in RenderHelmSpec(mods[m]) : installAt(m, p)
    BY <1>3
  <2>2. GetValidatedConfig(mods[m]) # {} /\ mods[m].values # "broken"
    BY <2>1, RenderedPlace
  <2>3. touched' = [touched EXCEPT ![m] = {}] /\ mods' = mods
    BY <2>1 DEF installAt
  <2>4. CASE placed' = [placed EXCEPT ![m] = Failed]
    BY <1>t, <1>u, <2>2, <2>3, <2>4, FailedInstall
  <2>5. CASE placed' = [placed EXCEPT ![m] = p]
    <3>1. mods[m] \in ModuleSpec /\ mods[m].values = "good"
      <4>1. mods[m] \in ModuleSpec BY <1>t DEF TypeOK
      <4>2. QED BY <2>2, <4>1 DEF ModuleSpec
    <3>2. [mods[m] EXCEPT !.values = "good"] = mods[m]
      BY <3>1 DEF ModuleSpec
    <3>3. mods[m].namespace # "{{random}}" => RenderHelmSpec(mods[m]) = {p}
      <4>1. SUFFICES ASSUME mods[m].namespace # "{{random}}" PROVE RenderHelmSpec(mods[m]) = {p}
        OBVIOUS
      <4>2. \A q \in RenderHelmSpec(mods[m]) : q = p
        BY <1>3, <2>1, <3>1, <4>1, OnePlace
      <4>3. p \in RenderHelmSpec(mods[m])
        BY <2>1
      <4>4. QED BY <4>2, <4>3
    <3>4. /\ placed'[m] = p /\ touched'[m] = {}
          /\ \A n \in Modules \ {m} : placed'[n] = placed[n] /\ touched'[n] = touched[n]
      BY <1>t, <2>3, <2>5 DEF TypeOK
    <3>5. TypeOK'
      BY <1>t, <1>u, <2>3, <2>5 DEF TypeOK
    <3>6. Rendered(m)'
      BY <1>3, <2>3, <3>1, <3>2, <3>3, <3>4 DEF Rendered
    <3>7. Sound(m)'
      BY <1>t, <1>u, <2>2, <2>3, <3>4, <3>6 DEF Sound
    <3>8. QED BY <2>3, <3>4, <3>5, <3>7, OneModule
  <2>6. QED BY <2>1, <2>4, <2>5 DEF installAt
<1>4. QED BY <1>1, <1>2, <1>3 DEF installModule

LEMMA UninstallStep ==
    ASSUME AdmissionInvariant, NEW m \in Modules, uninstallModule(m)
    PROVE  AdmissionInvariant'
<1>t. TypeOK
  BY SoundModules
<1>u. /\ mods' = [mods EXCEPT ![m] = Absent] /\ placed' = [placed EXCEPT ![m] = Nowhere]
      /\ touched' = [touched EXCEPT ![m] = {}] /\ stored' = stored
  BY DEF uninstallModule
<1>1. TypeOK'
  BY <1>t, <1>u DEF TypeOK
<1>2. mods'[m] = Absent /\ placed'[m] = Nowhere /\ touched'[m] = {}
  BY <1>t, <1>u DEF TypeOK
<1>3. Sound(m)'
  BY <1>2 DEF Sound
<1>4. \A n \in Modules \ {m} : mods'[n] = mods[n] /\ placed'[n] = placed[n] /\ touched'[n] = touched[n]
  BY <1>t, <1>u DEF TypeOK
<1>5. QED BY <1>1, <1>3, <1>4, OneModule

-----------------------------------------------------------------------------
(* The lineage of a workspace *)

LEMMA LineageSelf ==
    ASSUME NEW u \in Workspaces
    PROVE  u \in Lineage(u) /\ Lineage(u) \subseteq Workspaces
BY DEF Lineage

\* With a workspace, a lineage has the one it is a fork of.
LEMMA LineageUp ==
    ASSUME NEW u \in Workspaces, NEW x \in Lineage(u), From[x] # None
    PROVE  From[x] \in Lineage(u)
<1>1. x \in Workspaces /\ From[x] \in Workspaces
  BY ForkAssumption DEF Lineage
<1>2. ASSUME NEW S \in SUBSET Workspaces, u \in S, \A y \in S : From[y] # None => From[y] \in S
      PROVE  From[x] \in S
  <2>1. x \in S BY <1>2 DEF Lineage
  <2>2. QED BY <1>2, <2>1
<1>3. QED BY <1>1, <1>2 DEF Lineage

\* The lineage of a fork is that of its source, and the fork itself.
LEMMA LineageFork ==
    ASSUME NEW w \in Workspaces, From[w] # None
    PROVE  /\ Lineage(w) \subseteq {w} \cup Lineage(From[w])
           /\ Lineage(From[w]) \subseteq Lineage(w)
<1>0. From[w] \in Workspaces
  BY ForkAssumption
<1>1. Lineage(w) \subseteq {w} \cup Lineage(From[w])
  <2>. DEFINE S == {w} \cup Lineage(From[w])
  <2>1. S \in SUBSET Workspaces /\ w \in S
    BY <1>0, LineageSelf
  <2>2. \A x \in S : From[x] # None => From[x] \in S
    BY <1>0, LineageSelf, LineageUp
  <2>. HIDE DEF S
  <2>3. Lineage(w) \subseteq S
    BY <2>1, <2>2 DEF Lineage
  <2>4. QED BY <2>3 DEF S
<1>2. Lineage(From[w]) \subseteq Lineage(w)
  BY DEF Lineage
<1>3. QED BY <1>1, <1>2

\* A workspace that is no fork has no other in its lineage.
LEMMA LineageRoot ==
    ASSUME NEW w \in Workspaces, From[w] = None
    PROVE  Lineage(w) \subseteq {w}
<1>1. {w} \in SUBSET Workspaces /\ \A x \in {w} : From[x] # None => From[x] \in {w}
  OBVIOUS
<1>2. QED BY <1>1 DEF Lineage

-----------------------------------------------------------------------------
(* Copies of one Module *)

\* What Default and the webhooks leave alone of every Helm Module.
SameKin(m) ==
    mods'[m] # Absent =>
        /\ mods[m] # Absent /\ mods'[m].kind = mods[m].kind
        /\ mods[m].kind = "helm" =>
             /\ mods'[m].workspace = mods[m].workspace /\ mods'[m].release = mods[m].release
             /\ mods'[m].existing = mods[m].existing

\* A step that makes no Module keeps what is said of copies.
LEMMA KinKept ==
    ASSUME NamesUsed, KinApart, KinForked, \A m \in Modules : SameKin(m),
           stored' = stored, forked' = forked
    PROVE  NamesUsed' /\ KinApart' /\ KinForked'
<1>1. ASSUME NEW m \in Modules, NEW n \in Modules, Kin(m, n)'
      PROVE  /\ Kin(m, n) /\ mods'[m].workspace = mods[m].workspace
             /\ mods'[n].workspace = mods[n].workspace
  BY <1>1 DEF Kin, SameKin, Existing
<1>2. NamesUsed'
  BY DEF NamesUsed, SameKin, Existing
<1>3. KinApart'
  <2>. SUFFICES ASSUME NEW m \in Modules, NEW n \in Modules, Kin(m, n)', m # n
                PROVE  /\ mods'[m].workspace # mods'[n].workspace
                       /\ Lineage(mods'[m].workspace) \cap Lineage(mods'[n].workspace) # {}
    BY DEF KinApart, Lineage
  <2>1. QED BY <1>1 DEF KinApart
<1>4. KinForked'
  <2>. SUFFICES ASSUME NEW k \in Modules, NEW m \in Modules, Kin(k, m)',
                       NEW w \in Lineage(mods'[k].workspace), From[w] = mods'[m].workspace
                PROVE  <<m, w>> \in forked'
    BY DEF KinForked, Lineage
  <2>1. QED BY <1>1 DEF KinForked
<1>5. QED BY <1>2, <1>3, <1>4

\* A Helm Module in use is in a workspace, and has a name.
LEMMA NamedModule ==
    ASSUME NamesUsed, NamesApart, TypeOK, NEW m \in Existing, mods[m].kind = "helm"
    PROVE  /\ mods[m].workspace \in Workspaces /\ mods[m].release # None
           /\ mods[m].release \in Range(GeneratedNames) \cup {Given}
           /\ mods[m].release \in Range(GeneratedNames) =>
                \E i \in 1 .. stored : mods[m].release = GeneratedNames[i]
<1>1. mods[m] \in ModuleSpec
  BY DEF TypeOK, Existing
<1>2. mods[m].release \in Range(GeneratedNames) \cup {Given, None}
  BY <1>1 DEF ModuleSpec
<1>3. Given # None
  BY DEF Given, None
<1>4. \A i \in 1 .. stored : GeneratedNames[i] \in Range(GeneratedNames)
  BY ConstantsAssumption DEF TypeOK
<1>5. QED BY <1>2, <1>3, <1>4 DEF NamesUsed, NamesApart

\* Two Modules with one generated name are in different clusters.
LEMMA KinInClusters ==
    ASSUME NamesUsed, KinApart, ForksApart, NEW m \in Modules, NEW n \in Modules, Kin(m, n), m # n
    PROVE  Cluster[mods[m].workspace] # Cluster[mods[n].workspace]
<1>1. mods[m].workspace \in Workspaces /\ mods[n].workspace \in Workspaces
  BY DEF NamesUsed, Kin
<1>2. QED BY <1>1 DEF KinApart, ForksApart

\* What is stored, and that everything else is as it was.
LEMMA Stored ==
    ASSUME AdmissionInvariant, NEW n \in Modules, NEW spec \in ModuleSpec, store(n, spec)
    PROVE  /\ mods[n] = Absent /\ mods'[n] # Absent /\ placed' = placed /\ lost' = lost
           /\ stored \in Nat /\ stored + 1 \in DOMAIN GeneratedNames /\ stored' = stored + 1
           /\ \A k \in Modules \ {n} : mods'[k] = mods[k]
           /\ mods'[n].workspace = spec.workspace /\ spec.workspace \in Workspaces
           /\ mods'[n].kind = spec.kind
           /\ spec.kind = "helm" =>
                mods'[n].release = IF spec.release = None THEN GeneratedNames[stored + 1] ELSE spec.release
<1>1. /\ mods \in [Modules -> ModuleSpec \cup {Absent}] /\ stored \in Nat /\ stored < Len(GeneratedNames)
      /\ mods[n] = Absent /\ Len(GeneratedNames) \in Nat
      /\ DOMAIN GeneratedNames = 1 .. Len(GeneratedNames)
  BY ConstantsAssumption DEF AdmissionInvariant, TypeOK, store, Existing
<1>2. /\ mods' = [mods EXCEPT ![n] = Default(spec)] /\ validateModule(Default(spec))
      /\ placed' = placed /\ lost' = lost /\ stored' = stored + 1
  BY DEF store, ValidateCreate
<1>3. /\ Default(spec) \in ModuleSpec /\ Default(spec).kind = spec.kind
      /\ Default(spec).workspace = spec.workspace
  BY <1>1, DefaultFields
<1>4. mods'[n] = Default(spec) /\ \A k \in Modules \ {n} : mods'[k] = mods[k]
  BY <1>1, <1>2
<1>5. spec.kind = "helm" =>
        Default(spec).release = IF spec.release = None THEN GeneratedNames[stored + 1] ELSE spec.release
  BY DEF Default, ModuleSpec
<1>6. spec.workspace \in Workspaces
  BY <1>2, <1>3 DEF validateModule
<1>7. QED BY <1>1, <1>2, <1>3, <1>4, <1>5, <1>6, AbsentIsNoModule

\* A Module a user creates has no kin: the name it gets is a new one.
LEMMA CreateKin ==
    ASSUME AdmissionInvariant, NamesUsed, KinApart, KinForked, NamesApart,
           NEW n \in Modules, NEW spec \in Requests[n], store(n, spec), forked' = forked
    PROVE  NamesUsed' /\ KinApart' /\ KinForked'
<1>0. spec \in ModuleSpec /\ spec.release \in {Given, None}
  BY ConstantsAssumption DEF NamesApart
<1>s. /\ mods[n] = Absent /\ mods'[n] # Absent
      /\ stored \in Nat /\ stored + 1 \in DOMAIN GeneratedNames /\ stored' = stored + 1
      /\ \A k \in Modules \ {n} : mods'[k] = mods[k]
      /\ mods'[n].workspace \in Workspaces
      /\ mods'[n].kind = "helm" => mods'[n].release \in {Given, GeneratedNames[stored + 1]}
  BY <1>0, Stored
<1>1. NamesUsed'
  <2>. SUFFICES ASSUME NEW m \in Modules, mods'[m] # Absent, mods'[m].kind = "helm"
                PROVE  /\ mods'[m].workspace \in Workspaces
                       /\ \/ mods'[m].release = Given
                          \/ \E i \in 1 .. stored' : mods'[m].release = GeneratedNames[i]
    BY DEF NamesUsed, Existing
  <2>1. CASE m = n
    BY <1>s, <2>1
  <2>2. CASE m # n
    BY <1>s, <2>2 DEF NamesUsed, Existing
  <2>3. QED BY <2>1, <2>2
<1>2. ASSUME NEW k \in Modules, NEW m \in Modules, Kin(k, m)'
      PROVE  \/ k = n /\ m = n
             \/ /\ Kin(k, m) /\ mods'[k].workspace = mods[k].workspace
                /\ mods'[m].workspace = mods[m].workspace
  <2>0. /\ mods'[k] # Absent /\ mods'[k].kind = "helm" /\ mods'[m] # Absent /\ mods'[m].kind = "helm"
        /\ mods'[k].release = mods'[m].release /\ mods'[k].release \in Range(GeneratedNames)
    BY <1>2 DEF Kin, Existing
  <2>1. CASE k # n /\ m # n
    BY <1>s, <2>0, <2>1 DEF Kin, Existing
  <2>2. ASSUME NEW x \in Modules \ {n}, mods'[x] # Absent, mods'[x].kind = "helm",
               mods'[n].kind = "helm", mods'[x].release = mods'[n].release,
               mods'[n].release \in Range(GeneratedNames)
        PROVE  FALSE
    <3>1. mods'[n].release = GeneratedNames[stored + 1]
      BY <1>s, <2>2 DEF NamesApart
    <3>2. mods[x] # Absent /\ mods[x].kind = "helm" /\ mods[x].release = mods'[n].release
      BY <1>s, <2>2
    <3>3. PICK i \in 1 .. stored : mods[x].release = GeneratedNames[i]
      BY <2>2, <3>2 DEF NamesUsed, NamesApart, Existing
    <3>4. i \in DOMAIN GeneratedNames /\ i # stored + 1
      BY <1>s, <3>3, ConstantsAssumption
    <3>5. QED BY <1>s, <3>1, <3>2, <3>3, <3>4 DEF NamesApart
  <2>3. QED BY <2>0, <2>1, <2>2
<1>3. KinApart'
  <2>. SUFFICES ASSUME NEW k \in Modules, NEW m \in Modules, Kin(k, m)', k # m
                PROVE  /\ mods'[k].workspace # mods'[m].workspace
                       /\ Lineage(mods'[k].workspace) \cap Lineage(mods'[m].workspace) # {}
    BY DEF KinApart, Lineage
  <2>1. QED BY <1>2 DEF KinApart
<1>4. KinForked'
  <2>. SUFFICES ASSUME NEW k \in Modules, NEW m \in Modules, Kin(k, m)',
                       NEW w \in Lineage(mods'[k].workspace), From[w] = mods'[m].workspace
                PROVE  <<m, w>> \in forked'
    BY DEF KinForked, Lineage
  <2>1. CASE k = n /\ m = n
    BY <1>s, <2>1, ForkAssumption
  <2>2. CASE Kin(k, m) /\ mods'[k].workspace = mods[k].workspace /\ mods'[m].workspace = mods[m].workspace
    BY <2>2 DEF KinForked
  <2>3. QED BY <1>2, <2>1, <2>2
<1>5. QED BY <1>1, <1>3, <1>4

\* A copy goes where no kin of the Module is: with one there, or further down, the source
\* would have been copied for that workspace before.
LEMMA ForkKin ==
    ASSUME AdmissionInvariant, NamesUsed, KinApart, KinForked, ForksApart, NamesApart,
           NEW m \in Modules, NEW n \in Modules, NEW w \in Workspaces, forkModule(m, n, w)
    PROVE  NamesUsed' /\ KinApart' /\ KinForked'
<1>. DEFINE spec == [mods[m] EXCEPT !.workspace = w, !.existing = FALSE]
            u == mods[m].workspace
<1>0. m \in Existing /\ mods[m] \in ModuleSpec /\ mods[m].kind = "helm" /\ TypeOK
  BY AbsentIsNoModule, SoundModules DEF forkModule, AdmissionInvariant, TypeOK, Sound, Installed, Existing
<1>m. /\ u \in Workspaces /\ mods[m].release # None
      /\ mods[m].release \in Range(GeneratedNames) \cup {Given}
  BY <1>0, NamedModule
<1>1. /\ spec \in ModuleSpec /\ spec.workspace = w /\ spec.kind = "helm"
      /\ spec.release = mods[m].release
  BY <1>0 DEF ModuleSpec
<1>f. /\ From[w] = u /\ From[w] # None /\ <<m, w>> \notin forked /\ forked' = forked \cup {<<m, w>>}
  <2>1. From[w] = u /\ (w \in Managed => <<m, w>> \notin forked) /\ forked' = forked \cup {<<m, w>>}
    BY DEF forkModule
  <2>2. From[w] # None
    BY <1>m, <2>1, ForkAssumption
  <2>3. QED BY <2>1, <2>2 DEF ForksApart
<1>2. store(n, spec)
  BY DEF forkModule
<1>. HIDE DEF spec, u
<1>s. /\ mods[n] = Absent /\ mods'[n] # Absent
      /\ stored \in Nat /\ stored' = stored + 1
      /\ \A k \in Modules \ {n} : mods'[k] = mods[k]
      /\ mods'[n].workspace = w /\ mods'[n].kind = "helm" /\ mods'[n].release = mods[m].release
  BY <1>m, <1>1, <1>2, Stored
<1>w. u = mods[m].workspace /\ n # m
  BY <1>0, <1>s DEF u, Existing
<1>3. NamesUsed'
  <2>. SUFFICES ASSUME NEW k \in Modules, mods'[k] # Absent, mods'[k].kind = "helm"
                PROVE  /\ mods'[k].workspace \in Workspaces
                       /\ \/ mods'[k].release = Given
                          \/ \E i \in 1 .. stored' : mods'[k].release = GeneratedNames[i]
    BY DEF NamesUsed, Existing
  <2>1. CASE k = n
    BY <1>0, <1>s, <2>1 DEF NamesUsed
  <2>2. CASE k # n
    BY <1>s, <2>2 DEF NamesUsed, Existing
  <2>3. QED BY <2>1, <2>2
\* The kin of the copy are those of its source.
<1>4. ASSUME NEW k \in Modules \ {n}
      PROVE  /\ Kin(n, k)' \/ Kin(k, n)' => Kin(m, k) /\ Kin(k, m) /\ mods'[k] = mods[k]
             /\ Kin(n, n)' => Kin(m, m)
  BY <1>0, <1>s, <1>4 DEF Kin, Existing
<1>5. ASSUME NEW k \in Modules \ {n}, NEW l \in Modules \ {n}, Kin(k, l)'
      PROVE  Kin(k, l) /\ mods'[k] = mods[k] /\ mods'[l] = mods[l]
  BY <1>s, <1>5 DEF Kin, Existing
<1>6. /\ Lineage(w) \subseteq {w} \cup Lineage(u) /\ Lineage(u) \subseteq Lineage(w)
      /\ w \in Lineage(w) /\ u \in Lineage(u)
  BY <1>m, <1>f, LineageSelf, LineageFork
\* No kin of the source has w in its lineage.
<1>7. ASSUME NEW k \in Modules, Kin(k, m), w \in Lineage(mods[k].workspace)
      PROVE  FALSE
  BY <1>f, <1>w, <1>7 DEF KinForked
<1>8. KinApart'
  <2>. SUFFICES ASSUME NEW k \in Modules, NEW l \in Modules, Kin(k, l)', k # l
                PROVE  /\ mods'[k].workspace # mods'[l].workspace
                       /\ Lineage(mods'[k].workspace) \cap Lineage(mods'[l].workspace) # {}
    BY DEF KinApart, Lineage
  <2>1. ASSUME NEW x \in Modules \ {n}, Kin(m, x), Kin(x, m)
        PROVE  w # mods[x].workspace /\ Lineage(w) \cap Lineage(mods[x].workspace) # {}
    <3>1. mods[x].workspace \in Workspaces
      BY <2>1 DEF NamesUsed, Kin
    <3>2. w # mods[x].workspace
      BY <1>7, <2>1, <3>1, LineageSelf
    <3>3. Lineage(u) \cap Lineage(mods[x].workspace) # {}
      BY <1>6, <1>w, <2>1 DEF KinApart
    <3>4. QED BY <1>6, <3>2, <3>3
  <2>2. CASE k = n
    BY <1>4, <1>s, <2>1, <2>2
  <2>3. CASE l = n
    BY <1>4, <1>s, <2>1, <2>3
  <2>4. CASE k # n /\ l # n
    BY <1>5, <2>4 DEF KinApart
  <2>5. QED BY <2>2, <2>3, <2>4
<1>9. KinForked'
  <2>. SUFFICES ASSUME NEW k \in Modules, NEW l \in Modules, Kin(k, l)',
                       NEW x \in Lineage(mods'[k].workspace), From[x] = mods'[l].workspace
                PROVE  <<l, x>> \in forked'
    BY DEF KinForked, Lineage
  \* The copy as a source: its workspace is in no lineage of its kin.
  <2>1. CASE l = n /\ k # n
    <3>1. Kin(k, m) /\ mods'[k] = mods[k] /\ From[x] = w
      BY <1>4, <1>s, <2>1
    <3>2. mods[k].workspace \in Workspaces /\ From[x] # None
      BY <1>m, <3>1, ForkAssumption DEF NamesUsed, Kin
    <3>3. w \in Lineage(mods[k].workspace)
      BY <3>1, <3>2, LineageUp
    <3>4. QED BY <1>7, <3>1, <3>3
  <2>2. CASE l = n /\ k = n
    BY <1>s, <2>2, ForkAssumption
  \* The copy below a source: the fork that made it, or one above the source of the copy.
  <2>3. CASE l # n /\ k = n
    <3>1. Kin(m, l) /\ mods'[l] = mods[l] /\ x \in Lineage(w) /\ From[x] = mods[l].workspace
      BY <1>4, <1>s, <2>3
    <3>2. CASE x = w
      <4>1. mods[l].workspace = mods[m].workspace
        BY <1>f, <1>w, <3>1, <3>2
      <4>2. l = m
        BY <3>1, <4>1 DEF KinApart
      <4>3. QED BY <1>f, <3>2, <4>2
    <3>3. CASE x \in Lineage(u)
      BY <1>f, <1>w, <3>1, <3>3 DEF KinForked
    <3>4. QED BY <1>6, <3>1, <3>2, <3>3
  <2>4. CASE l # n /\ k # n
    BY <1>5, <1>f, <2>4 DEF KinForked
  <2>5. QED BY <2>1, <2>2, <2>3, <2>4
<1>10. QED BY <1>3, <1>8, <1>9

-----------------------------------------------------------------------------
(* The releases of others *)

\* A Module that does not adopt is rendered to its own name and cluster.
LEMMA OwnPlace ==
    ASSUME NEW m, ~m.existing, NEW p \in RenderHelmSpec(m)
    PROVE  p.name = m.release /\ p.cluster = Cluster[m.workspace]
<1>1. PICK v \in GetValidatedConfig(m) :
        \E n \in GetNamespace(m, renderInterface(m.namespace, GetReleaseName(m), v)) :
          p = Place(Cluster[m.workspace], n, GetReleaseName(m))
  BY RenderedPlace
<1>2. QED BY <1>1 DEF Place, GetReleaseName

\* The releases that go with the one a Module is rendered to are not, in the namespace
\* default, those of other Modules.
LEMMA OthersSpared ==
    ASSUME LineageInvariant, ForksApart, NamesApart,
           NEW m \in Existing, mods[m].kind = "helm", ~mods[m].existing,
           NEW p \in RenderHelmSpec(mods[m]), NEW removeNamespace, UninstallRelease(m, p, removeNamespace)
    PROVE  ReleaseSpared'
<1>. SUFFICES ASSUME NEW q \in lost', q.namespace = DefaultNamespace PROVE q.name = Given
  BY DEF ReleaseSpared
<1>1. CASE q \in lost
  BY <1>1 DEF LineageInvariant, ReleaseSpared
<1>2. CASE q \notin lost
  <2>1. PICK n \in Modules \ {m} : q = placed[n] /\ placed[n] \in uninstalled(p, removeNamespace)
    BY <1>2 DEF UninstallRelease
  <2>2. q.cluster = p.cluster /\ q.name = p.name
    BY <2>1 DEF uninstalled
  <2>3. n \in Installed
    BY <2>1 DEF Installed, Nowhere, Failed, Place, None, DefaultNamespace
  <2>4. n \in Existing /\ mods[n].kind = "helm" /\ Rendered(n)
    BY <2>3, SoundModules DEF LineageInvariant, Sound, Installed, Existing
  <2>5. ~mods[n].existing
    <3>1. mods[n].existing => q = Place(Cluster[mods[n].workspace], TeamNamespace, Legacy)
      BY <2>1, <2>4, Zenon DEF Rendered
    <3>2. \A c, r : Place(c, TeamNamespace, r).namespace # DefaultNamespace
      BY DEF Place, TeamNamespace, DefaultNamespace
    <3>3. QED BY <3>1, <3>2
  <2>6. q.name = mods[n].release /\ q.cluster = Cluster[mods[n].workspace]
    BY <2>1, <2>3, <2>5 DEF LineageInvariant, PlacedByName
  <2>7. p.name = mods[m].release /\ p.cluster = Cluster[mods[m].workspace]
    BY OwnPlace
  <2>8. ~Kin(m, n)
    BY <2>1, <2>2, <2>6, <2>7, KinInClusters DEF LineageInvariant, Existing
  <2>9. mods[m].release \in Range(GeneratedNames) \cup {Given}
    BY NamedModule DEF LineageInvariant, AdmissionInvariant
  <2>10. QED BY <2>2, <2>4, <2>6, <2>7, <2>8, <2>9 DEF Kin
<1>3. QED BY <1>1, <1>2

\* A step that places at most one Module keeps PlacedByName if that one is placed so.
LEMMA PlacedKept ==
    ASSUME LineageInvariant, NEW m \in Modules,
           \A n \in Modules : placed'[n] \notin {Nowhere, Failed} => SameKin(n) /\ mods'[n] # Absent,
           \A n \in Modules \ {m} : placed'[n] = placed[n],
           \/ placed'[m] \in {placed[m], Nowhere, Failed}
           \/ mods'[m].existing
           \/ placed'[m].name = mods'[m].release /\ placed'[m].cluster = Cluster[mods'[m].workspace]
    PROVE  PlacedByName'
<1>. SUFFICES ASSUME NEW n \in Modules, placed'[n] \notin {Nowhere, Failed}, ~mods'[n].existing
              PROVE  placed'[n].name = mods'[n].release /\ placed'[n].cluster = Cluster[mods'[n].workspace]
  BY DEF PlacedByName, Installed
<1>1. CASE placed'[n] = placed[n]
  <2>1. n \in Installed /\ mods[n].kind = "helm"
    BY <1>1 DEF LineageInvariant, AdmissionInvariant, Installed
  <2>2. /\ mods'[n].workspace = mods[n].workspace /\ mods'[n].release = mods[n].release
        /\ mods'[n].existing = mods[n].existing
    BY <2>1 DEF SameKin
  <2>3. QED BY <1>1, <2>1, <2>2 DEF LineageInvariant, PlacedByName
<1>2. CASE placed'[n] # placed[n]
  BY <1>2
<1>3. QED BY <1>1, <1>2

\* Each step that writes one Module, in turn.
LEMMA LineageUpdate ==
    ASSUME LineageInvariant, NEW m \in Modules, updateModule(m)
    PROVE  LineageInvariant'
<1>t. AdmissionInvariant /\ NamesUsed /\ KinApart /\ KinForked /\ ReleaseSpared
  BY DEF LineageInvariant
<1>u. UNCHANGED <<placed, lost, stored, forked>> /\ mods[m] # Absent
  BY DEF updateModule, Existing
<1>0. /\ mods \in [Modules -> ModuleSpec \cup {Absent}] /\ mods[m] \in ModuleSpec
      /\ stored \in Nat /\ stored < Len(GeneratedNames)
  BY <1>t, <1>u, ConstantsAssumption DEF AdmissionInvariant, TypeOK, updateModule
<1>1. PICK new \in Edited(mods[m]) :
        ValidateUpdate(mods[m], Default(new)) /\ mods' = [mods EXCEPT ![m] = Default(new)]
  BY DEF updateModule
<1>2. Default(new) \in ModuleSpec
  BY <1>0, EditedFields, DefaultFields
<1>3. mods'[m] = Default(new) /\ \A n \in Modules \ {m} : mods'[n] = mods[n]
  BY <1>0, <1>1
<1>4. \A n \in Modules : SameKin(n)
  BY <1>1, <1>3, <1>u DEF SameKin, ValidateUpdate, validateModuleImmutableUpdateFields
<1>5. mods'[m] # Absent
  BY <1>2, <1>3, AbsentIsNoModule
<1>6. \A n \in Modules : placed'[n] \notin {Nowhere, Failed} => SameKin(n) /\ mods'[n] # Absent
  BY <1>t, <1>3, <1>4, <1>5, <1>u, SoundModules DEF Sound
<1>7. PlacedByName'
  BY <1>6, <1>u, PlacedKept
<1>8. ReleaseSpared'
  BY <1>t, <1>u DEF ReleaseSpared
<1>9. QED BY <1>t, <1>4, <1>7, <1>8, <1>u, KinKept, UpdateStep DEF LineageInvariant

LEMMA LineageInstall ==
    ASSUME LineageInvariant, ForksApart, NamesApart, NEW m \in Modules, installModule(m)
    PROVE  LineageInvariant'
<1>t. /\ AdmissionInvariant /\ NamesUsed /\ KinApart /\ KinForked /\ ReleaseSpared
      /\ mods \in [Modules -> ModuleSpec \cup {Absent}] /\ DOMAIN placed = Modules
  BY DEF LineageInvariant, AdmissionInvariant, TypeOK
<1>u. UNCHANGED <<stored, forked>> /\ m \in Existing /\ mods[m] # Absent /\ mods[m].kind = "helm"
  BY DEF installModule, Existing
<1>0. mods[m] \in ModuleSpec
  BY <1>t, <1>u
<1>1. ASSUME mods' = mods PROVE \A n \in Modules : SameKin(n)
  BY <1>1 DEF SameKin
<1>2. ASSUME NEW v, mods' = [mods EXCEPT ![m].values = v] PROVE \A n \in Modules : SameKin(n)
  <2>. DEFINE now == [mods[m] EXCEPT !.values = v]
  <2>1. /\ now.kind = mods[m].kind /\ now.workspace = mods[m].workspace
        /\ now.release = mods[m].release /\ now.existing = mods[m].existing
    BY <1>0 DEF ModuleSpec
  <2>2. mods'[m] = now /\ \A n \in Modules \ {m} : mods'[n] = mods[n]
    BY <1>t, <1>2
  <2>. HIDE DEF now
  <2>3. QED BY <1>u, <2>1, <2>2 DEF SameKin
<1>3. \A n \in Modules : SameKin(n)
  <2>1. mods' = mods \/ \E v \in {mods[m].values, "broken"} : mods' = [mods EXCEPT ![m].values = v]
    BY DEF installModule, adoptExistingHelmRelease, installAt
  <2>2. QED BY <1>1, <1>2, <2>1
<1>4. NamesUsed' /\ KinApart' /\ KinForked'
  BY <1>t, <1>u, <1>3, KinKept
<1>5. AdmissionInvariant'
  BY <1>t, InstallStep
<1>6. \A n \in Modules : placed'[n] \notin {Nowhere, Failed} => SameKin(n) /\ mods'[n] # Absent
  BY <1>3, <1>5 DEF AdmissionInvariant, Existing
<1>7. CASE adoptExistingHelmRelease(m)
  <2>1. /\ mods[m].existing /\ lost' = lost
        /\ \E p : placed' = [placed EXCEPT ![m] = p]
    BY <1>7 DEF adoptExistingHelmRelease
  <2>2. \A n \in Modules \ {m} : placed'[n] = placed[n]
    BY <1>t, <2>1
  <2>3. mods'[m].existing \/ placed'[m] \in {Nowhere, Failed}
    BY <1>u, <1>6, <2>1 DEF SameKin
  <2>4. PlacedByName'
    BY <1>6, <2>2, <2>3, PlacedKept
  <2>5. QED BY <1>t, <1>4, <1>5, <2>1, <2>4 DEF LineageInvariant, ReleaseSpared
<1>8. CASE placed' = [placed EXCEPT ![m] = Failed] /\ lost' = lost
  <2>1. placed'[m] = Failed /\ \A n \in Modules \ {m} : placed'[n] = placed[n]
    BY <1>t, <1>8
  <2>2. PlacedByName'
    BY <1>6, <2>1, PlacedKept
  <2>3. QED BY <1>t, <1>4, <1>5, <1>8, <2>2 DEF LineageInvariant, ReleaseSpared
<1>9. CASE ~mods[m].existing /\ \E p \in RenderHelmSpec(mods[m]) : installAt(m, p)
  <2>1. PICK p \in RenderHelmSpec(mods[m]) : installAt(m, p)
    BY <1>9
  <2>2. p.name = mods[m].release /\ p.cluster = Cluster[mods[m].workspace]
    BY <1>9, OwnPlace
  <2>3. mods' = mods /\ \E q \in {p, Failed} : placed' = [placed EXCEPT ![m] = q]
    BY <2>1 DEF installAt
  <2>4. placed'[m] \in {p, Failed} /\ \A n \in Modules \ {m} : placed'[n] = placed[n]
    BY <1>t, <2>3
  <2>5. PlacedByName'
    BY <1>6, <2>2, <2>3, <2>4, PlacedKept
  <2>6. ReleaseSpared'
    <3>1. lost' = lost \/ UninstallRelease(m, p, TRUE)
      BY <2>1 DEF installAt
    <3>2. lost' = lost => ReleaseSpared'
      BY <1>t DEF ReleaseSpared
    <3>3. QED BY <1>u, <1>9, <3>1, <3>2, OthersSpared
  <2>7. QED BY <1>4, <1>5, <2>5, <2>6 DEF LineageInvariant
<1>10. QED BY <1>7, <1>8, <1>9 DEF installModule

LEMMA LineageUninstall ==
    ASSUME LineageInvariant, ForksApart, NamesApart, NEW m \in Modules, uninstallModule(m)
    PROVE  LineageInvariant'
<1>t. /\ AdmissionInvariant /\ NamesUsed /\ KinApart /\ KinForked /\ ReleaseSpared
      /\ mods \in [Modules -> ModuleSpec \cup {Absent}] /\ DOMAIN placed = Modules
  BY DEF LineageInvariant, AdmissionInvariant, TypeOK
<1>u. /\ UNCHANGED <<stored, forked>> /\ m \in Existing
      /\ mods' = [mods EXCEPT ![m] = Absent] /\ placed' = [placed EXCEPT ![m] = Nowhere]
  BY DEF uninstallModule
<1>1. /\ mods'[m] = Absent /\ placed'[m] = Nowhere
      /\ \A n \in Modules \ {m} : mods'[n] = mods[n] /\ placed'[n] = placed[n]
  BY <1>t, <1>u
<1>2. \A n \in Modules : SameKin(n)
  BY <1>1 DEF SameKin
<1>3. AdmissionInvariant'
  BY <1>t, UninstallStep
<1>4. PlacedByName'
  <2>1. \A n \in Modules : placed'[n] \notin {Nowhere, Failed} => SameKin(n) /\ mods'[n] # Absent
    BY <1>2, <1>3 DEF AdmissionInvariant, Existing
  <2>2. QED BY <1>1, <2>1, PlacedKept
<1>5. ReleaseSpared'
  <2>1. CASE lost' = lost
    BY <1>t, <2>1 DEF ReleaseSpared
  <2>2. CASE /\ mods[m].kind = "helm" /\ ~mods[m].existing
             /\ \E p \in RenderHelmSpec(mods[m]), removeNamespace \in BOOLEAN :
                  UninstallRelease(m, p, removeNamespace)
    BY <1>u, <2>2, OthersSpared
  <2>3. QED BY <2>1, <2>2 DEF uninstallModule
<1>6. QED BY <1>t, <1>u, <1>2, <1>3, <1>4, <1>5, KinKept DEF LineageInvariant

\* A Module that is stored is not placed yet.
LEMMA LineageStore ==
    ASSUME LineageInvariant, NEW n \in Modules, NEW spec \in ModuleSpec, store(n, spec)
    PROVE  AdmissionInvariant' /\ PlacedByName' /\ ReleaseSpared'
<1>t. AdmissionInvariant /\ ReleaseSpared
  BY DEF LineageInvariant
<1>1. /\ mods[n] = Absent /\ placed' = placed /\ lost' = lost
      /\ \A k \in Modules \ {n} : mods'[k] = mods[k]
  BY <1>t, Stored
<1>2. AdmissionInvariant'
  BY <1>t, StoreStep
<1>3. \A k \in Modules : placed'[k] \notin {Nowhere, Failed} => SameKin(k) /\ mods'[k] # Absent
  BY <1>t, <1>1, SoundModules DEF Sound, SameKin
<1>4. PlacedByName'
  BY <1>1, <1>3, PlacedKept
<1>5. QED BY <1>t, <1>1, <1>2, <1>4 DEF ReleaseSpared

-----------------------------------------------------------------------------
(* The theorems *)

LEMMA AdmissionInit == Init => AdmissionInvariant
<1>. SUFFICES ASSUME Init PROVE AdmissionInvariant
  OBVIOUS
<1>1. TypeOK
  <2>1. Len(GeneratedNames) \in Nat BY ConstantsAssumption
  <2>2. QED BY <2>1 DEF Init, TypeOK
<1>2. QED BY <1>1 DEF Init, AdmissionInvariant, Existing, Installed

LEMMA AdmissionNext == AdmissionInvariant /\ [Next]_vars => AdmissionInvariant'
<1>. SUFFICES ASSUME AdmissionInvariant, [Next]_vars PROVE AdmissionInvariant'
  OBVIOUS
<1>1. ASSUME NEW m \in Modules, createModule(m) PROVE AdmissionInvariant'
  <2>1. PICK spec \in Requests[m] : store(m, spec)
    BY <1>1 DEF createModule
  <2>2. spec \in ModuleSpec
    BY ConstantsAssumption
  <2>3. QED BY <2>1, <2>2, StoreStep
<1>2. ASSUME NEW m \in Modules, NEW n \in Modules, NEW w \in Workspaces, forkModule(m, n, w)
      PROVE  AdmissionInvariant'
  <2>1. mods[m] \in ModuleSpec
    <3>1. TypeOK /\ Sound(m) /\ m \in Installed
      BY <1>2, SoundModules DEF forkModule
    <3>2. QED BY <3>1 DEF TypeOK, Sound, Installed
  <2>2. [mods[m] EXCEPT !.workspace = w, !.existing = FALSE] \in ModuleSpec
    BY <2>1 DEF ModuleSpec
  <2>3. store(n, [mods[m] EXCEPT !.workspace = w, !.existing = FALSE])
    BY <1>2 DEF forkModule
  <2>. DEFINE spec == [mods[m] EXCEPT !.workspace = w, !.existing = FALSE]
  <2>. HIDE DEF spec
  <2>4. QED BY <2>2, <2>3, StoreStep
<1>3. CASE UNCHANGED vars
  BY <1>3 DEF vars, AdmissionInvariant, TypeOK, Existing, Installed, Rendered
<1>4. QED BY <1>1, <1>2, <1>3, UpdateStep, InstallStep, UninstallStep DEF Next

\* The inductive invariant of the Modules the webhooks let through: one that was not
\* edited since has a valid configuration, and one that was installed has its release
\* where its spec is rendered to.
THEOREM AdmissionKept == Spec => []AdmissionInvariant
<1>1. QED BY AdmissionInit, AdmissionNext, PTL DEF Spec

\* Whatever the definitions, the values and the edits are, the templates are rendered
\* with a value the definition in force allows for what the user gave, and there is one
\* as long as the definition is the one the webhook validated (module_types.go
\* GetValidatedConfig, ConfigItemSpecInteger.Validate and the other validations,
\* module_webhook.go ValidateCreate, ValidateUpdate).
THEOREM ConfigValid == Spec => []ConfigRespected
<1>1. AdmissionInvariant => ConfigRespected
  <2>. SUFFICES ASSUME AdmissionInvariant, NEW m \in Existing
                PROVE  /\ \A v \in GetValidatedConfig(mods[m]) : Allows(mods[m].def, mods[m].config, v)
                       /\ "def" \notin touched[m] => GetValidatedConfig(mods[m]) # {}
    BY DEF ConfigRespected
  <2>1. mods[m] \in ModuleSpec
    BY DEF AdmissionInvariant, TypeOK, Existing
  <2>2. QED BY <2>1, ResultAllowed DEF AdmissionInvariant
<1>2. QED BY <1>1, AdmissionKept, PTL

\* No edit the webhook lets through, but one of the definitions of the configuration,
\* makes an operation look for a release where it was not installed or found, and until
\* these or the values are edited the spec goes on being rendered (module_webhook.go
\* validateModuleImmutableUpdateFields, module_types.go RenderHelmSpec,
\* module_controller.go newManager).
THEOREM ReleaseFoundAgain == Spec => []FoundAgain
<1>1. AdmissionInvariant => FoundAgain
  <2>. SUFFICES ASSUME AdmissionInvariant, NEW m \in Installed, mods[m].namespace # "{{random}}"
                PROVE  /\ "def" \notin touched[m] => RenderHelmSpec(mods[m]) \subseteq {placed[m]}
                       /\ touched[m] \cap {"def", "values"} = {} /\ ~mods[m].existing
                            => RenderHelmSpec(mods[m]) # {}
    BY DEF FoundAgain
  <2>1. m \in Modules /\ Sound(m) /\ mods[m] \in ModuleSpec /\ Rendered(m)
    BY SoundModules, AbsentIsNoModule DEF Installed, AdmissionInvariant, TypeOK, Sound
  <2>2. CASE mods[m].existing
    BY <2>1, <2>2, AdoptedPlace DEF Rendered
  <2>3. CASE ~mods[m].existing
    <3>. DEFINE good == [mods[m] EXCEPT !.values = "good"]
    <3>1. mods[m].values = "good" => good = mods[m]
      BY <2>1 DEF ModuleSpec
    <3>2. mods[m].values # "good" => RenderHelmSpec(mods[m]) = {}
      BY <2>1 DEF ModuleSpec, RenderHelmSpec
    <3>3. "def" \notin touched[m] => RenderHelmSpec(good) = {placed[m]}
      BY <2>1, <2>3 DEF Rendered
    <3>4. touched[m] \cap {"def", "values"} = {} => mods[m].values = "good"
      BY <2>1, <2>3 DEF Rendered
    <3>. HIDE DEF good
    <3>5. QED BY <3>1, <3>2, <3>3, <3>4
  <2>4. QED BY <2>2, <2>3
<1>2. QED BY <1>1, AdmissionKept, PTL

LEMMA LineageInit == Init => LineageInvariant
<1>. SUFFICES ASSUME Init PROVE LineageInvariant
  OBVIOUS
<1>1. Existing = {} /\ Installed = {} /\ lost = {}
  BY DEF Init, Existing, Installed
<1>2. NamesUsed /\ KinApart /\ KinForked /\ PlacedByName /\ ReleaseSpared
  BY <1>1 DEF NamesUsed, KinApart, KinForked, Kin, PlacedByName, ReleaseSpared
<1>3. QED BY <1>2, AdmissionInit DEF LineageInvariant

LEMMA LineageNext ==
    ASSUME ForksApart, NamesApart
    PROVE  LineageInvariant /\ [Next]_vars => LineageInvariant'
<1>. SUFFICES ASSUME LineageInvariant, [Next]_vars PROVE LineageInvariant'
  OBVIOUS
<1>t. AdmissionInvariant /\ NamesUsed /\ KinApart /\ KinForked
  BY DEF LineageInvariant
<1>1. ASSUME NEW m \in Modules, createModule(m) PROVE LineageInvariant'
  <2>1. PICK spec \in Requests[m] : store(m, spec) /\ forked' = forked
    BY <1>1 DEF createModule
  <2>2. spec \in ModuleSpec
    BY ConstantsAssumption
  <2>3. AdmissionInvariant' /\ PlacedByName' /\ ReleaseSpared'
    BY <2>1, <2>2, LineageStore
  <2>4. NamesUsed' /\ KinApart' /\ KinForked'
    BY <1>t, <2>1, CreateKin
  <2>5. QED BY <2>3, <2>4 DEF LineageInvariant
<1>2. ASSUME NEW m \in Modules, NEW n \in Modules, NEW w \in Workspaces, forkModule(m, n, w)
      PROVE  LineageInvariant'
  <2>. DEFINE spec == [mods[m] EXCEPT !.workspace = w, !.existing = FALSE]
  <2>1. mods[m] \in ModuleSpec
    BY <1>t, <1>2, SoundModules DEF forkModule, AdmissionInvariant, TypeOK, Sound, Installed
  <2>2. spec \in ModuleSpec /\ store(n, spec)
    BY <1>2, <2>1 DEF forkModule, ModuleSpec
  <2>. HIDE DEF spec
  <2>3. AdmissionInvariant' /\ PlacedByName' /\ ReleaseSpared'
    BY <2>2, LineageStore
  <2>4. NamesUsed' /\ KinApart' /\ KinForked'
    BY <1>t, <1>2, ForkKin
  <2>5. QED BY <2>3, <2>4 DEF LineageInvariant
<1>3. CASE UNCHANGED vars
  <2>1. /\ mods' = mods /\ placed' = placed /\ lost' = lost /\ stored' = stored /\ forked' = forked
    BY <1>3 DEF vars
  <2>2. AdmissionInvariant'
    BY <1>t, AdmissionNext
  <2>3. NamesUsed' /\ KinApart' /\ KinForked'
    BY <1>t, <2>1, KinKept DEF SameKin
  <2>4. PlacedByName' /\ ReleaseSpared'
    BY <2>1 DEF LineageInvariant, PlacedByName, ReleaseSpared, Installed
  <2>5. QED BY <2>2, <2>3, <2>4 DEF LineageInvariant
<1>4. QED BY <1>1, <1>2, <1>3, LineageUpdate, LineageInstall, LineageUninstall DEF Next

\* Where every fork is a managed workspace and the workspaces of one lineage lead to
\* different clusters, no installation that fails and no Module that goes takes another
\* Module's release with it in the namespace default, unless a user gave both their name,
\* whatever is copied from copies, deleted, created and edited in between (helm.go
\* UninstallRelease, workspace_fork.go forkWorkspace, module_webhook.go Default): forks
\* put at most one Module with a generated name into each workspace.
THEOREM ReleasesApart ==
    ASSUME ForksApart, NamesApart
    PROVE  Spec => []ReleaseSpared
<1>1. Init => LineageInvariant
  BY LineageInit
<1>2. LineageInvariant /\ [Next]_vars => LineageInvariant'
  BY LineageNext
<1>3. LineageInvariant => ReleaseSpared
  BY DEF LineageInvariant
<1>4. QED BY <1>1, <1>2, <1>3, PTL DEF Spec
=============================================================================
