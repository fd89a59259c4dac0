--------------------------- MODULE ModuleAdmission ---------------------------
(***************************************************************************)
(* What a Module asks for and where its release is therefore looked for.   *)
(* A Module passes the webhooks when it is created, edited or made by a    *)
(* fork (module_webhook.go); each operation of the module controller       *)
(* validates its configuration values and renders its templates anew       *)
(* (module_types.go), and finds its Helm release only if the name and the  *)
(* namespace are still those of the installation.                          *)
(***************************************************************************)
EXTENDS Integers, Sequences, FiniteSets, Functions

CONSTANTS
    Modules,        \* names of Modules
    Workspaces,     \* the workspaces there are
    Cluster,        \* the cluster each of them leads to
    From,           \* the workspace each of them is a fork of, or None
    Managed,        \* the managed ones, which are forked once (WorkspaceController, ForkOnce)
    Requests,       \* per Module: what a user may create
    Definitions,    \* values of the top-level config: the definition of one alias
    Inputs,         \* values of spec.config: the JSON given for that alias
    GeneratedNames, \* the release name Default comes up with for each Module stored
    MaxInt,         \* the largest int
    Above,          \* what the build's int(v) is for a float64 above MaxInt
    MaxEdits        \* how often Modules may be edited

VARIABLES
    mods,           \* each Module as it is stored, or Absent
    placed,         \* per Module: where its release was installed or found
    releases,       \* where there is a release
    lost,           \* releases of one Module uninstalled for another
    stored,         \* Modules stored so far
    forked,         \* <<m, w>>: Module m was copied for workspace w
    touched,        \* per Module: the fields edited since its installation
    edits           \* edits so far

vars == <<mods, placed, releases, lost, stored, forked, touched, edits>>

-----------------------------------------------------------------------------
(* Data *)

None == "none"
Absent == [kind |-> None]

\* Release names given by a user: for a new release, and of one found.
Given == "given"
Legacy == "legacy"

\* The namespace that is never removed, and one of the user's own.
DefaultNamespace == "default"
TeamNamespace == "team"

\* JSON values, and what becomes of them: <<type, value>>.  Numbers are in tenths.
TypeOf(v) == v[1]
ValueOf(v) == v[2]
NoValue == <<"absent", None>>

\* A string that is JSON as it stands, and a list of strings as Go prints it.
Numeral == "8080"
PrintedList == "[a b]"

\* spec.helm.namespace: a name, or a template on the release name, on the
\* configuration value, with randBase62, or one that does not parse or execute.
Templates == {DefaultNamespace, TeamNamespace, "{{release}}", "{{config}}", "{{random}}", "{{broken}}"}
Randoms == {"r1", "r2"}
ChartSources == {"repo", "configMap", "git"}

\* existing: whether spec.helm.existingRelease is set; values: whether the templates in
\* the rest of the spec render; rest: spec.helm.outputs, or spec.custom.image.
ModuleSpec ==
    [kind : {"helm", "custom", "neither"}, workspace : Workspaces \cup {None},
     existing : BOOLEAN, release : Range(GeneratedNames) \cup {Given, None},
     namespace : Templates, chart : SUBSET ChartSources, values : {"good", "broken"},
     rest : 1 .. 2, def : Definitions, config : Inputs]

\* A place of a release.  A Module's is Nowhere before its installation, and Failed after one
\* that failed.
Place(c, n, r) == [cluster |-> c, namespace |-> n, name |-> r]
Nowhere == Place(None, None, None)
Failed == Place(None, None, "failed")

\* A workspace with those it is a fork of, directly or not.
Lineage(u) ==
    {w \in Workspaces :
       \A S \in SUBSET Workspaces :
         u \in S /\ (\A x \in S : From[x] # None => From[x] \in S) => w \in S}

ASSUME ConstantsAssumption ==
    /\ DOMAIN Cluster = Workspaces
    /\ \A m \in Modules : Requests[m] \subseteq ModuleSpec
    /\ GeneratedNames \in Seq(Range(GeneratedNames))
    /\ MaxEdits \in Nat

\* spec.from is the name of a workspace that is there before, and is never changed.
ASSUME ForkAssumption ==
    /\ None \notin Workspaces
    /\ From \in [Workspaces -> Workspaces \cup {None}]
    /\ \A w \in Workspaces : \A x \in Lineage(w) : From[x] # w
    /\ Managed \subseteq Workspaces

\* A definition is of one type or of none, and a number is one.  min and max are optional:
\* sets of one integer, or of none.
ConfigTypes == {"integer", "boolean", "string", "option", "multipleOptions"}

ASSUME ConfigAssumption ==
    /\ \A d \in Definitions :
         /\ d.type \in ConfigTypes \cup {None} /\ d.required \in BOOLEAN /\ d.editable \in BOOLEAN
         /\ d.min \subseteq Int /\ d.max \subseteq Int
    /\ \A i \in Inputs : TypeOf(i) = "number" => ValueOf(i) \in Int

\* The conversion of a number that is no int depends on the build: it is the smallest int
\* on amd64, and the nearest one on arm64.
MinInt == -MaxInt - 1

ASSUME IntAssumption == MaxInt \in Nat /\ Above \in {MinInt, MaxInt}

Existing == {m \in Modules : mods[m] # Absent}
Installed == {m \in Modules : placed[m] \notin {Nowhere, Failed}}

\* There is a release nobody installed with a Module in every cluster.
Init ==
    /\ mods = [m \in Modules |-> Absent]
    /\ placed = [m \in Modules |-> Nowhere]
    /\ releases = {Place(Cluster[w], TeamNamespace, Legacy) : w \in Workspaces}
    /\ lost = {}
    /\ stored = 0
    /\ forked = {}
    /\ touched = [m \in Modules |-> {}]
    /\ edits = 0

-----------------------------------------------------------------------------
(* Configuration values.  A validation returns the set of its results: none if it *)
(* is an error.                                                                   *)

\* The fraction is dropped, towards zero.
Truncated(tenths) == IF tenths >= 0 THEN tenths \div 10 ELSE -((-tenths) \div 10)

\* int(v).
ToInt(tenths) ==
    CASE Truncated(tenths) > MaxInt -> Above
      [] Truncated(tenths) < MinInt -> MinInt
      [] OTHER -> Truncated(tenths)

\* A variant whose upper limit is off by one.
ValidateIntegerBelow(def, input) ==
    LET val == IF TypeOf(input) = "number" THEN {ToInt(ValueOf(input))} ELSE {}
    IN {<<"integer", n>> : n \in {k \in val : /\ \A min \in def.min : min <= k
                                              /\ \A max \in def.max : k <= max + 1}}

\* A limit that is not there is not looked at.
ValidateInteger(def, input) ==
    LET val == IF TypeOf(input) = "number" THEN {ToInt(ValueOf(input))} ELSE {}
    IN {<<"integer", n>> : n \in {k \in val : /\ \A min \in def.min : min <= k
                                              /\ \A max \in def.max : k <= max}}

ValidateBoolean(input) == IF TypeOf(input) = "boolean" THEN {input} ELSE {}

\* def.values: the strings the regex matches; none if it does not compile.
ValidateString(def, input) ==
    {v \in {input} : TypeOf(v) = "string" /\ ValueOf(v) \in def.values}

\* def.values: the options.
ValidateOption(def, input) ==
    {v \in {input} : TypeOf(v) = "string" /\ ValueOf(v) \in def.values}

\* A list in JSON is a []any, never the []string that is asked for.
ValidateMultipleOptions(def, input) ==
    {v \in {input} : /\ TypeOf(v) = "[]string" /\ ValueOf(v) \subseteq def.values
                     /\ def.required => ValueOf(v) # {}}

\* An alias that is given as null is given; a default is not validated.
Validate(def, input) ==
    CASE input = NoValue -> IF def.required THEN {} ELSE {def.default}
      [] input # NoValue /\ ~def.editable -> {}
      [] input # NoValue /\ def.editable ->
           CASE def.type = "integer" -> ValidateInteger(def, input)
             [] def.type = "boolean" -> ValidateBoolean(input)
             [] def.type = "string" -> ValidateString(def, input)
             [] def.type = "option" -> ValidateOption(def, input)
             [] def.type = "multipleOptions" -> ValidateMultipleOptions(def, input)

\* A definition that names no type is an error.
GetValidatedConfig(m) == IF m.def.type = None THEN {} ELSE Validate(m.def, m.config)

-----------------------------------------------------------------------------
(* Rendering *)

\* A configuration value printed by a template, and read as JSON again if it can be.
TypePreserved(v) ==
    CASE TypeOf(v) = "string" /\ ValueOf(v) = Numeral -> <<"number", 80800>>
      [] TypeOf(v) = "[]string" -> <<"string", PrintedList>>
      [] OTHER -> v

\* The namespace has to come out as a string.
renderInterface(template, releaseName, v) ==
    LET rendered == CASE template = "{{release}}" -> {<<"string", releaseName>>}
                      [] template = "{{config}}" -> {TypePreserved(v)}
                      [] template = "{{random}}" -> {<<"string", r>> : r \in Randoms}
                      [] template = "{{broken}}" -> {}
                      [] OTHER -> {<<"string", template>>}
    IN {ValueOf(t) : t \in {x \in rendered : TypeOf(x) = "string"}}

GetReleaseName(m) == IF m.existing THEN Legacy ELSE m.release

\* Of an adopted Module the namespace is the release's; its own is rendered all the same.
GetNamespace(m, rendered) == IF m.existing /\ rendered # {} THEN {TeamNamespace} ELSE rendered

\* The places at which the rendered spec may put the release; none when rendering fails.
RenderHelmSpec(m) ==
    IF m.kind # "helm" \/ m.values = "broken" THEN {}
    ELSE {Place(Cluster[m.workspace], n, GetReleaseName(m)) :
            n \in UNION {GetNamespace(m, renderInterface(m.namespace, GetReleaseName(m), v)) :
                           v \in GetValidatedConfig(m)}}

-----------------------------------------------------------------------------
(* The webhooks *)

\* A variant that names the release after the Module's namespace alone.
DefaultByNamespace(m) ==
    IF m.kind = "helm" /\ m.release = None THEN [m EXCEPT !.release = Head(GeneratedNames)] ELSE m

\* A Helm Module without a release name gets one of its own.
Default(m) ==
    IF m.kind = "helm" /\ m.release = None
    THEN [m EXCEPT !.release = GeneratedNames[stored + 1]] ELSE m

validateModule(m) ==
    /\ m.workspace \in Workspaces
    /\ m.kind = "helm" => Cardinality(m.chart) = 1
    /\ GetValidatedConfig(m) # {}

\* A variant that forgets spec.config.
validateModuleImmutableUpdateFieldsOpen(old, new) ==
    /\ new.workspace = old.workspace
    /\ new.kind = old.kind
    /\ old.kind = "helm" =>
         /\ new.release = old.release /\ new.existing = old.existing /\ new.rest = old.rest
         /\ ~old.existing /\ ~new.existing => new.namespace = old.namespace
    /\ old.kind = "custom" => new.rest = old.rest

\* The definitions, the chart and the values may change, and an adopted Module's namespace.
validateModuleImmutableUpdateFields(old, new) ==
    /\ new.workspace = old.workspace
    /\ new.config = old.config
    /\ new.kind = old.kind
    /\ old.kind = "helm" =>
         /\ new.release = old.release /\ new.existing = old.existing /\ new.rest = old.rest
         /\ ~old.existing /\ ~new.existing => new.namespace = old.namespace
    /\ old.kind = "custom" => new.rest = old.rest

ValidateCreate(m) == validateModule(m)

\* What is not immutable is not validated.
ValidateUpdate(old, new) == validateModuleImmutableUpdateFields(old, new)

-----------------------------------------------------------------------------
(* Users and forks *)

\* A Module that the webhooks let through is stored.
store(m, spec) ==
    /\ m \notin Existing
    /\ stored < Len(GeneratedNames)
    /\ ValidateCreate(Default(spec))
    /\ mods' = [mods EXCEPT ![m] = Default(spec)]
    /\ stored' = stored + 1
    /\ UNCHANGED <<placed, releases, lost, touched, edits>>

createModule(m) == \E spec \in Requests[m] : store(m, spec) /\ UNCHANGED forked

\* forkWorkspace copies every Module of the source that is ready or asleep, once.
forkModule(m, n, w) ==
    /\ m \in Installed
    /\ mods[m].workspace = From[w]
    /\ w \in Managed => <<m, w>> \notin forked
    /\ forked' = forked \cup {<<m, w>>}
    /\ store(n, [mods[m] EXCEPT !.workspace = w, !.existing = FALSE])

\* One field at a time; leaving out the release name makes Default generate another.
Edited(old) ==
    UNION {{[old EXCEPT !.workspace = w] : w \in Workspaces},
           {[old EXCEPT !.kind = k] : k \in {"helm", "custom"}},
           {[old EXCEPT !.release = r] : r \in {Given, None}},
           {[old EXCEPT !.existing = b] : b \in BOOLEAN},
           {[old EXCEPT !.namespace = t] : t \in Templates},
           {[old EXCEPT !.chart = c] : c \in {{}, {"repo"}, {"git", "repo"}}},
           {[old EXCEPT !.values = v] : v \in {"good", "broken"}},
           {[old EXCEPT !.rest = x] : x \in 1 .. 2},
           {[old EXCEPT !.def = d] : d \in Definitions},
           {[old EXCEPT !.config = i] : i \in Inputs}}

updateModule(m) ==
    /\ m \in Existing
    /\ edits < MaxEdits /\ stored < Len(GeneratedNames)
    /\ \E new \in Edited(mods[m]) \ {mods[m]} :
         /\ ValidateUpdate(mods[m], Default(new))
         /\ mods' = [mods EXCEPT ![m] = Default(new)]
         /\ touched' = [touched EXCEPT ![m] = @ \cup {f \in DOMAIN new : new[f] # mods[m][f]}]
    /\ edits' = edits + 1
    /\ UNCHANGED <<placed, releases, lost, stored, forked>>

-----------------------------------------------------------------------------
(* The module controller *)

\* The releases that go when the one at p is uninstalled, with its namespace or without.
uninstalled(p, removeNamespace) ==
    {q \in releases : /\ q.cluster = p.cluster /\ q.namespace = p.namespace
                      /\ q.name = p.name \/ (removeNamespace /\ p.namespace # DefaultNamespace)}

UninstallRelease(m, p, removeNamespace) ==
    /\ releases' = releases \ uninstalled(p, removeNamespace)
    /\ lost' = lost \cup {placed[n] : n \in {k \in Modules \ {m} : placed[k] \in uninstalled(p, removeNamespace)}}

\* The release must be there, and the values of its chart come before the Module's own:
\* they may hold templates that are not meant for this renderer.
adoptExistingHelmRelease(m) ==
    LET p == Place(Cluster[mods[m].workspace], TeamNamespace, Legacy) IN
    /\ mods[m].existing
    /\ IF p \in releases
       THEN /\ placed' = [placed EXCEPT ![m] = p]
            /\ \E v \in {mods[m].values, "broken"} : mods' = [mods EXCEPT ![m].values = v]
       ELSE /\ placed' = [placed EXCEPT ![m] = Failed]
            /\ UNCHANGED mods
    /\ UNCHANGED <<releases, lost, touched>>

\* Helm refuses a name that is in use and a namespace the cluster refuses, and an
\* installation may fail for reasons of its own.  The release is then uninstalled, and
\* its namespace removed, if the clean-up does not fail.
installAt(m, p) ==
    /\ touched' = [touched EXCEPT ![m] = {}]
    /\ \/ /\ p \notin releases /\ p.namespace # PrintedList
          /\ placed' = [placed EXCEPT ![m] = p]
          /\ releases' = releases \cup {p}
          /\ UNCHANGED lost
       \/ /\ placed' = [placed EXCEPT ![m] = Failed]
          /\ UninstallRelease(m, p, TRUE) \/ UNCHANGED <<releases, lost>>
    /\ UNCHANGED mods

\* It also fails when the configuration or the templates are bad or no chart is left.
installModule(m) ==
    /\ m \in Existing
    /\ mods[m].kind = "helm"
    /\ placed[m] = Nowhere
    /\ \/ adoptExistingHelmRelease(m)
       \/ /\ ~mods[m].existing
          /\ IF RenderHelmSpec(mods[m]) = {} \/ mods[m].chart = {}
             THEN /\ placed' = [placed EXCEPT ![m] = Failed]
                  /\ UNCHANGED <<mods, releases, lost, touched>>
             ELSE \E p \in RenderHelmSpec(mods[m]) : installAt(m, p)
    /\ UNCHANGED <<stored, forked, edits>>

\* spec.helm.cleanup says whether the namespace goes too.  Nothing is uninstalled for
\* an adopted or a custom Module, one deleted before its installation, or when rendering
\* or Helm fails; the Module goes in any case.
uninstallModule(m) ==
    /\ m \in Existing
    /\ \/ /\ mods[m].kind = "helm" /\ ~mods[m].existing /\ placed[m] # Nowhere
          /\ \E p \in RenderHelmSpec(mods[m]), removeNamespace \in BOOLEAN :
               UninstallRelease(m, p, removeNamespace)
       \/ UNCHANGED <<releases, lost>>
    /\ mods' = [mods EXCEPT ![m] = Absent]
    /\ placed' = [placed EXCEPT ![m] = Nowhere]
    /\ touched' = [touched EXCEPT ![m] = {}]
    /\ UNCHANGED <<stored, forked, edits>>

-----------------------------------------------------------------------------

Next ==
    \E m \in Modules :
        \/ createModule(m)
        \/ \E n \in Modules, w \in Workspaces : forkModule(m, n, w)
        \/ updateModule(m)
        \/ installModule(m)
        \/ uninstallModule(m)

Spec == Init /\ [][Next]_vars

-----------------------------------------------------------------------------
(* Properties *)

\* FoundAgain: a release is looked for where it was installed or found, however often
\* the spec is rendered in between (module_controller.go newManager): no edit the webhook
\* lets through leads an operation to another place, except one of the definitions of
\* the configuration, and a Module that was installed goes on being rendered as long as
\* neither these nor the values are edited.  (An adopted Module is rendered for the first
\* time when it is put to sleep, and a namespace with randBase62 is another one each time.)
FoundAgain ==
    \A m \in Installed : mods[m].namespace # "{{random}}" =>
        /\ "def" \notin touched[m] => RenderHelmSpec(mods[m]) \subseteq {placed[m]}
        /\ touched[m] \cap {"def", "values"} = {} /\ ~mods[m].existing => RenderHelmSpec(mods[m]) # {}

\* What a definition allows, whatever the validation does: the default if nothing is
\* given, and otherwise what is given.  An integer is within the limits there are, and it is
\* what is given up to the fraction, if that is an int at all; otherwise it is the
\* smallest or the largest int, so that two limits inside this range keep such a
\* number out and one limit alone need not.
AllowsInteger(def, given, n) ==
    /\ \A min \in def.min : min <= n
    /\ \A max \in def.max : n <= max
    /\ \/ \E frac \in -9 .. 9 : given = 10 * n + frac /\ frac * given >= 0
       \/ n \in {MinInt, MaxInt} /\ (given >= 10 * (MaxInt + 1) \/ given <= 10 * (MinInt - 1))

Allows(def, input, v) ==
    \/ input = NoValue /\ ~def.required /\ v = def.default
    \/ /\ input # NoValue /\ def.editable
       /\ IF def.type = "integer"
          THEN TypeOf(v) = "integer" /\ AllowsInteger(def, ValueOf(input), ValueOf(v))
          ELSE v = input /\ (TypeOf(v) = "string" => ValueOf(v) \in def.values)

\* ConfigRespected: the value the templates are rendered with is one the definition in
\* force allows for what the user gave, also after the definition was edited
\* (module_types.go GetValidatedConfig), and the value is there for every Module whose
\* definition was not edited since it was let in.
ConfigRespected ==
    \A m \in Existing :
        /\ \A v \in GetValidatedConfig(mods[m]) : Allows(mods[m].def, mods[m].config, v)
        /\ "def" \notin touched[m] => GetValidatedConfig(mods[m]) # {}

\* ReleaseSpared: in the namespace default no Module's installation that fails, and no
\* Module that goes, takes another Module's release with it (helm.go UninstallRelease): the
\* names Default generates keep them apart, and only a name users gave twice does not.
ReleaseSpared == \A p \in lost : p.namespace = DefaultNamespace => p.name = Given

\* ForkSparesSource: where every release name is generated and every namespace is default,
\* a Module that is installed has its release, whatever is copied from it and
\* becomes of the copy (README.md: setups are cloned to test changes in isolation).
ForkSparesSource == \A m \in Installed : placed[m] \in releases

-----------------------------------------------------------------------------
(* The inductive invariant behind the theorems about rendering *)

Fields == {"kind", "workspace", "existing", "release", "namespace", "chart", "values", "rest",
           "def", "config"}

\* The type invariant.
TypeOK ==
    /\ mods \in [Modules -> ModuleSpec \cup {Absent}]
    /\ DOMAIN placed = Modules
    /\ touched \in [Modules -> SUBSET Fields]
    /\ stored \in 0 .. Len(GeneratedNames)

\* Where an operation can look for the release of m; broken templates can be repaired.
Rendered(m) ==
    IF mods[m].existing
    THEN placed[m] = Place(Cluster[mods[m].workspace], TeamNamespace, Legacy)
    ELSE mods[m].namespace # "{{random}}" =>
           /\ "def" \notin touched[m] =>
                RenderHelmSpec([mods[m] EXCEPT !.values = "good"]) = {placed[m]}
           /\ touched[m] \cap {"def", "values"} = {} => mods[m].values = "good"

AdmissionInvariant ==
    /\ TypeOK
    /\ \A m \in Modules \ Existing : placed[m] = Nowhere /\ touched[m] = {}
    /\ \A m \in Existing : "def" \notin touched[m] => GetValidatedConfig(mods[m]) # {}
    /\ \A m \in Installed : mods[m].kind = "helm" /\ Rendered(m)

-----------------------------------------------------------------------------
(* The inductive invariant behind ReleaseSpared *)

\* Forks go to managed workspaces, in clusters of their own, and users do not give
\* the names that are generated, which do not repeat.
ForksApart ==
    /\ \A w \in Workspaces : From[w] # None => w \in Managed
    /\ \A u, w \in Workspaces : u # w /\ Lineage(u) \cap Lineage(w) # {} => Cluster[u] # Cluster[w]

NamesApart ==
    /\ {Given, None} \cap Range(GeneratedNames) = {}
    /\ \A i, j \in DOMAIN GeneratedNames : GeneratedNames[i] = GeneratedNames[j] => i = j
    /\ \A m \in Modules : \A spec \in Requests[m] : spec.release \in {Given, None}

\* Two Helm Modules with one generated release name, or one of them twice.
Kin(m, n) ==
    /\ m \in Existing /\ mods[m].kind = "helm"
    /\ n \in Existing /\ mods[n].kind = "helm"
    /\ mods[m].release = mods[n].release /\ mods[m].release \in Range(GeneratedNames)

\* The names in use are the ones generated so far.
NamesUsed ==
    \A m \in Existing : mods[m].kind = "helm" =>
        /\ mods[m].workspace \in Workspaces
        /\ mods[m].release = Given \/ \E i \in 1 .. stored : mods[m].release = GeneratedNames[i]

\* Forks, and forks of forks, put at most one copy of a Module into each workspace.
KinApart ==
    \A m, n \in Modules : Kin(m, n) /\ m # n =>
        /\ mods[m].workspace # mods[n].workspace
        /\ Lineage(mods[m].workspace) \cap Lineage(mods[n].workspace) # {}

\* Where there is a copy, the source cannot be copied again: every fork on the way from the
\* workspace of one of its kin down to the copy's has taken place.
KinForked ==
    \A k, m \in Modules : Kin(k, m) =>
        \A w \in Lineage(mods[k].workspace) : From[w] = mods[m].workspace => <<m, w>> \in forked

\* A Module's release has its name and is in the cluster of its workspace.
PlacedByName ==
    \A m \in Installed : ~mods[m].existing =>
        placed[m].name = mods[m].release /\ placed[m].cluster = Cluster[mods[m].workspace]

LineageInvariant ==
    /\ AdmissionInvariant
    /\ NamesUsed /\ KinApart /\ KinForked /\ PlacedByName /\ ReleaseSpared
=============================================================================
