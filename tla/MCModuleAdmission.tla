-------------------------- MODULE MCModuleAdmission --------------------------
(* Small instances of ModuleAdmission. *)
EXTENDS ModuleAdmission, TLC

MCWorkspaces == {"dev", "copy"}
MCFrom == "dev" :> None @@ "copy" :> "dev"

\* A fork into a vcluster of its own, and one into the cluster of its source.
MCApart == "dev" :> "host" @@ "copy" :> "vcluster"
MCTogether == "dev" :> "host" @@ "copy" :> "host"

MCNames == <<"m1", "m2", "m3">>

Def(type, default, values) ==
    [type |-> type, required |-> FALSE, editable |-> TRUE, default |-> default,
     min |-> {}, max |-> {}, values |-> values]
Replicas == [Def("integer", <<"integer", 1>>, {}) EXCEPT !.min = {-1}, !.max = {3}]
Owner == Def("string", <<"string", "blue">>, {"blue", "red", Numeral})
MCDefinitions ==
    {Replicas, [Replicas EXCEPT !.min = {}, !.max = {2}, !.required = TRUE],
     Def("boolean", <<"boolean", FALSE>>, {}), Owner, [Owner EXCEPT !.editable = FALSE],
     Def("option", <<"string", "red">>, {"red"}),
     Def("multipleOptions", <<"[]string", {"a", "b"}>>, {"a", "b"}), Def(None, NoValue, {})}

\* The last number is no int of the model: the largest one is 7.
MCInputs ==
    {NoValue, <<"null", None>>, <<"number", 39>>, <<"number", 40>>, <<"number", -9>>,
     <<"number", -20>>, <<"number", 85>>, <<"boolean", TRUE>>, <<"string", "red">>,
     <<"string", "green">>, <<"string", Numeral>>, <<"[]any", {"a"}>>}

Plain == [kind |-> "helm", workspace |-> "dev", existing |-> FALSE, release |-> None,
          namespace |-> DefaultNamespace, chart |-> {"repo"}, values |-> "good", rest |-> 1,
          def |-> Owner, config |-> NoValue]

\* One Module with every definition, value and namespace, one beside it, and one that can
\* only be a copy.
MCRequests ==
    "a" :> UNION {{[Plain EXCEPT !.def = d, !.config = i, !.namespace = "{{config}}"] :
                     d \in MCDefinitions, i \in MCInputs},
                  {[Plain EXCEPT !.namespace = t] : t \in Templates},
                  {[Plain EXCEPT !.existing = TRUE, !.namespace = t] : t \in {DefaultNamespace, "{{config}}", "{{broken}}"}},
                  {[Plain EXCEPT !.namespace = t, !.release = r] :
                     t \in {DefaultNamespace, TeamNamespace}, r \in {None, Given}},
                  {[Plain EXCEPT !.chart = c] : c \in SUBSET ChartSources},
                  {[Plain EXCEPT !.kind = k] : k \in {"custom", "neither"}},
                  {[Plain EXCEPT !.workspace = None], [Plain EXCEPT !.values = "broken"]}}
    @@ "b" :> {Plain, [Plain EXCEPT !.namespace = TeamNamespace], [Plain EXCEPT !.release = Given]}
    @@ "c" :> {}

\* One Module in the namespace default, and copies of it.
MCOneRequest == "a" :> {Plain} @@ "b" :> {}
=============================================================================
