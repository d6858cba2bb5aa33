---------------------------- MODULE MCAlgorithms ----------------------------
(***************************************************************************)
(* The pure algorithms of the server on small inputs: a behaviour is one     *)
(* input of one of them and its result, which the properties compare with a  *)
(* definition of what it should be.                                         *)
(***************************************************************************)
EXTENDS Integers, Sequences, FiniteSets, SequencesExt, TLC

CONSTANT Algorithms

VARIABLES algorithm, input, result

algoVars == <<algorithm, input, result>>

Pending == [pending |-> TRUE]

Net == INSTANCE NetworkValidation
Man == INSTANCE ManifestRestoration
Crt == INSTANCE ToolCreation
Cnf == INSTANCE NetworkConfiguration
Llm == INSTANCE LlmSelection
Par == INSTANCE ToolParameters
-----------------------------------------------------------------------------
(* Agent networks *)

A == Net!Name("a")   B == Net!Name("b")   C == Net!Name("c")   Ghost == Net!Name("ghost")
Path == Net!Ref("", <<>>, TRUE, <<<<"net">>>>)
McpUrl == Net!Ref("https", <<"host">>, TRUE, <<<<"mcp">>>>)

List(refs) == [shape |-> "list", refs |-> refs]
NoList == [shape |-> "none", refs |-> <<>>]
Agent(name, refs) ==
  [name |-> name, tools |-> List(refs), argsTools |-> NoList, function |-> "plain",
   class |-> FALSE, toolbox |-> FALSE, instructions |-> "plain", connectivity |-> TRUE]

\* Three agents that call each other in any way, and a path, and what is missing.
Graphs ==
  {<<Agent(A, SetToSeq(S)), Agent(B, SetToSeq(T)), Agent(C, SetToSeq(U))>> :
     S \in SUBSET {A, B, C, Path}, T \in SUBSET {A, C}, U \in SUBSET {A, B, C, Ghost}}

\* A caller and a called one of every shape.
Callers == {[Agent(A, <<>>) EXCEPT !.tools = t, !.argsTools = s, !.function = f, !.class = k] :
              t \in {List(<<B>>), List(<<B, McpUrl, B>>), List(<<Net!DictRef>>), List(<<Net!OtherRef>>),
                     [shape |-> "text", refs |-> <<>>], NoList},
              s \in {NoList, List(<<B, Path>>), [shape |-> "dict", refs |-> <<B>>],
                     [shape |-> "text", refs |-> <<>>]},
              f \in {"none", "plain", "text"}, k \in BOOLEAN}
Called == {[Agent(B, <<>>) EXCEPT !.function = f, !.class = k, !.toolbox = x, !.instructions = i] :
             f \in {"none", "plain", "blank"}, k, x \in BOOLEAN, i \in {"plain", "blank"}}
Shapes == {<<a, b>> : a \in Callers, b \in Called} \cup {<<a>> : a \in Callers}

Networks == Graphs \cup Shapes

\* Networks one agent of which hides its connectivity.
HiddenNetworks ==
  {<<Agent(A, <<B, C>>), [Agent(B, <<C>>) EXCEPT !.connectivity = b], [Agent(C, <<>>) EXCEPT !.connectivity = c]>> :
     b, c \in BOOLEAN}

\* Networks with an MCP server that is given by a dictionary.
ServerNetworks == {<<Agent(A, refs), Agent(B, <<>>)>> : refs \in {<<B>>, <<Net!DictRef>>, <<B, Net!DictRef>>}}

CheckNetwork(net) ==
  [cyclical |-> Net!FindCyclicalAgents(net), accepted |-> Net!Accepted(net, {}),
   designed |-> Net!AcceptedStructure(net), corrected |-> Net!CorrectNames(net), report |-> Net!ReportConnectivity(net)]

\* The agents that can be reached from those in start, by the calls of kids.
Closure(net, start, Kids(_)) ==
  LET near[n \in 0..Len(net)] ==
        IF n = 0 THEN start
        ELSE near[n - 1] \cup UNION {ToSet(Kids(Net!SpecOf(net, a))) : a \in near[n - 1] \cap Net!NamesOf(net)}
  IN near[Len(net)]
Calls(spec) == Net!CoerceTools(spec)
AllCalls(spec) == Net!Strings(Net!CoerceTools(spec) \o Net!CoerceArgsTools(spec))
OnCycle(net) == {a \in Net!NamesOf(net) : a \in Closure(net, ToSet(Calls(Net!SpecOf(net, a))), Calls)}
-----------------------------------------------------------------------------
(* Manifests: two files over two keys, which may name one network *)

Keys == {"k1", "k2"}
Many == [kind |-> "many", interactions |->
           <<[enable |-> TRUE, cron |-> "weekly"], [enable |-> TRUE, cron |-> "invalid"], [enable |-> TRUE, cron |-> "none"]>>]
Values ==
  {[kind |-> "bool", value |-> b] : b \in BOOLEAN} \cup {[kind |-> "other"]}
    \cup {[kind |-> "dict", dict |-> d] :
            d \in {[serve |-> TRUE, public |-> FALSE], [serve |-> FALSE, public |-> FALSE], [serve |-> TRUE, mcp |-> TRUE],
                   [serve |-> TRUE, public |-> TRUE, periodic |-> Many]}}
Entry(k, v) == [key |-> k, value |-> v]
Short == {<<>>} \cup {<<Entry("k1", v)>> : v \in Values}
Entries == Short \cup {<<Entry("k1", v), Entry("k2", w)>> : v, w \in Values}
ManifestInputs ==
  {[manifests |-> <<[parses |-> TRUE, entries |-> e], [parses |-> TRUE, entries |-> f]>>,
    files |-> [k1 |-> [state |-> x, version |-> 1], k2 |-> [state |-> "good", version |-> 2]],
    nameOf |-> [k1 |-> "net", k2 |-> n]] :
      e \in Entries, f \in Short, x \in Man!FileStates, n \in {"net", "other"}}

RestoreAll(in) == Man!Restore(in.manifests, in.files, in.nameOf)

\* The entries of all manifests in order, as the filters leave them.
FilteredEntries(in) == FlattenSeq([i \in DOMAIN in.manifests |-> Man!DictFilter(in.manifests[i].entries)])
StorageOf(dict) == IF Man!Holds(dict, "public") THEN "public" ELSE "protected"
Loads(in, e) == in.files[e.key].state = "good"
-----------------------------------------------------------------------------
(* Parameters: schemas of three levels *)

Simple == {[Par!NoSchema EXCEPT !.type = t] : t \in {"string", "object", "missing", "list", "notADict"}}
Dict(fields) == [shape |-> "dict", fields |-> fields]
Names(S) == [shape |-> "list", names |-> S]
Nested ==
  {[Par!NoSchema EXCEPT !.type = "object", !.properties = p, !.required = Names(r), !.extra = e] :
     p \in {Par!Absent} \cup {Dict([x |-> s]) : s \in Simple}, r \in {{}, {"x"}, {"ghost"}}, e \in {{}, {"parameters"}}}
Arrays == {[Par!NoSchema EXCEPT !.type = "array", !.items = i] : i \in {<<>>} \cup {<<s>> : s \in Simple \cup Nested}}
TopProperties ==
  {Par!Absent, [shape |-> "text", fields |-> Par!NoFields], Dict(Par!NoFields)}
    \cup {Dict([x |-> s]) : s \in Simple \cup Nested \cup Arrays} \cup {Dict([x |-> s, model_dump |-> s]) : s \in Simple}
Schemas ==
  {[type |-> t, properties |-> p, required |-> r, items |-> <<>>, extra |-> e] :
     t \in {"missing", "object"}, p \in TopProperties, e \in {{}, {"anyOf"}},
     r \in {Names({}), Names({"x"}), Names({"ghost"}), [shape |-> "text", names |-> {}], [shape |-> "missing", names |-> {}]}}
Parameters == {[shape |-> "dict", schema |-> s] : s \in Schemas} \cup
              {[shape |-> h, schema |-> Par!NoSchema] : h \in {"missing", "null", "text"}}
ParameterInputs == [description : BOOLEAN, parameters : Parameters]

CheckParameters(function) ==
  [accepted |-> Par!AcceptedParameters([function |-> function, parameters |-> [shape |-> "missing", schema |-> Par!NoSchema]]),
   internal |-> Par!MakeTool(function), external |-> Par!CreateExternalTool([state |-> "answered", function |-> function])]

\* What a schema lists as required and what a model requires, at every depth.
RECURSIVE RequiredIn(_), RequiredBy(_)
RequiredIn(schema) ==
  {<<n>> : n \in IF schema.properties.shape = "dict" THEN schema.required.names ELSE {}}
    \cup UNION {{<<f>> \o p : p \in RequiredIn(Par!Fields(schema)[f])} : f \in DOMAIN Par!Fields(schema)}
    \cup UNION {{<<"items">> \o p : p \in RequiredIn(s)} : s \in ToSet(schema.items)}
RequiredBy(type) ==
  CASE type.kind = "model" ->
         {<<f>> : f \in {g \in DOMAIN type.of : type.of[g].required}}
           \cup UNION {{<<f>> \o p : p \in RequiredBy(type.of[f].type)} : f \in DOMAIN type.of}
    [] type.kind = "list" -> {<<"items">> \o p : p \in RequiredBy(type.of)}
    [] OTHER -> {}
-----------------------------------------------------------------------------
(* LLMs: tables with an alias and a class that extends another *)

Entry2(class, use) == ("class" :> class) @@ ("use_model_name" :> use) @@ ("max_output_tokens" :> "known")
Infos ==
  [entries |-> ("m1" :> Entry2("openai", "m1")) @@ ("m2" :> Entry2("private", "m1")) @@ ("m3" :> Entry2("ghost", "m1"))
                 @@ ("alias" :> ("use_model_name" :> "m1")) @@ ("lost" :> ("use_model_name" :> "nobody")),
   classes |-> ("openai" :> [args |-> ("openai_api_key" :> "null") @@ ("temperature" :> "class's"), extends |-> "null"]),
   default |-> ("model_name" :> "m1") @@ ("prompt_token_fraction" :> "half")]
Users ==
  {[entries |-> e, classes |-> ("private" :> [args |-> a, extends |-> x]), default |-> d] :
     x \in {"null", "openai"}, e \in {<<>>, "m1" :> ("class" :> "private"), "alias" :> Entry2("private", "m1")},
     a \in {"openai_api_base" :> "private", "openai_api_key" :> "sly_data"},
     d \in {<<>>, "openai_api_key" :> "sly_data", "temperature" :> "default"}}
Maybe(key, values) == {<<>>} \cup {key :> v : v \in values}
Configs ==
  {a @@ b @@ c @@ d : a \in Maybe("model_name", {"m2", "m3", "alias", "lost", "ghost"}),
                      b \in Maybe("class", {"openai", "private", "package.Class"}),
                      c \in Maybe("openai_api_key", {"sly_data", "own"}), d \in Maybe("temperature", {"own"})}
LlmInputs == [user : Users, config : Configs, given : {<<>>, "openai_api_key" :> "user's"}]

Factories == {"resources", "legacyModel", "legacyResources", "noOpinion", "legacyNone", "keyText", "unknown", "providerError",
              "legacyUnknown", "other"}
FactoryInputs == [factories : SeqOf(Factories, 3) \ {<<>>}, userClass : {"resources", "userUnknown"}, known : BOOLEAN]

One(outcomes) == {[kind |-> "llm", of |-> o] : o \in outcomes}
Usable == {"resources", "legacyModel"}
Group(outcomes) == {[kind |-> "group", of |-> s] : s \in SeqOf(outcomes, 2) \ {<<>>}}
Fallbacks ==
  One({"resources", "missing", "keyText", "noModel", "noOpinion", "providerError"})
    \cup Group({"resources", "missing", "unknown"}) \cup {[kind |-> "group", of |-> <<"resources", "other">>]}
FallbackInputs == [fallbacks : SeqOf(Fallbacks, 3), num : {-2, 0, 2, 9}]
\* The candidates among the fallbacks that are tried, with where they stand.
Candidates(in) ==
  LET list == Llm!Trim(in.fallbacks, in.num)
  IN UNION {IF list[i].kind = "llm" THEN {[id |-> <<i>>, of |-> list[i].of]}
            ELSE {[id |-> <<i, j>>, of |-> list[i].of[j]] : j \in DOMAIN list[i].of} : i \in DOMAIN list}
-----------------------------------------------------------------------------
(* Configurations: definitions that refer to each other, defaults, redaction *)

WordText(w) == Cnf!Text(<<Cnf!Word(w)>>)
HoleText(w) == Cnf!Text(<<Cnf!Word("see"), Cnf!Hole(w)>>)
Str(k, t) == [key |-> k, text |-> t]
DefinitionInputs ==
  {[values |-> v, strings |-> s, tools |-> <<Cnf!Dictionary("class" :> t), u>>] :
     v \in {<<>>} \cup {("v1" :> x) @@ ("v2" :> y) :
                          x \in {WordText("v2"), Cnf!Dictionary("k" :> WordText("v2")), HoleText("s1")},
                          y \in {WordText("plain"), HoleText("s2"), Cnf!Text(<<>>)}},
     s \in {<<>>} \cup UNION {{<<Str("s1", x), Str("s2", y)>>, <<Str("s2", y), Str("s1", x)>>} :
                                x \in {WordText("a"), HoleText("s2")}, y \in {WordText("b"), HoleText("s1")}},
     t, u \in {WordText("v1"), WordText("v2"), HoleText("s1"), Cnf!Text(<<Cnf!Hole("s2"), Cnf!Hole("s1")>>)}}

\* The keys and the holes that stand in a value.
RECURSIVE Mentions(_)
Mentions(value) ==
  IF value.kind = "dict" THEN UNION {Mentions(value.of[k]) : k \in DOMAIN value.of} ELSE ToSet(value.parts)
StringsRefer(in) ==
  LET Of(k) == UNION {Mentions(in.strings[i].text) : i \in {j \in DOMAIN in.strings : in.strings[j].key = k}}
  IN Cnf!Hole("s2") \in Of("s1") /\ Cnf!Hole("s1") \in Of("s2")

Scalar(x) == [kind |-> "scalar", value |-> x]
Settings(f, required) == [kind |-> "dict", of |-> f, required |-> required]
LlmSettings == {Settings(<<>>, <<>>), Settings("model_name" :> "m1", <<"x">>),
                Settings(("model_name" :> "m2") @@ ("verbose" :> "yes"), <<"y", "x">>)}
DefaultInputs ==
  {[top |-> a @@ b @@ c, tools |-> <<t, u>>] :
     a \in Maybe("llm_config", LlmSettings), b \in Maybe("verbose", {Scalar("no")}),
     c \in Maybe("sly_data_schema", {Settings("k" :> "secret", <<"k">>)}),
     t \in [function : {"dict", "text"}, spec : Maybe("function.sly_data_schema", {Settings("own" :> "kept", <<"own">>)})],
     u \in [function : {"dict"}, spec : Maybe("llm_config", LlmSettings)]}
LlmOf(tool) == IF "llm_config" \in DOMAIN tool.spec THEN tool.spec["llm_config"].of ELSE <<>>

Rules == {<<>>} \cup {<<r>> : r \in {Cnf!Keep("a"), Cnf!Withhold("a"), Cnf!Rename("a", "b")}}
                \cup {<<Cnf!Rename("a", "b"), Cnf!Keep("b")>>, <<Cnf!Withhold("a"), Cnf!Keep("b")>>}
Blocks == {Cnf!AllowNothing, Cnf!AllowAll} \cup {Cnf!AllowKeys(r) : r \in Rules}
ExternalInputs ==
  [spec : {x @@ y @@ z : x \in Maybe("sly_data", Blocks), y \in Maybe("to_downstream", {Cnf!AllowNothing, Cnf!AllowKeys(<<Cnf!Keep("b")>>)}),
                         z \in Maybe("from_downstream", Blocks)},
   callee : {"/other"}, sly : {<<>>, ("a" :> "mine") @@ ("b" :> "secret")}, returned : {<<>>, ("a" :> "theirs") @@ ("b" :> "odd")},
   context : {"empty"}, origin : {<<"front">>}, messages : {{}}]
\* The keys of the data that a block lets through, and those it may set.
Listed(allow, data) == IF allow.form = "bool" THEN IF allow.value THEN DOMAIN data ELSE {}
                       ELSE {r.key : r \in {s \in ToSet(allow.rules) : s.pass}}
Targets(allow, data) == IF allow.form = "bool" THEN IF allow.value THEN DOMAIN data ELSE {}
                        ELSE {r.to : r \in {s \in ToSet(allow.rules) : s.pass}}
-----------------------------------------------------------------------------
(* What an agent's code is made of: classes, the toolbox, MCP servers, middleware *)

\* A network /dir/net with a module m in some of its directories and elsewhere.
ModulePaths == {<<"tools", "dir", "net", "m">>, <<"tools", "dir", "m">>, <<"tools", "m">>, <<"m">>,
                <<"tools", "other", "m">>}
ResolutionInputs ==
  [root : {<<"tools">>}, only : BOOLEAN, network : {<<"net">>, <<"dir", "net">>, <<"dir">>},
   modules : UNION {[S -> {{}, {"Tool"}}] : S \in SUBSET ModulePaths}]

ToolClasses == ("pack.Tool" :> [kind |-> "tool", fields |-> {"a", "b"}]) @@ ("pack.Kit" :> [kind |-> "toolkit", fields |-> {"a"}])
               @@ ("pack.Wrapper" :> [kind |-> "other", fields |-> {"a"}])
EntriesOf(classes, args) ==
  {Crt!Dict(c @@ x @@ d) : c \in Maybe("class", classes), x \in Maybe("args", args),
                           d \in Maybe("description", {Crt!Value("it does")})}
Wrapped == Crt!Dict(("class" :> Crt!Value("pack.Wrapper")) @@ ("args" :> Crt!Dict("a" :> Crt!Value("deep"))))
ArgsOf == {Crt!Dict(f) : f \in {<<>>, "a" :> Crt!Value("box"), "b" :> Wrapped, "b" :> Crt!Dict("x" :> Crt!Value("box")),
                                "c" :> Crt!Value("unknown"), "b" :> Crt!Dict("class" :> Crt!Value("pack.None"))}}
BoxEntries == EntriesOf({Crt!Value("pack.Tool"), Crt!Value("pack.Kit")}, ArgsOf)
UserEntries == {Crt!Value("text")} \cup EntriesOf({Crt!Null, Crt!Value("pack.Tool"), Crt!Value("pack.Gone")},
                                                 {Crt!Null, Crt!Dict("a" :> Crt!Value("user"))})
ToolboxInputs ==
  {[name |-> "shared", default |-> d, user |-> u, args |-> a] :
     d \in Maybe("shared", BoxEntries), u \in Maybe("shared", UserEntries),
     a \in {Crt!Dict(f) : f \in {<<>>, "a" :> Crt!Value("agent"), "b" :> Crt!Dict("y" :> Crt!Value("agent"))}}}
  \cup {[name |-> "requests_get", default |-> <<>>, user |-> u, args |-> Crt!Dict(<<>>)] : u \in Maybe("requests_get", UserEntries)}

McpInputs ==
  [list : {Crt!NoList} \cup [there : {TRUE}, tools : SUBSET {"one", "two", "three"}],
   info : [headers : {{}, {"file's"}}, tools : SUBSET {"one", "four"}], own : {{}, {"user's"}},
   server : [reachable : BOOLEAN, tools : SUBSET {"one", "two", "four"}]]

Mine == [of |-> "mine"]
MiddlewareEntries ==
  [class : {"null", "Guard", "Missing"}, args : {<<>>, ("origin" :> Mine) @@ ("reservationist" :> Mine) @@ ("size" :> Mine)},
   allow : BOOLEAN, checkpointer : {<<>>, <<"Saver">>, <<"Other">>}]
MiddlewareInputs == [entries : SeqOf(MiddlewareEntries, 2), reserving : BOOLEAN]
-----------------------------------------------------------------------------
ArgumentInputs ==
  [llm : {Crt!Dict(f) : f \in {<<>>, ("x" :> Crt!Value("said")) @@ ("y" :> Crt!Value("said")), "origin" :> Crt!Null}},
   configured : {Crt!Null} \cup {Crt!Dict(f) : f \in {<<>>, "x" :> Crt!Value("configured")}}, again : BOOLEAN, reserves : BOOLEAN]
-----------------------------------------------------------------------------
(* The schema of an MCP tool call: schemas that refer to each other *)

SchemaNames == {"ChatRequest", "x", "y", "z"}
LocalRef(n) == [local |-> TRUE, name |-> n]
ServiceSchemas ==
  {[refs |-> r, empty |-> FALSE, properties |-> {"user_message", "sly_data"}] :
     r \in {{}, {LocalRef("x")}, {LocalRef("y")}, {LocalRef("x"), LocalRef("z")},
            {LocalRef("ChatRequest"), [local |-> FALSE, name |-> "z"]}}}
  \cup {[refs |-> {}, empty |-> TRUE, properties |-> {}]}
CallSchemaInputs == UNION {[S -> ServiceSchemas] : S \in SUBSET SchemaNames}

\* The names that contain the root and whatever a schema among them refers to.
ClosedNames(schemas) ==
  {S \in SUBSET SchemaNames :
     "ChatRequest" \in S /\ \A n \in S \cap DOMAIN schemas : \A r \in schemas[n].refs : r.local => r.name \in S}
-----------------------------------------------------------------------------
Init ==
  /\ algorithm \in Algorithms /\ result = Pending
  /\ \/ algorithm = "network" /\ input \in Networks
     \/ algorithm = "hidden" /\ input \in HiddenNetworks
     \/ algorithm = "server" /\ input \in ServerNetworks
     \/ algorithm = "manifest" /\ input \in ManifestInputs
     \/ algorithm = "parameters" /\ input \in ParameterInputs
     \/ algorithm = "llm" /\ input \in LlmInputs
     \/ algorithm = "factories" /\ input \in FactoryInputs
     \/ algorithm = "fallbacks" /\ input \in FallbackInputs
     \/ algorithm = "commondefs" /\ input \in DefinitionInputs
     \/ algorithm = "defaults" /\ input \in DefaultInputs
     \/ algorithm = "external" /\ input \in ExternalInputs
     \/ algorithm = "resolution" /\ input \in ResolutionInputs
     \/ algorithm = "toolbox" /\ input \in ToolboxInputs
     \/ algorithm = "mcp" /\ input \in McpInputs
     \/ algorithm = "middleware" /\ input \in MiddlewareInputs
     \/ algorithm = "arguments" /\ input \in ArgumentInputs
     \/ algorithm = "callSchema" /\ input \in CallSchemaInputs

Compute ==
  /\ result = Pending
  /\ \/ algorithm = "network" /\ result' = CheckNetwork(input)
     \/ algorithm = "hidden" /\ result' = Net!ReportConnectivity(input)
     \/ algorithm = "server" /\ result' = [called |-> Net!CallOf(input, input[1], B)]
     \/ algorithm = "manifest" /\ result' = RestoreAll(input)
     \/ algorithm = "parameters" /\ result' = CheckParameters(input)
     \/ /\ algorithm = "llm"
        /\ result' = Llm!FullConfig(Llm!Load(Infos, input.user), input.config, input.given)
     \/ algorithm = "factories" /\ result' = Llm!CreateLlmResources(input.factories, input.userClass, input.known)
     \/ algorithm = "fallbacks"
          /\ \E r \in Llm!CreateLlmWithFallbacks(input.fallbacks, input.num) : result' = r
     \/ algorithm = "commondefs" /\ result' = Cnf!CommonDefinitions(input)
     \/ algorithm = "defaults" /\ result' = Cnf!Defaults(input)
     \/ algorithm = "external" /\ result' = Cnf!CallExternal(input)
     \/ /\ algorithm = "resolution"
        /\ result' = [found |-> Crt!Resolve(input.root, input.only, input.network, <<"m">>, "Tool", input.modules)]
     \/ /\ algorithm = "toolbox"
        /\ result' = Crt!CreateToolboxTool(Crt!Load(input.default, input.user), input.name, input.args, "agent", ToolClasses)
     \/ algorithm = "mcp" /\ result' = Crt!CreateMcpTool(input.list, input.info, input.own, input.server)
     \/ /\ algorithm = "middleware"
        /\ result' = Crt!CreateAgentMiddleware(input.entries, {"Guard", "Saver", "Other"}, input.reserving)
     \/ algorithm = "callSchema" /\ result' = Par!ExtractSubSchema(input, "ChatRequest", "user_message")
     \/ algorithm = "arguments" /\ result' = Crt!CallTwice(input.llm, input.configured, input.again, input.reserves)
  /\ UNCHANGED <<algorithm, input>>

Spec == Init /\ [][Compute]_algoVars

Has(a) == algorithm = a /\ result # Pending
-----------------------------------------------------------------------------
(* Properties *)

\* The search for cyclical agents finds a cycle if there is one, and no agent it
\* finds is on none (cycles_network_validator.py, find_cyclical_agents).
CyclesAreFound ==
  Has("network") =>
    /\ result.cyclical \subseteq OnCycle(input)
    /\ result.cyclical = {} => OnCycle(input) = {}

\* In a network the manifest's validators accept, one agent reaches all others, and
\* what an agent calls is an agent, a URL or a path.  The validators' front man is the
\* caller whom nobody calls; the server's is the first agent
\* (agent_network.py, find_front_man).  Where the two differ, an accepted network cannot
\* be started, because its first agent is a coded or a toolbox tool, or starts at an
\* agent that another one calls; all others start where everything is reached
\* (manifest_network_validator.py, unreachable_nodes_network_validator.py).
AcceptedAreWhole ==
  Has("network") /\ result.accepted =>
    LET Reached(m) == Net!NamesOf(input) \subseteq Closure(input, {m}, AllCalls)
        first == input[1].name
        calledByOthers == \E i \in DOMAIN input : i # 1 /\ first \in ToSet(AllCalls(input[i]))
    IN /\ \E m \in Net!NamesOf(input) : Reached(m)
       /\ Net!FindFrontMan(input) = {} \/ calledByOthers \/ Reached(first)
       /\ \A s \in ToSet(input) : \A r \in ToSet(Calls(s)) :
            r.kind = "str" => r \in Net!NamesOf(input) \/ Net!IsUrlOrPath(r)

\* In a network the designer's validators accept, no agent calls itself by any way
\* (structure_network_validator.py).
DesignedAreTrees ==
  Has("network") /\ result.designed => OnCycle(input) = {}

\* What an agent's LLM is offered in an accepted network is what the LLM's call
\* activates, if no MCP server is given by a dictionary (base_tool_factory.py,
\* calling_activation.py, activation_factory.py).
OfferedCanBeCalled ==
  Has("network") /\ result.accepted =>
    \A s \in ToSet(input) : \A r \in ToSet(Calls(s)) :
      LET tool == Net!ToolFor(input, r)  called == Net!CallOf(input, s, Net!SafeName(r))
      IN Net!DictRef \notin ToSet(Calls(s)) =>
           /\ tool = "function" => called \in {"class", "branch"}
           /\ tool \in {"toolbox", "external"} => called = tool

\* The connectivity report of a network that has a front man for the server has each
\* node it reaches once, after one that lists it
\* (connectivity_reporter.py, report_network_connectivity).
ReportedOnce ==
  Has("network") /\ Net!FindFrontMan(input) # {} =>
    LET list == result.report.list
        told == {list[i].origin : i \in DOMAIN list}
        all == {r \in Closure(input, {input[1].name}, AllCalls) : r \in Net!NamesOf(input) \/ Net!IsExternalAgent(r)}
    IN /\ ~result.report.raised /\ told = all /\ Cardinality(told) = Len(list)
       /\ \A i \in DOMAIN list : i > 1 => \E j \in 1..(i - 1) : list[i].origin \in ToSet(list[j].tools)

\* The report tells no tools of a node that hides its connectivity
\* (connectivity_reporter.py, report_node_connectivity).
HiddenToolsAreNotTold ==
  Has("hidden") =>
    \A i \in DOMAIN result.list :
      LET told == result.list[i] IN Net!SpecOf(input, told.origin).connectivity \/ told.tools = <<>>

\* An agent can call the agents among its tools, whatever else is among them
\* (docs/agent_hocon_reference.md, tools; calling_activation.py, get_callable_tool_dict).
AgentsAreCallable == Has("server") /\ B \in ToSet(Calls(input[1])) => result.called = "branch"

\* The correction of names has nothing to correct in an accepted network: what its
\* agents call stays what they call (name_correction_config_filter.py).
AcceptedNeedNoCorrection ==
  Has("network") /\ result.accepted => result.corrected = input

\* A storage serves of a name what the last entry says that puts something there: a
\* file that does not load says nothing, and an entry that shall not be served hides the
\* earlier ones of the storage its own "public" and "mcp" name, and of no other
\* (registry_manifest_restorer.py, maybe_store_agent_network).  So the last entry of
\* all decides only where all entries of the name go to one storage: a network that is
\* protected in one manifest and false in a later one, which counts as public, stays
\* served as protected.
LastManifestWins ==
  Has("manifest") =>
    LET es == FilteredEntries(input)
        Speaks(n) == {i \in DOMAIN es : input.nameOf[es[i].key] = n /\ (es[i].dict["serve"] => Loads(input, es[i]))}
        Serves(s, n, e) ==
          IF e.dict["serve"] THEN n \in DOMAIN result.storage[s] /\ result.storage[s][n].version = input.files[e.key].version
          ELSE n \notin DOMAIN result.storage[s]
    IN \A n \in {"net", "other"}, s \in Man!ALL_PERMANENT :
         LET said == {i \in Speaks(n) : StorageOf(es[i].dict) = s}
         IN IF said = {} THEN n \notin DOMAIN result.storage[s] ELSE Serves(s, n, es[Max(said)])

\* Only public networks are offered as MCP tools (mcp_manifest_dict_config_filter.py).
McpArePublic ==
  Has("manifest") =>
    \A n \in DOMAIN result.storage["protected"] : ~result.storage["protected"][n].mcp

\* No interaction without a valid schedule is enabled
\* (periodic_manifest_dict_config_filter.py).
SchedulesAreValid ==
  Has("manifest") =>
    \A n \in DOMAIN result.periodic : \A i \in DOMAIN result.periodic[n] :
      result.periodic[n][i].enable => result.periodic[n][i].cron \in {"default", "weekly"}

\* What parameters that pass both phases list as required next to properties, at
\* whatever depth, is what a call of their tool must hold (semantic_parameters_network_validator.py,
\* base_model_dictionary_converter.py).
RequiredIsEnforced ==
  Has("parameters") /\ result.accepted /\ result.internal.made /\ input.parameters.shape = "dict" =>
    RequiredIn(input.parameters.schema) = RequiredBy([kind |-> "model", of |-> result.internal.model])

\* Parameters that pass both phases make a tool, if they have a type, properties
\* and a description besides (pydantic_parameters_network_validator.py).
ValidatedAreMade ==
  Has("parameters") /\ result.accepted /\ input.description /\ input.parameters.shape = "dict" =>
    LET s == input.parameters.schema
    IN s.type # "missing" /\ Par!Fields(s) # Par!NoFields => result.internal.made

\* The tool of an external agent can always be handed a request: it is not without
\* arguments (base_tool_factory.py, ensure_external_parameters).
ExternalToolsTakeARequest ==
  Has("parameters") => (result.external.made => DOMAIN result.external.model # {})

\* The callee is told of every required argument of an accepted call
\* (argument_assigner.py).
RequiredAreTold ==
  Has("parameters") /\ result.internal.made =>
    LET model == result.internal.model
        fields == IF input.parameters.shape = "dict" THEN Par!Fields(input.parameters.schema) ELSE Par!NoFields
    IN \A args \in [DOMAIN model -> {"value", "null"}] :
         Par!AcceptsCall(model, args) =>
           {f \in DOMAIN model : model[f].required} \subseteq Par!Assign(fields, args)

\* An LLM is made with the key that the strongest asks for who says anything of it: the
\* agent's network, then the defaults of the tables, if the network names no class, then
\* the classes, of which the one that is extended is stronger than the one that extends
\* it.  So a class cannot ask for the user's key if the class it extends has that key,
\* even as null: then the server pays (default_llm_factory.py, get_chat_class_args).  If the
\* user is asked for and gives no key, there is no LLM (replace_any_required_api_keys).
UserPaysOrNobody ==
  Has("llm") /\ result.kind = "config" =>
    LET Key == "openai_api_key"
        classes == Llm!Overlay(Infos.classes, input.user.classes)
        class == Llm!Get(result.config, "class", "null")
        own == IF class \in DOMAIN classes THEN <<classes[class]>> ELSE <<>>
        extended == IF own # <<>> /\ own[1].extends # "null" THEN <<classes[own[1].extends]>> ELSE <<>>
        defaults == IF "class" \in DOMAIN input.config THEN <<>> ELSE <<input.user.default>>
        said == SelectSeq(<<input.config>> \o defaults \o [i \in DOMAIN (extended \o own) |-> (extended \o own)[i].args],
                          LAMBDA d : Key \in DOMAIN d)
        asked == IF said = <<>> THEN "null" ELSE said[1][Key]
        used == Llm!ResourcesComponents("openai", result.config, {Key}).key
    IN used = CASE asked = "sly_data" -> "user's" [] asked = "null" -> "the server's" [] OTHER -> asked

\* What the agent's network says of its LLM is what the LLM is made with
\* (default_llm_factory.py, create_full_llm_config).
AgentSettingsWin ==
  Has("llm") /\ result.kind = "config" =>
    \A k \in DOMAIN input.config \ {"class", "model_name"} :
      input.config[k] # "sly_data" => result.config[k] = input.config[k]

\* If no factory makes the LLM of a class that the tables have, the error is one of
\* the factories', never one about a class of the user
\* (default_llm_factory.py, create_llm_resources).
OriginalErrorIsShown ==
  Has("factories") /\ input.known /\ ToSet(input.factories) \cap Usable = {} =>
    /\ result.kind # "made"
    /\ result.kind = "raised" => result.exception # "userUnknown"

\* Every usable LLM of the list is used once and released once, in the order of the
\* list, peers of a group in any order (default_llm_factory.py,
\* create_llm_with_fallbacks, langchain_llm_resources.py, close_of_work) - if no entry
\* fails otherwise than by a ValueError.  Such an entry is not passed over: its error
\* leaves the list, whatever LLMs it has besides, and no LLM is made of it.
UsableAreReleased ==
  Has("fallbacks") =>
    LET usable == {c.id : c \in {d \in Candidates(input) : d.of \in Usable}}
        ends == \E c \in Candidates(input) : c.of \in {"providerError", "other"}
        order == Llm!ReleaseOrder(result.llm)
    IN /\ result.kind = "escaped" <=> ends
       /\ ~ends => (result.kind = "llm" <=> usable # {})
       /\ result.kind = "llm" =>
            /\ ToSet(order) = usable /\ IsInjective(order)
            /\ \A i, j \in DOMAIN order : i < j => order[i][1] <= order[j][1]
            /\ Llm!CloseOfWork(result.llm, {}) = usable

\* If there is no usable LLM and no error left the list, everything that was missing or
\* failed is told (default_llm_factory.py, create_llm_with_fallbacks).
FailuresAreTold ==
  Has("fallbacks") /\ result.kind = "errors" =>
    \A c \in Candidates(input) :
      LET told == Llm!Complaint(result.errors)
      IN /\ c.of = "missing" => "missing" \in told
         /\ c.of = "keyText" => "keys" \in told
         /\ c.of \in {"unknown", "noModel"} => c.id \in result.errors.construction

\* No key of a definition and no hole for one is left in the agents, if the strings
\* do not refer to each other in a circle; so the second pass over a network that the
\* restorer and the registry both make changes nothing
\* (abstract_common_defs_config_filter.py, filter_config).
DefinitionsAreReplaced ==
  Has("commondefs") /\ ~StringsRefer(input) =>
    LET left == UNION {Mentions(result.tools[i]) : i \in DOMAIN result.tools}
    IN /\ left \cap {Cnf!Word(k) : k \in DOMAIN input.values} = {}
       /\ left \cap {Cnf!Hole(input.strings[i].key) : i \in DOMAIN input.strings} = {}
       /\ Cnf!CommonDefinitions(result) = result

\* What an agent says itself stays, the defaults applied again change nothing, and
\* the LLM the agent asks for is the one its filtered specification has
\* (defaults_config_filter.py, calling_activation.py, prepare_run_context_config).
DefaultsAreStable ==
  Has("defaults") =>
    /\ Cnf!Defaults(result) = result
    /\ \A i \in DOMAIN result.tools :
         LET own == LlmOf(input.tools[i])
         IN /\ \A k \in DOMAIN own : LlmOf(result.tools[i])[k] = own[k]
            /\ Cnf!RunContextConfig(result, result.tools[i]) = LlmOf(result.tools[i])

\* The schema of the private data is told of the front man alone
\* (defaults_config_filter.py, filter_config).
SchemaIsTheFrontMans ==
  Has("defaults") =>
    \A i \in DOMAIN result.tools :
      i > 1 => Cnf!Get(result.tools[i].spec, "function.sly_data_schema", Scalar("none"))
                 = Cnf!Get(input.tools[i].spec, "function.sly_data_schema", Scalar("none"))

\* An external network is sent a private value only if the calling agent lists its
\* key, and what it sends back changes a value of the caller only at a key the agent
\* lists (sly_data_redactor.py, external_activation.py, langchain_run_context.py).
PrivateDataIsListed ==
  Has("external") =>
    LET sent == result.request.sly_data
        to == Cnf!AllowOf(input.spec, <<"sly_data", "to_downstream">>)
        from == Cnf!AllowOf(input.spec, <<"from_downstream">>)
    IN /\ \A k \in DOMAIN sent : \E l \in Listed(to, input.sly) : l \in DOMAIN input.sly /\ sent[k] = input.sly[l]
       /\ \A k \in DOMAIN input.sly \ Targets(from, input.returned) : result.sly[k] = input.sly[k]

\* A coded tool is the one nearest to its network, though a nearer module may lack the
\* class, and never another network's; what can be imported as it is goes first, unless
\* only AGENT_TOOL_PATH counts (abstract_class_activation.py, _attempt_resolve).
NearestClassIsUsed ==
  algorithm = "resolution" /\ result # Pending =>
    LET own == input.root \o input.network
        HasClass(p) == p \in DOMAIN input.modules /\ input.modules[p] # {}
        IsOn(p) == Len(p) > Len(input.root) /\ HasClass(p) /\ IsPrefix(Front(p), own)
    IN IF ~input.only /\ HasClass(<<"m">>) THEN result.found = <<"m">>
       ELSE IF \E p \in ModulePaths : IsOn(p)
       THEN IsOn(result.found) /\ \A p \in ModulePaths : IsOn(p) => Len(p) <= Len(result.found)
       ELSE result.found = Crt!NotFound

\* An argument of a tool is the agent's, or else the user's toolbox's, or else the
\* default's, and what a toolbox gives as a class is an instance of it
\* (toolbox_factory.py, create_tool_from_toolbox).
AgentArgsWin ==
  algorithm = "toolbox" /\ result # Pending =>
    \A i \in DOMAIN result.tools :
      LET args == result.tools[i].args
          Given(dict, k) == dict.kind = "dict" /\ k \in DOMAIN dict.of
          Of(box, k) == IF input.name \in DOMAIN box /\ Given(box[input.name], "args")
                        THEN Crt!Get(Crt!Get(box[input.name], "args"), k) ELSE Crt!Null
      IN \A k \in DOMAIN args :
           /\ args[k].kind = "text" =>
                args[k] = IF Given(input.args, k) THEN input.args.of[k]
                          ELSE IF Of(input.user, k) # Crt!Null THEN Of(input.user, k) ELSE Of(input.default, k)
           /\ args[k].kind = "dict" /\ Given(input.args, k) => \A l \in DOMAIN input.args.of[k].of : args[k].of[l] = input.args.of[k].of[l]
           /\ args[k].kind = "dict" => "class" \notin DOMAIN args[k].of

\* A tool that left the default toolbox is explained, also when the user's toolbox
\* still has a part of its entry, and so that it can be used once it has a class there
\* (toolbox_factory.py, _require_tool_info).
RemovedAreExplained ==
  algorithm = "toolbox" /\ result # Pending /\ input.name = "requests_get" =>
    LET why == Crt!RequireToolInfo(Crt!Load(input.default, input.user), input.name)
        entry == IF input.user = <<>> THEN Crt!Dict(<<>>) ELSE input.user[input.name]
    IN /\ result.told \/ result.tools # <<>> \/ result.crashed
       /\ entry.kind = "dict" /\ "class" \notin DOMAIN entry.of <=> why = "removed"
       /\ result.tools # <<>> => why = "ok"

\* What an agent may not have of a toolbox is told, unless its arguments are no
\* dictionary, and every tool it gets bears its name (base_tool_factory.py,
\* create_toolbox_tool).
UsableOrTold ==
  algorithm = "toolbox" /\ result # Pending =>
    /\ result.tools = <<>> => result.told \/ (result.crashed /\ input.user # <<>>)
    /\ \A i, j \in DOMAIN result.tools :
         /\ result.tools[i].name[1] = "agent" /\ (result.tools[i].name = result.tools[j].name => i = j)
         /\ result.tools[i].args # <<>> => DOMAIN result.tools[i].args \subseteq ToolClasses[result.tools[i].class].fields

\* An agent gets the tools of a server that its network lists, or else the file of
\* servers; those that are listed and that it does not get are told; and the user's
\* own headers are used (langchain_mcp_adapter.py, base_tool_factory.py).
ListedToolsAreOffered ==
  algorithm = "mcp" /\ result # Pending =>
    LET list == IF input.list.there THEN input.list.tools ELSE input.info.tools
    IN /\ list # {} => result.tools \subseteq list
       /\ input.server.reachable => \A t \in input.server.tools : list = {} \/ t \in list => t \in result.tools
       /\ \A t \in list \ result.tools : result.told /\ (input.server.reachable => t \in result.missing)
       /\ input.own # {} => result.headers = input.own

\* Middleware stands in the order of its configuration, each with an origin of its own
\* and with what the framework gives it, and never more than it asks for
\* (middleware_factory.py, create_agent_middleware, _prepare_args).
MiddlewareIsPlaced ==
  algorithm = "middleware" /\ result # Pending /\ ~result.failed =>
    LET made == SelectSeq(input.entries, LAMBDA e : e.class # "null")
    IN /\ Len(result.middleware) = Len(made)
       /\ \A i \in DOMAIN made :
            LET args == result.middleware[i].args
            IN /\ DOMAIN args = DOMAIN made[i].args
               /\ "size" \in DOMAIN args => args["size"] = made[i].args["size"]
               /\ "origin" \in DOMAIN args =>
                    /\ \A j \in DOMAIN made : "origin" \in DOMAIN made[j].args /\ args["origin"] = result.middleware[j].args["origin"] => i = j
                    /\ args["reservationist"] # made[i].args["reservationist"]
                    /\ args["reservationist"].of = "null" <=> ~(made[i].allow /\ input.reserving)
       /\ LET savers == FlattenSeq([i \in DOMAIN input.entries |-> input.entries[i].checkpointer])
          IN savers # <<>> => result.checkpointer = savers[1]

\* A coded tool gets what its configuration fixes, else what the LLM says, and its own
\* origin, journal and reservationist, unless its caller uses one dictionary for two
\* calls (activation_prepper.py, merge_args; abstract_class_activation.py, __init__).
ArgumentsAreOwn ==
  algorithm = "arguments" /\ result # Pending =>
    \A i \in {1, 2} :
      LET args == result[i].of  own == IF i = 1 THEN "first" ELSE "second"
      IN /\ input.configured # Crt!Null /\ "x" \in DOMAIN input.configured.of => args["x"] = Crt!Value("configured")
         /\ "y" \in DOMAIN input.llm.of => args["y"] = Crt!Value("said")
         /\ "reservationist" \in DOMAIN args => input.reserves
         /\ i = 1 \/ ~input.again \/ input.configured # Crt!Null =>
              \A k \in DOMAIN args \cap {"origin", "progress_reporter", "reservationist"} : args[k] = Crt!Value(own)

\* A call of an MCP tool is checked with exactly the schemas its own schema needs, at
\* any depth, and not at all only if one of those is missing; it must hold a message
\* and nothing the schema does not list (tool_request_validator.py, _extract_sub_schema).
CallSchemaIsWhole ==
  Has("callSchema") =>
    LET needed == {n \in SchemaNames : \A S \in ClosedNames(input) : n \in S}
    IN /\ result.raised <=> \E n \in needed : n \notin DOMAIN input \/ input[n].empty
       /\ ~result.raised => result.kept = needed /\ result.accepts = {{"user_message"}, {"user_message", "sly_data"}}

\* Networks that pass the validators hang together, and what is reported of a network
\* is what it is.  Passing does not make the first agent, with which the server starts,
\* a front man, nor the one from which everything is reached: see AcceptedAreWhole.
NetworksAreWhole ==
  /\ CyclesAreFound /\ AcceptedAreWhole /\ DesignedAreTrees /\ OfferedCanBeCalled
  /\ ReportedOnce /\ HiddenToolsAreNotTold /\ AcceptedNeedNoCorrection

\* Each storage serves what the manifests say of it last, which is not always what they
\* say last of a network (see LastManifestWins); only public networks are MCP tools, and
\* only what has a valid schedule is fired periodically.
ManifestsAreServed == LastManifestWins /\ McpArePublic /\ SchedulesAreValid

\* The parameters of a tool mean for its LLM, its caller and its callee what the
\* network's author wrote.
ArgumentsAreEnforced ==
  /\ RequiredIsEnforced /\ ValidatedAreMade /\ ExternalToolsTakeARequest /\ RequiredAreTold
  /\ CallSchemaIsWhole

\* An agent's LLM is made with what its network says and with the key of whom the
\* strongest of network, defaults and classes asks to pay; of a list no entry of which
\* fails otherwise than by a ValueError, all usable LLMs are used and released, and if
\* there is none, what failed is told.
ModelsAreChosen ==
  /\ UserPaysOrNobody /\ AgentSettingsWin /\ OriginalErrorIsShown
  /\ UsableAreReleased /\ FailuresAreTold

\* A configuration that was filtered once stays as it is when it is filtered again,
\* says of each agent what the agent says, and of private data only what is listed.
ConfigurationIsStable ==
  DefinitionsAreReplaced /\ DefaultsAreStable /\ SchemaIsTheFrontMans /\ PrivateDataIsListed

\* An agent gets the classes, tools, middleware and arguments that are nearest to it
\* or its own, and is told what it does not get.
ToolsAreMade ==
  /\ NearestClassIsUsed /\ AgentArgsWin /\ RemovedAreExplained /\ UsableOrTold
  /\ ListedToolsAreOffered /\ MiddlewareIsPlaced /\ ArgumentsAreOwn
=============================================================================
