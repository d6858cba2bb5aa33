------------------------- MODULE NetworkValidation -------------------------
(***************************************************************************)
(* Agent networks as their validators see them and as the server then uses  *)
(* them: the shape and graph checks of ManifestNetworkValidator and         *)
(* StructureNetworkValidator, the correction of names, the front man, the    *)
(* tools and activations made from a network, and its connectivity report.  *)
(*                                                                         *)
(* A network is the sequence of its agent specs.  A spec is                 *)
(*   [name, tools, argsTools, function, class, toolbox, instructions,       *)
(*    connectivity]                                                        *)
(* with tools and argsTools [shape, refs].  A reference, like a name, is     *)
(*   [kind, scheme, host, rooted, path]:                                   *)
(* a string with its parts as urlparse() finds them, or a value of another   *)
(* type.  A path is a sequence of segments, a segment the sequence of the     *)
(* words that "_" joins in it.                                             *)
(***************************************************************************)
EXTENDS Integers, Sequences, FiniteSets, SequencesExt

Ref(scheme, host, rooted, path) ==
  [kind |-> "str", scheme |-> scheme, host |-> host, rooted |-> rooted, path |-> path]
Name(word) == Ref("", <<>>, FALSE, <<<<word>>>>)
DictRef == [kind |-> "dict", scheme |-> "", host |-> <<>>, rooted |-> FALSE, path |-> <<>>]
OtherRef == [DictRef EXCEPT !.kind = "number"]
-----------------------------------------------------------------------------
(* References *)

IsUrlOrPath(ref) == (ref.rooted /\ ref.host = <<>>) \/ ref.scheme \in {"http", "https"}

\* remove_dictionary_tools()
Strings(refs) == SelectSeq(refs, LAMBDA r : r.kind = "str")

\* coerce_tools(), coerce_args_tools(): a malformed list is an empty one.
CoerceTools(spec) == IF spec.tools.shape = "list" THEN spec.tools.refs ELSE <<>>
CoerceArgsTools(spec) ==
  IF spec.argsTools.shape \in {"list", "dict"} THEN spec.argsTools.refs ELSE <<>>

\* parse_external_agent() finds a location: there is more than "/" in the path.
IsExternalAgent(ref) == ref.kind = "str" /\ ref.rooted /\ ref.path # <<>>

\* is_mcp_tool()
IsMcpTool(ref) ==
  \/ ref.kind = "dict"
  \/ /\ ref.kind = "str" /\ ref.scheme \in {"http", "https"} /\ ref.host # <<>>
     /\ <<"mcp">> \in ToSet(ref.path) \cup {<<w>> : w \in ToSet(ref.host)}
-----------------------------------------------------------------------------
(* The network *)

NamesOf(net) == {net[i].name : i \in DOMAIN net}

\* register(): a second agent of a name is refused, when the network is made.
HasDuplicates(net) == \E i, j \in DOMAIN net : i # j /\ net[i].name = net[j].name

SpecOf(net, name) == net[CHOOSE i \in DOMAIN net : net[i].name = name]

\* find_front_man(): the first agent, unless it is a coded or a toolbox tool.
FindFrontMan(net) ==
  IF net = <<>> \/ net[1].class \/ net[1].toolbox THEN {} ELSE {net[1].name}

\* get_agent_down_chains()
DownChains(spec) ==
  SelectSeq(Strings(CoerceTools(spec) \o CoerceArgsTools(spec)), LAMBDA r : ~IsUrlOrPath(r))
-----------------------------------------------------------------------------
(* The validators *)

\* ToolsShapeValidator: the names of the agents with an error.
ShapeErrors(net) ==
  LET BadTools(s) == s.tools.shape = "text" \/ \E r \in ToSet(CoerceTools(s)) : r.kind = "number"
      BadArgs(s) == s.argsTools.shape = "text" \/ \E r \in ToSet(CoerceArgsTools(s)) : r.kind # "str"
  IN {s.name : s \in {t \in ToSet(net) : BadTools(t) \/ BadArgs(t)}}

\* KeywordNetworkValidator
KeywordErrors(net) ==
  {s.name : s \in {t \in ToSet(net) : t.function \in {"text", "blank"} \/ t.instructions = "blank"}}

\* Mutant: only what the first agent calls is looked up.
MissingOfFirst(net) ==
  {<<net[1].name, r>> : r \in {t \in ToSet(Strings(CoerceTools(net[1]))) :
                                ~IsUrlOrPath(t) /\ t \notin NamesOf(net)}}

\* MissingNodesNetworkValidator: of each agent's `tools`, what is no agent, URL or path.
MissingNodes(net) ==
  UNION {{<<s.name, r>> : r \in {t \in ToSet(Strings(CoerceTools(s))) :
                                  ~IsUrlOrPath(t) /\ t \notin NamesOf(net)}} : s \in ToSet(net)}

\* find_all_front_man_agents(): those that call, and that nobody calls.
FindAllFrontMen(net) ==
  LET calling == {s.name : s \in {t \in ToSet(net) : DownChains(t) # <<>>}}
      called == UNION {ToSet(DownChains(s)) : s \in ToSet(net)}
  IN IF calling \ called = {} /\ Len(net) = 1 THEN {net[1].name} ELSE calling \ called

\* dfs_cycle_detection(): the agents on the path below agent, those it has done,
\* and those found on cycles.
RECURSIVE Visit(_, _, _)
Visit(net, agent, dfs) ==
  CASE agent \in ToSet(dfs.path) ->
         LET start == CHOOSE i \in DOMAIN dfs.path : dfs.path[i] = agent
         IN [dfs EXCEPT !.cyclical = @ \cup ToSet(SubSeq(dfs.path, start, Len(dfs.path)))]
    [] agent \in dfs.done -> dfs
    [] OTHER ->
         LET kids == SelectSeq(Strings(CoerceTools(SpecOf(net, agent))), LAMBDA r : r \in NamesOf(net))
             below == FoldLeft(LAMBDA d, child : Visit(net, child, d),
                               [dfs EXCEPT !.path = Append(@, agent)], kids)
         IN [below EXCEPT !.path = dfs.path, !.done = @ \cup {agent}]

\* Mutant: only what the first agent reaches is searched.
PathsFromFirst(net) == Visit(net, net[1].name, [path |-> <<>>, done |-> {}, cyclical |-> {}]).cyclical

\* find_cyclical_agents()
FindCyclicalAgents(net) ==
  FoldLeft(LAMBDA dfs, s : Visit(net, s.name, dfs),
           [path |-> <<>>, done |-> {}, cyclical |-> {}], net).cyclical

\* dfs_reachability_traversal(): what it has visited after agent.
RECURSIVE Reach(_, _, _)
Reach(net, agent, visited) ==
  IF agent \in visited \/ agent \notin NamesOf(net) THEN visited
  ELSE FoldLeft(LAMBDA v, child : Reach(net, child, v),
                visited \cup {agent}, DownChains(SpecOf(net, agent)))

\* Mutant: that there is one front man is enough.
FrontMenOnly(net) == IF Cardinality(FindAllFrontMen(net)) # 1 THEN {"frontMen"} ELSE {}

\* UnreachableNodesNetworkValidator: the front men and, if there is one, whom it misses.
ReachErrors(net) ==
  LET men == FindAllFrontMen(net)
  IN IF Cardinality(men) # 1 THEN {"frontMen"}
     ELSE IF NamesOf(net) \subseteq Reach(net, CHOOSE m \in men : TRUE, {}) THEN {} ELSE {"unreachable"}

\* ToolNameNetworkValidator: a name has no characters but letters, digits, "_" and "-".
NameErrors(net) ==
  {s.name : s \in {t \in ToSet(net) : Len(t.name.path) # 1 \/ t.name.rooted \/ t.name.scheme # ""}}

\* check_safe_urls(): a path that is neither known nor an MCP end point.
UrlErrors(net, known) ==
  {s.name : s \in {t \in ToSet(net) :
     \E r \in ToSet(Strings(CoerceTools(t))) :
       /\ IsUrlOrPath(r) /\ r \notin known
       /\ r.scheme = "" /\ Last(Last(r.path)) # "mcp"}}

\* ManifestNetworkValidator, but for the parameters, which ToolParameters has.
Accepted(net, known) ==
  /\ net # <<>> /\ ShapeErrors(net) = {} /\ KeywordErrors(net) = {} /\ MissingNodes(net) = {}
  /\ ReachErrors(net) = {} /\ NameErrors(net) = {} /\ UrlErrors(net, known) = {}

\* Mutant: the designer's networks may have cycles, as all others.
StructureWithCycles(net) ==
  net # <<>> /\ ShapeErrors(net) = {} /\ MissingNodes(net) = {} /\ ReachErrors(net) = {}

\* StructureNetworkValidator, of the agent network designer.
AcceptedStructure(net) ==
  /\ net # <<>> /\ ShapeErrors(net) = {} /\ FindCyclicalAgents(net) = {}
  /\ MissingNodes(net) = {} /\ ReachErrors(net) = {}
-----------------------------------------------------------------------------
(* The correction of names *)

\* replace("/", "_")
Corrected(name) ==
  [name EXCEPT !.rooted = FALSE,
               !.path = <<(IF name.rooted THEN <<"">> ELSE <<>>) \o FlattenSeq(name.path)>>]

\* Mutant: everything that is called is corrected, also other networks' paths.
CorrectAll(net) ==
  [i \in DOMAIN net |->
     IF net[i].tools.shape # "list" THEN net[i]
     ELSE [net[i] EXCEPT !.tools.refs = [k \in DOMAIN @ |-> Corrected(@[k])]]]

\* NameCorrectionConfigFilter: the references to a name with "/" are corrected; the
\* agent gets a new entry under the old name, and keeps that name.
CorrectNames(net) ==
  LET C(r) == IF r \in NamesOf(net) THEN Corrected(r) ELSE r
  IN [i \in DOMAIN net |->
        IF net[i].tools.shape # "list" THEN net[i]
        ELSE [net[i] EXCEPT !.tools.refs = [k \in DOMAIN @ |-> C(@[k])]]]
-----------------------------------------------------------------------------
(* Tools and activations *)

\* create_base_tool(): what an agent's LLM is offered for a reference.
ToolFor(net, ref) ==
  CASE ref \in NamesOf(net) /\ SpecOf(net, ref).toolbox -> "toolbox"
    [] ref \in NamesOf(net) /\ SpecOf(net, ref).function = "none" -> "nothing"
    [] ref \in NamesOf(net) -> "function"
    [] IsMcpTool(ref) -> "mcp"
    [] IsExternalAgent(ref) -> "external"
    [] OTHER -> "nothing"

\* Mutant: the preppers are tried the other way round.
PrepperLastFirst(net, ref) ==
  IF ref \notin NamesOf(net) THEN "external"
  ELSE LET s == SpecOf(net, ref)
       IN IF s.function = "none" THEN "frontMan" ELSE IF s.class THEN "class" ELSE "branch"

\* create_agent_activation(): the first applicable one of BASE_PREPPERS; an external
\* one that is no external agent is refused.
PrepperFor(net, ref) ==
  IF ref \notin NamesOf(net) THEN IF IsExternalAgent(ref) THEN "external" ELSE "refused"
  ELSE LET s == SpecOf(net, ref)
       IN CASE s.toolbox -> "toolbox"
            [] s.function # "none" /\ s.class -> "class"
            [] s.function # "none" /\ ~s.class -> "branch"
            [] OTHER -> "frontMan"

\* get_safe_agent_name(), the name a tool has in the framework.
SafeName(ref) ==
  IF ~IsExternalAgent(ref) THEN ref
  ELSE Ref("", <<>>, FALSE, <<<<"">> \o FlattenSeq([i \in DOMAIN ref.path |-> <<"">> \o ref.path[i]])>>)

\* get_callable_tool_dict(): from the names in the framework to the references; the
\* last of a name counts, and urlparse() raises for a dictionary.
CallableTools(spec) ==
  LET refs == CoerceTools(spec)
      safe == [i \in DOMAIN refs |-> SafeName(refs[i])]
      LastOf(n) == CHOOSE i \in DOMAIN refs : safe[i] = n /\ \A j \in DOMAIN refs : safe[j] = n => j <= i
  IN [raised |-> \E r \in ToSet(refs) : r.kind = "dict",
      refs |-> [n \in ToSet(safe) |-> refs[LastOf(n)]]]

\* make_one_tool_function_call(): the activation that a call makes, or an error.
CallOf(net, spec, name) ==
  LET tools == CallableTools(spec)
  IN IF tools.raised \/ name \notin DOMAIN tools.refs THEN "error" ELSE PrepperFor(net, tools.refs[name])
-----------------------------------------------------------------------------
(* The connectivity report *)

\* assemble_tool_list()
ToolList(spec) ==
  FoldLeft(LAMBDA list, r : IF r \in ToSet(list) THEN list ELSE Append(list, r),
           <<>>, Strings(CoerceTools(spec) \o CoerceArgsTools(spec)))

\* Mutant: whatever the front man calls counts as reported.
ReportedEver(report, ref) == TRUE

\* reported_agents
IsReported(report, ref) == \E i \in DOMAIN report.list : report.list[i].origin = ref

\* Mutant: a node that hides its connectivity is told as any other.
RECURSIVE ReportHidden(_, _, _)
ReportHidden(net, ref, report) ==
  LET tools == IF IsExternalAgent(ref) THEN <<>> ELSE ToolList(SpecOf(net, ref))
      Tell(r, tool) == IF IsReported(r, tool) THEN r ELSE ReportHidden(net, tool, r)
  IN IF report.raised \/ (~IsExternalAgent(ref) /\ ref \notin NamesOf(net)) THEN report
     ELSE FoldLeft(Tell, [report EXCEPT !.list = Append(@, [origin |-> ref, tools |-> tools])], tools)

\* report_node_connectivity(): a node that hides its connectivity has no spec left
\* for determine_display_as(), which raises.
RECURSIVE ReportNode(_, _, _)
ReportNode(net, ref, report) ==
  LET isExternal == IsExternalAgent(ref)
      tools == IF isExternal THEN <<>> ELSE ToolList(SpecOf(net, ref))
      Tell(r, tool) == IF IsReported(r, tool) THEN r ELSE ReportNode(net, tool, r)
  IN CASE report.raised \/ (~isExternal /\ ref \notin NamesOf(net)) -> report
       [] ~isExternal /\ ~SpecOf(net, ref).connectivity -> [report EXCEPT !.raised = TRUE]
       [] OTHER ->
            FoldLeft(Tell, [report EXCEPT !.list = Append(@, [origin |-> ref, tools |-> tools])], tools)

\* report_network_connectivity()
ReportConnectivity(net) ==
  LET nothing == [raised |-> FALSE, list |-> <<>>]
  IN IF FindFrontMan(net) = {} THEN [nothing EXCEPT !.raised = TRUE]
     ELSE ReportNode(net, net[1].name, nothing)
=============================================================================
