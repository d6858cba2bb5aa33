----------------------------- MODULE ToolCreation -----------------------------
(***************************************************************************)
(* What an agent's code is made of when a request comes: the class of a      *)
(* coded tool is looked for in the directories of its network, a tool of    *)
(* the toolbox is made of the default toolbox and the user's, the tools of  *)
(* an MCP server are fetched and filtered, and the middleware is created.    *)
(*                                                                         *)
(* A module is a sequence of names; modules is a function from the modules   *)
(* that can be imported to the classes in them.  A value of a configuration *)
(* is [kind |-> "text", text], [kind |-> "dict", of], or null.               *)
(***************************************************************************)
EXTENDS Integers, Sequences, FiniteSets, SequencesExt, Functions, TLC

Null == [kind |-> "null"]
Value(text) == [kind |-> "text", text |-> text]
Dict(f) == [kind |-> "dict", of |-> f]
Get(dict, key) == IF key \in DOMAIN dict.of THEN dict.of[key] ELSE Null

\* DictionaryOverlay of nora-common: dictionaries are merged, else what is on top wins.
RECURSIVE Overlay(_, _)
Overlay(basis, top) ==
  IF basis.kind # "dict" \/ top.kind # "dict" THEN top
  ELSE Dict([k \in DOMAIN basis.of \cup DOMAIN top.of |->
              IF k \notin DOMAIN top.of THEN basis.of[k]
              ELSE IF k \notin DOMAIN basis.of THEN top.of[k] ELSE Overlay(basis.of[k], top.of[k])])
-----------------------------------------------------------------------------
(* The class of a coded tool *)

\* _determine_agent_tool_path(): the network's own directory under AGENT_TOOL_PATH
AgentToolPath(root, network) == IF IsSuffix(network, root) THEN root ELSE root \o network

IsIn(modules, module, class) == module \in DOMAIN modules /\ class \in modules[module]
NotFound == <<"not found">>

\* Mutant: a module without the class ends the search.
FirstModule(path, network, module, class, modules) ==
  LET depths == {i \in 0..Len(network) : SubSeq(path, 1, Len(path) - i) \o module \in DOMAIN modules}
      first == CHOOSE i \in depths : \A j \in depths : i <= j
  IN IF depths = {} \/ ~IsIn(modules, SubSeq(path, 1, Len(path) - first) \o module, class) THEN NotFound
     ELSE SubSeq(path, 1, Len(path) - first) \o module
\* From the network's directory up to the one that all share; a module without the
\* class is passed over.
Walk(path, network, module, class, modules) ==
  LET depths == {i \in 0..Len(network) : IsIn(modules, SubSeq(path, 1, Len(path) - i) \o module, class)}
  IN IF depths = {} THEN NotFound
     ELSE SubSeq(path, 1, Len(path) - (CHOOSE i \in depths : \A j \in depths : i <= j)) \o module

\* _attempt_resolve(): the module the class is taken from
Resolve(root, only, network, module, class, modules) ==
  IF ~only /\ IsIn(modules, module, class) THEN module
  ELSE Walk(AgentToolPath(root, network), network, module, class, modules)
-----------------------------------------------------------------------------
(* A tool of the toolbox *)

REMOVED_TOOLS == {"requests_get"}

Load(default, user) == Overlay(Dict(default), Dict(user)).of

\* Mutant: only what is in no box at all is known to be removed.
RemovedIfUnknown(infos, name) ==
  IF name \notin DOMAIN infos THEN IF name \in REMOVED_TOOLS THEN "removed" ELSE "undefined"
  ELSE IF infos[name].kind # "dict" THEN "not a dictionary"
  ELSE IF Get(infos[name], "class") \in {Null, Value("")} THEN "bad class" ELSE "ok"
\* _require_tool_info(): what is wrong with the entry
RequireToolInfo(infos, name) ==
  IF name \notin DOMAIN infos THEN IF name \in REMOVED_TOOLS THEN "removed" ELSE "undefined"
  ELSE IF infos[name].kind # "dict" THEN "not a dictionary"
  ELSE IF "class" \notin DOMAIN infos[name].of THEN IF name \in REMOVED_TOOLS THEN "removed" ELSE "no class"
  ELSE IF infos[name].of["class"].kind # "text" \/ infos[name].of["class"] = Value("") THEN "bad class"
  ELSE "ok"

\* Classes are [kind, fields]: what can be made of them, and of which arguments.
IsClass(classes, value) == value.kind = "text" /\ value.text \in DOMAIN classes
\* Mutant: arguments are not checked.
AcceptsAll(classes, value, args) == TRUE
Accepts(classes, value, args) == DOMAIN args.of \subseteq classes[value.text].fields
Instance(class, args) == [kind |-> "instance", class |-> class.text, args |-> args.of]

IsNested(value) == value.kind = "dict" /\ "class" \in DOMAIN value.of
NestedArgs(value) == IF "args" \in DOMAIN value.of THEN value.of["args"] ELSE Dict(<<>>)

\* An "args" that is null, or a class that is no text, raises no ValueError.
RECURSIVE Crashes(_, _), Resolves(_, _), ResolveArgs(_)
Crashes(classes, args) ==
  \/ args.kind # "dict"
  \/ \E k \in DOMAIN args.of :
       /\ IsNested(args.of[k])
       /\ LET class == args.of[k].of["class"]
          IN class.kind # "text" \/ (IsClass(classes, class) /\ Crashes(classes, NestedArgs(args.of[k])))
Resolves(classes, args) ==
  \A k \in DOMAIN args.of :
    IsNested(args.of[k]) =>
      LET class == args.of[k].of["class"]  nested == NestedArgs(args.of[k])
      IN IsClass(classes, class) /\ Resolves(classes, nested) /\ Accepts(classes, class, nested)
\* _resolve_args(): what is a class becomes an instance of it.
ResolveArgs(args) ==
  Dict([k \in DOMAIN args.of |->
         IF IsNested(args.of[k]) THEN Instance(args.of[k].of["class"], ResolveArgs(NestedArgs(args.of[k])))
         ELSE args.of[k]])

Made(tools) == [tools |-> tools, told |-> FALSE, crashed |-> FALSE]
Told == [tools |-> <<>>, told |-> TRUE, crashed |-> FALSE]
Crashed == [tools |-> <<>>, told |-> FALSE, crashed |-> TRUE]

\* Mutant: the agent's arguments lie below.
BoxArgsWin(entry, agentArgs) == Overlay(agentArgs, ResolveArgs(NestedArgs(entry)))
FinalArgs(entry, agentArgs) == Overlay(ResolveArgs(NestedArgs(entry)), agentArgs)

\* create_toolbox_tool() for an agent: tools with their names, classes and arguments;
\* a toolkit makes several, whose names start with the agent's.
CreateToolboxTool(infos, name, agentArgs, agent, classes) ==
  LET entry == infos[name]  class == entry.of["class"]  args == NestedArgs(entry)
      final == FinalArgs(entry, agentArgs)
      Tool(own) == [name |-> IF own = "" THEN <<agent>> ELSE <<agent, own>>, class |-> class.text, args |-> final.of]
  IN IF RequireToolInfo(infos, name) # "ok" THEN Told
     ELSE IF "description" \in DOMAIN entry.of
          THEN Made(<<[name |-> <<agent>>, class |-> class.text, args |-> <<>>]>>)
     ELSE IF ~IsClass(classes, class) THEN Told
     ELSE IF Crashes(classes, args) THEN Crashed
     ELSE IF ~Resolves(classes, args) \/ ~Accepts(classes, class, final) THEN Told
     ELSE IF classes[class.text].kind = "toolkit" THEN Made(<<Tool("one"), Tool("two")>>)
     ELSE Made(<<Tool("")>>)
-----------------------------------------------------------------------------
(* The tools of an MCP server *)

\* A reference may hold a list of tools, [there, tools]; what the file of servers says
\* of the server is [headers, tools], of which both may be empty.
NoList == [there |-> FALSE, tools |-> {}]

\* get_mcp_tools(): a list of the reference, even an empty one, goes before the file's.
AllowedTools(list, info) == IF list.there THEN list.tools ELSE info.tools
Headers(own, info) == IF own # {} THEN own ELSE info.headers

\* Mutant: only a list of the reference counts.
KeepOfReference(list, info, offered) == IF list.tools = {} THEN offered ELSE offered \cap list.tools
\* An empty list filters nothing.
Keep(list, info, offered) ==
  IF AllowedTools(list, info) = {} THEN offered ELSE offered \cap AllowedTools(list, info)

\* create_mcp_tool(): what is kept, what is told to be missing, and how it was asked
CreateMcpTool(list, info, own, server) ==
  LET tools == IF server.reachable THEN Keep(list, info, server.tools) ELSE {}
      missing == IF server.reachable THEN AllowedTools(list, info) \ tools ELSE {}
  IN [tools |-> tools, missing |-> missing, told |-> ~server.reachable \/ missing # {}, headers |-> Headers(own, info)]
-----------------------------------------------------------------------------
(* Middleware *)

\* An entry is [class, args, allow, checkpointer]: class is "null" if there is none;
\* checkpointer a sequence of at most one class; args is a function.
\* The counts of the origins are those of the request, see MessageFlow.
SPECIAL_ARGS == {"origin", "reservationist", "sly_data", "chat_history", "journal"}

OriginOf(made, class) ==
  [tool |-> class, index |-> Cardinality({i \in DOMAIN made : made[i].tool = class})]
Framework(key, origin, reserves) ==
  CASE key \in {"origin", "journal"} -> [of |-> key, origin |-> origin]
    [] key = "reservationist" -> IF reserves THEN [of |-> key, origin |-> origin] ELSE [of |-> "null"]
    [] OTHER -> [of |-> key]

\* Mutant: an argument of the configuration stays.
KeepConfigured(args, origin, reserves) == args
\* _prepare_args(): what the configuration names is filled in.
PrepareArgs(args, origin, reserves) ==
  [k \in DOMAIN args |-> IF k \in SPECIAL_ARGS THEN Framework(k, origin, reserves) ELSE args[k]]

NoMiddleware == [middleware |-> <<>>, checkpointer |-> "null", origins |-> <<>>, failed |-> FALSE]
FirstCheckpointer(known, new) == IF known = "null" THEN new ELSE known

\* A class that is not given is skipped, one that is not found ends it all.
IsFound(class, found) == class \in found \cup {"null"}
Middleware(entry, origin, reserves) == [class |-> entry.class, args |-> PrepareArgs(entry.args, origin, reserves)]

\* create_middleware() for one entry more
AddMiddleware(known, entry, found, reserving) ==
  LET origin == OriginOf(known.origins, entry.class)
      one == Middleware(entry, origin, entry.allow /\ reserving)
      added == IF entry.class = "null" THEN known
               ELSE [known EXCEPT !.middleware = Append(@, one), !.origins = Append(@, origin)]
  IN IF known.failed THEN known
     ELSE IF ~(IsFound(entry.class, found) /\ \A s \in ToSet(entry.checkpointer) : IsFound(s, found))
          THEN [known EXCEPT !.failed = TRUE]
     ELSE IF entry.checkpointer = <<>> THEN added
     ELSE LET saver == entry.checkpointer[1]
          IN [added EXCEPT !.checkpointer = FirstCheckpointer(@, saver), !.origins = Append(@, OriginOf(@, saver))]
\* create_agent_middleware()
CreateAgentMiddleware(entries, found, reserving) ==
  FoldLeft(LAMBDA known, entry : AddMiddleware(known, entry, found, reserving), NoMiddleware, entries)
-----------------------------------------------------------------------------
(* The arguments of a coded tool *)

\* Mutant: the LLM's arguments win.
MergeBelow(llm, configured) == IF configured = Null THEN llm ELSE Overlay(configured, llm)
\* merge_args(): without configured arguments, the very dictionary of the caller
MergeArgs(llm, configured) == IF configured = Null THEN llm ELSE Overlay(llm, configured)

\* AbstractClassActivation.__init__(): what the framework adds, unless it is there
Standard(call, reserves) ==
  [origin |-> Value(call), progress_reporter |-> Value(call)] @@ IF reserves THEN "reservationist" :> Value(call) ELSE <<>>
WithStandard(args, call, reserves) ==
  Dict([k \in {j \in DOMAIN args.of : args.of[j] # Null} |-> args.of[k]] @@ Standard(call, reserves))

\* Two calls one after the other, maybe with one dictionary (use_tool()), into which the
\* first call's standard arguments have been put if it was not merged.
CallTwice(llm, configured, again, reserves) ==
  LET first == WithStandard(MergeArgs(llm, configured), "first", reserves)
      left == IF again /\ configured = Null THEN first ELSE llm
  IN <<first, WithStandard(MergeArgs(left, configured), "second", reserves)>>
=============================================================================
