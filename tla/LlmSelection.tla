----------------------------- MODULE LlmSelection -----------------------------
(***************************************************************************)
(* How the LLM of an agent is chosen and made: the tables of models and of  *)
(* classes (LlmInfoRestorer, DefaultLlmFactory.load), the complete           *)
(* configuration of one LLM, the values the user's sly_data must give, the   *)
(* factories that are tried in order, the policies of the providers, the     *)
(* fallbacks and their randomized peers, the errors that are told when none  *)
(* is usable, and the release of what was made.                             *)
(*                                                                         *)
(* A configuration is a function from its keys to values; "null" is None.   *)
(***************************************************************************)
EXTENDS Integers, Sequences, FiniteSets, SequencesExt, TLC

\* DictionaryOverlay of nora-common: what lies on top wins.
Overlay(basis, top) == top @@ basis
Get(dict, key, default) == IF key \in DOMAIN dict THEN dict[key] ELSE default
Error(why) == [kind |-> "error", why |-> why]
-----------------------------------------------------------------------------
(* The tables: entries of models, classes with their args, the default        *)
(* configuration, and the factories                                          *)

\* Entries are merged key by key with those of the user's file.
MergeTables(ours, theirs) ==
  [n \in DOMAIN ours \cup DOMAIN theirs |->
     IF n \notin DOMAIN theirs THEN ours[n]
     ELSE IF n \notin DOMAIN ours THEN theirs[n] ELSE Overlay(ours[n], theirs[n])]
MergeClasses(ours, theirs) ==
  [n \in DOMAIN ours \cup DOMAIN theirs |->
     IF n \notin DOMAIN theirs THEN ours[n]
     ELSE IF n \notin DOMAIN ours THEN theirs[n]
     ELSE [args |-> Overlay(ours[n].args, theirs[n].args), extends |-> theirs[n].extends]]

Load(infos, user) ==
  [entries |-> MergeTables(infos.entries, user.entries),
   classes |-> MergeClasses(infos.classes, user.classes), default |-> Overlay(infos.default, user.default)]

\* The arguments of a class: those of the class it extends lie on top.
RECURSIVE ChatClassArgs(_, _, _)
ChatClassArgs(classes, name, strict) ==
  IF name \notin DOMAIN classes
  THEN IF strict THEN Error("class") ELSE [kind |-> "args", args |-> <<>>]
  ELSE LET class == classes[name]
       IN IF class.extends = "null" THEN [kind |-> "args", args |-> class.args]
          ELSE LET parent == ChatClassArgs(classes, class.extends, strict)
               IN IF parent.kind = "error" THEN parent
                  ELSE [kind |-> "args", args |-> Overlay(class.args, parent.args)]

\* An entry of two keys or less only renames another one.
IsAlias(entry) == Cardinality(DOMAIN entry) <= 2
UseModelName(name, entry) == Get(entry, "use_model_name", name)

\* Mutant: the server's own key serves when the user gives none.
KeysFromServer(config, given) ==
  [kind |-> "config",
   config |-> [k \in DOMAIN config |-> IF config[k] = "sly_data" THEN Get(given, k, "null") ELSE config[k]]]
\* Every value "sly_data" is the user's, or the LLM is not made.
ReplaceApiKeys(config, given) ==
  LET wanted == {k \in DOMAIN config : config[k] = "sly_data"}
      missing == wanted \ DOMAIN given
  IN IF missing # {} THEN [kind |-> "missing", keys |-> missing]
     ELSE [kind |-> "config", config |-> [k \in DOMAIN config |-> IF k \in wanted THEN given[k] ELSE config[k]]]

\* A model without a limit of its own leaves the limit to the provider.
MaxPromptTokens(infos, config) ==
  LET name == config["model_name"]
      named == infos.entries[name]
      entry == IF IsAlias(named) THEN infos.entries[UseModelName(name, named)] ELSE named
      computed == IF Get(entry, "max_output_tokens", "null") = "null" \/ Get(config, "prompt_token_fraction", "null") = "null"
                  THEN "null" ELSE "fraction of the model's"
  IN IF name \notin DOMAIN infos.entries THEN Error("model")
     ELSE [kind |-> "tokens",
           tokens |-> IF Get(config, "max_tokens", "null") = "null" THEN computed ELSE config["max_tokens"]]

\* The entry that names the class of a model.
ResolveEntry(infos, name) ==
  IF name \notin DOMAIN infos.entries THEN Error("model")
  ELSE LET entry == infos.entries[name]
           use == UseModelName(name, entry)
       IN IF ~IsAlias(entry) THEN [kind |-> "entry", name |-> use, entry |-> entry]
          ELSE IF use \notin DOMAIN infos.entries THEN Error("use_model_name")
          ELSE [kind |-> "entry", name |-> use, entry |-> infos.entries[use]]

\* Mutant: the defaults lie on top of what the agent's network says.
DefaultsOnTop(infos, config, args) == Overlay(Overlay(args, config), infos.default)
\* What the agent's network says lies on top of the defaults of the server, and
\* those lie on top of the ones of the class.
WithDefaults(infos, config, args) == Overlay(Overlay(args, infos.default), config)

FullConfig(infos, config, given) ==
  LET class == Get(config, "class", "null")
      own == ChatClassArgs(infos.classes, class, FALSE)
      found == ResolveEntry(infos, Get(Overlay(infos.default, config), "model_name", "null"))
      chat == Get(found.entry, "class", "null")
      args == ChatClassArgs(infos.classes, chat, TRUE)
      replaced == ReplaceApiKeys(Overlay(WithDefaults(infos, config, args.args),
                     ("class" :> chat) @@ ("model_name" :> UseModelName(found.name, found.entry))), given)
      tokens == MaxPromptTokens(infos, replaced.config)
  IN IF class # "null"
     THEN IF own.kind = "error" THEN own ELSE ReplaceApiKeys(Overlay(own.args, config), given)
     ELSE CASE found.kind = "error" -> found
            [] found.kind = "entry" /\ chat = "null" -> Error("no class")
            [] found.kind = "entry" /\ chat # "null" /\ args.kind = "error" -> args
            [] OTHER ->
                 IF replaced.kind # "config" THEN replaced
                 ELSE IF tokens.kind = "error" THEN tokens
                 ELSE [replaced EXCEPT !.config = Overlay(replaced.config, "max_tokens" :> tokens.tokens)]
-----------------------------------------------------------------------------
(* The providers: which key an LLM is made with, and what is released          *)

\* Where a policy looks for the key: in the configuration, then in the
\* environment of the server, unless a client was made that has it already.
ValueOrEnv(config, key, environment) ==
  IF Get(config, key, "null") # "null" THEN config[key]
  ELSE IF key \in environment THEN "the server's" ELSE "null"

\* key: its name; opened: the connections that come with an LLM; released: those
\* the policy closes; guarded: a failure to close one is suppressed.
OpenAI == [key |-> "openai_api_key", opened |-> {"http"}, released |-> {"http"}, guarded |-> TRUE]
Azure == [key |-> "openai_api_key", opened |-> {"http"}, released |-> {"http"}, guarded |-> TRUE]
Anthropic == [key |-> "anthropic_api_key", opened |-> {"async"}, released |-> {"async"}, guarded |-> TRUE]
AnthropicBedrock == [key |-> "aws_secret_access_key", opened |-> {"async"}, released |-> {"async"}, guarded |-> TRUE]
Bedrock == [key |-> "aws_secret_access_key", opened |-> {"boto", "control"}, released |-> {"boto", "control"}, guarded |-> FALSE]
Gemini == [key |-> "google_api_key", opened |-> {"sync", "async"}, released |-> {"sync", "async"}, guarded |-> TRUE]
Ollama == [key |-> "base_url", opened |-> {"async"}, released |-> {"async"}, guarded |-> TRUE]
OpenRouter == [key |-> "openrouter_api_key", opened |-> {"sdk"}, released |-> {"sdk"}, guarded |-> TRUE]
Nvidia == [key |-> "nvidia_api_key", opened |-> {"session"}, released |-> {}, guarded |-> TRUE]

PolicyOf ==
  ("openai" :> OpenAI) @@ ("azure-openai" :> Azure) @@ ("anthropic" :> Anthropic)
    @@ ("anthropic-bedrock" :> AnthropicBedrock) @@ ("bedrock" :> Bedrock) @@ ("gemini" :> Gemini)
    @@ ("ollama" :> Ollama) @@ ("openrouter" :> OpenRouter) @@ ("nvidia" :> Nvidia)

\* What is to be released with an LLM, and the key it is made with.
ResourcesComponents(class, config, environment) ==
  LET policy == PolicyOf[class] IN [policy |-> policy, key |-> ValueOrEnv(config, policy.key, environment)]

\* Whether the policy's release raises when the connections in stuck fail to close.
ReleaseRaises(policy, stuck) == ~policy.guarded /\ policy.released \cap stuck # {}
-----------------------------------------------------------------------------
(* The factories                                                             *)

\* What a construction error says: the texts about keys are recognized.
IsAboutKeys(exception) == exception \in {"keyText", "validation"}

\* The outcome of one factory after those before it: an LLM, or what goes on.
\* resources: an LLM; legacy...: the older call, that may give one; noOpinion:
\* None; keyText, validation, providerError: errors of the provider's library;
\* unknown: a ValueError; other: any other exception.
TryFactory(before, outcome) ==
  IF before.kind \in {"made", "stopped", "raised"} THEN before
  ELSE CASE outcome \in {"resources", "legacyModel"} -> [kind |-> "made"]
         [] outcome = "legacyResources" -> [kind |-> "stopped"]
         [] outcome \in {"noOpinion", "legacyNone"} -> [kind |-> "open", exception |-> "none"]
         [] IsAboutKeys(outcome) -> [kind |-> "raised", exception |-> "friendly"]
         [] outcome \in {"unknown", "providerError"} -> [kind |-> "open", exception |-> outcome]
         [] outcome \in {"other", "legacyUnknown"} ->
              [kind |-> "raised", exception |-> IF outcome = "other" THEN "other" ELSE "unknown"]

\* The user's own class is tried last, for classes the tables do not have.
UserClass(outcome) ==
  IF outcome = "resources" THEN [kind |-> "made"] ELSE [kind |-> "raised", exception |-> outcome]

\* Mutant: the class of the user is tried whatever the factories said.
UserClassAlways(factories, userClass, known) ==
  LET tried == FoldLeft(TryFactory, [kind |-> "open", exception |-> "none"], factories)
  IN IF tried.kind = "open" THEN UserClass(userClass) ELSE tried
CreateLlmResources(factories, userClass, known) ==
  LET tried == FoldLeft(TryFactory, [kind |-> "open", exception |-> "none"], factories)
  IN CASE tried.kind \in {"made", "raised"} -> tried
       [] tried.kind = "stopped" -> [kind |-> "nothing"]
       [] tried.kind = "open" /\ tried.exception = "none" -> [kind |-> "nothing"]
       [] tried.kind = "open" /\ tried.exception # "none" ->
            IF known THEN [kind |-> "raised", exception |-> tried.exception] ELSE UserClass(userClass)

\* One LLM of a list of fallbacks: what is missing of the user, what a factory
\* makes of it, or that there is no model of that name.
CreateLlm(candidate) ==
  CASE candidate = "missing" -> [kind |-> "missing", keys |-> {"openai_api_key"}]
    [] candidate = "noModel" -> [kind |-> "raised", exception |-> "unknown"]
    [] OTHER -> CreateLlmResources(<<candidate>>, "unknown", TRUE)
-----------------------------------------------------------------------------
(* Fallbacks: the LLMs in order; a list among them is a group of peers         *)

NoErrors == [keys |-> {}, construction |-> {}, missing |-> {}]
AddErrors(a, b) == [f \in DOMAIN a |-> a[f] \cup b[f]]
NewLlm(id) == [id |-> id, children |-> <<>>]

\* The state of the loop: the usable ones in order, the errors, and whether an
\* exception left it.
Begin == [usable |-> <<>>, errors |-> NoErrors, escaped |-> FALSE]

\* Mutant: an error ends the loop.
TryUntilError(state, id, outcome) ==
  IF state.escaped \/ state.errors # NoErrors THEN state
  ELSE CASE outcome.kind = "made" -> [state EXCEPT !.usable = Append(@, NewLlm(id))]
         [] outcome.kind = "nothing" -> state
         [] outcome.kind = "missing" -> [state EXCEPT !.errors.missing = @ \cup outcome.keys]
         [] outcome.kind = "raised" -> [state EXCEPT !.errors.construction = @ \cup {id}]
TryOne(state, id, outcome) ==
  IF state.escaped THEN state
  ELSE CASE outcome.kind = "made" -> [state EXCEPT !.usable = Append(@, NewLlm(id))]
         [] outcome.kind = "nothing" -> state
         [] outcome.kind = "missing" -> [state EXCEPT !.errors.missing = @ \cup outcome.keys]
         [] outcome.kind = "raised" ->
              CASE outcome.exception = "friendly" -> [state EXCEPT !.errors.keys = @ \cup {id}]
                [] outcome.exception = "unknown" -> [state EXCEPT !.errors.construction = @ \cup {id}]
                [] outcome.exception \in {"other", "providerError"} -> [state EXCEPT !.escaped = TRUE]

\* Mutant: the LLMs after the first are used but not kept for the release.
MainOnly(usable) == Head(usable)
\* The first usable LLM is the main one; the others are its fallbacks, and its
\* children, so that they are released with it.
WithFallbacks(usable) == [Head(usable) EXCEPT !.children = @ \o Tail(usable)]

\* The orders of an LLM list: those of a group are shuffled.
Orders(usable, randomize) ==
  IF randomize THEN {[i \in DOMAIN usable |-> usable[p[i]]] : p \in Permutations(DOMAIN usable)} ELSE {usable}

\* The set of results of a list: a tree of LLMs or the errors. num trims the list.
Finish(state, randomize) ==
  IF state.escaped THEN {[kind |-> "escaped"]}
  ELSE IF state.usable = <<>> THEN {[kind |-> "errors", errors |-> state.errors]}
  ELSE {[kind |-> "llm", llm |-> WithFallbacks(o)] : o \in Orders(state.usable, randomize)}

\* num = 0 trims to nothing; a negative one takes from the end.
Trim(list, num) ==
  IF num >= 0 THEN SubSeq(list, 1, IF num < Len(list) THEN num ELSE Len(list))
  ELSE SubSeq(list, IF Len(list) + num < 0 THEN 1 ELSE Len(list) + num + 1, Len(list))

GroupStates(state, id, group) ==
  LET inner == FoldLeft(LAMBDA s, i : TryOne(s, <<id, i>>, CreateLlm(group[i])), Begin, [i \in DOMAIN group |-> i])
  IN {CASE r.kind = "escaped" -> [state EXCEPT !.escaped = TRUE]
        [] r.kind = "errors" -> [state EXCEPT !.errors = AddErrors(@, r.errors)]
        [] r.kind = "llm" -> [state EXCEPT !.usable = Append(@, r.llm)] : r \in Finish(inner, TRUE)}

\* The results of a list of fallbacks, each an LLM or a group of LLMs.
CreateLlmWithFallbacks(fallbacks, num) ==
  LET list == Trim(fallbacks, num)
      Step(states, i) ==
        UNION {IF s.escaped THEN {s}
               ELSE IF list[i].kind = "llm" THEN {TryOne(s, <<i>>, CreateLlm(list[i].of))}
               ELSE GroupStates(s, i, list[i].of) : s \in states}
  IN UNION {Finish(s, FALSE) : s \in FoldLeft(Step, {Begin}, [i \in DOMAIN list |-> i])}

\* What is told to the user when there is no LLM: a paragraph per kind of error.
Complaint(errors) == {f \in DOMAIN errors : errors[f] # {}}
-----------------------------------------------------------------------------
(* The release: the policy of an LLM first, then those of its children         *)

\* All LLMs of a tree in the order of their release.
RECURSIVE ReleaseOrder(_)
ReleaseOrder(llm) == <<llm.id>> \o FlattenSeq([i \in DOMAIN llm.children |-> ReleaseOrder(llm.children[i])])

\* What is released, if those in raising raise: the first that does ends it.
CloseOfWork(llm, raising) ==
  LET order == ReleaseOrder(llm)
      first == CHOOSE i \in 1..(Len(order) + 1) :
                 (i > Len(order) \/ order[i] \in raising) /\ \A j \in 1..(i - 1) : order[j] \notin raising
  IN {order[i] : i \in 1..(IF first > Len(order) THEN Len(order) ELSE first)}
=============================================================================
