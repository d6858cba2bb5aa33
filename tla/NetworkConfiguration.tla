------------------------- MODULE NetworkConfiguration -------------------------
(***************************************************************************)
(* What happens to the configuration of a network before its agents are     *)
(* made of it, and to the private data (sly_data) of a request on the way to *)
(* another network and back: the filters of common definitions and of        *)
(* defaults, the redaction, and the call of an external network.            *)
(*                                                                         *)
(* A text is a sequence of parts, each a word or a hole "{word}" of the      *)
(* source.                                                                   *)
(***************************************************************************)
EXTENDS Integers, Sequences, FiniteSets, SequencesExt, TLC

Overlay(basis, top) == top @@ basis
Get(dict, key, default) == IF key \in DOMAIN dict THEN dict[key] ELSE default

Word(w) == [word |-> w, hole |-> FALSE]
Hole(w) == [word |-> w, hole |-> TRUE]
Text(parts) == [kind |-> "text", parts |-> parts]
Dictionary(f) == [kind |-> "dict", of |-> f]
-----------------------------------------------------------------------------
(* Common definitions                                                        *)

\* A text that is a key of the definitions is replaced as a whole.
ReplaceValue(text, values) ==
  IF Len(text.parts) = 1 /\ ~text.parts[1].hole /\ text.parts[1].word \in DOMAIN values
  THEN values[text.parts[1].word] ELSE text

\* The holes of a text are filled one definition after the other; what is filled in
\* is looked at again by the definitions that follow. An empty one is skipped.
FillHoles(text, strings) ==
  LET Fill(parts, def) ==
        IF def.text.kind # "text" \/ def.text.parts = <<>> THEN parts
        ELSE FlattenSeq([i \in DOMAIN parts |-> IF parts[i] = Hole(def.key) THEN def.text.parts ELSE <<parts[i]>>])
  IN Text(FoldLeft(Fill, text.parts, strings))

RECURSIVE FilterValues(_, _), FilterStrings(_, _)
FilterValues(value, values) ==
  IF value.kind = "dict" THEN Dictionary([k \in DOMAIN value.of |-> FilterValues(value.of[k], values)])
  ELSE ReplaceValue(value, values)
FilterStrings(value, strings) ==
  IF value.kind = "dict" THEN Dictionary([k \in DOMAIN value.of |-> FilterStrings(value.of[k], strings)])
  ELSE FillHoles(value, strings)

\* The definitions are first replaced by one another, once.
ValuesFilter(config) ==
  LET values == [k \in DOMAIN config.values |-> FilterValues(config.values[k], config.values)]
  IN IF config.values = <<>> THEN config
     ELSE [config EXCEPT !.tools = [i \in DOMAIN @ |-> FilterValues(@[i], values)]]
\* Mutant: the definitions are not replaced by one another.
StringsOnce(config) ==
  [config EXCEPT !.tools = [i \in DOMAIN @ |-> FilterStrings(@[i], config.strings)]]
StringsFilter(config) ==
  LET strings == [i \in DOMAIN config.strings |->
                    [config.strings[i] EXCEPT !.text = FilterStrings(@, config.strings)]]
  IN IF config.strings = <<>> THEN config
     ELSE [config EXCEPT !.tools = [i \in DOMAIN @ |-> FilterStrings(@[i], strings)]]

CommonDefinitions(config) == StringsFilter(ValuesFilter(config))
-----------------------------------------------------------------------------
(* Defaults: what the network says for all its agents; the schema of the      *)
(* private data is for the front man alone                                    *)

\* Mutant: the schema is told of every agent.
MappingForAll ==
  <<[source |-> "llm_config", dest |-> "llm_config", frontMan |-> FALSE],
    [source |-> "sly_data_schema", dest |-> "function.sly_data_schema", frontMan |-> FALSE]>>
DEFAULTS_MAPPING ==
  <<[source |-> "llm_config", dest |-> "llm_config", frontMan |-> FALSE],
    [source |-> "llm_config.verbose", dest |-> "verbose", frontMan |-> FALSE],
    [source |-> "verbose", dest |-> "verbose", frontMan |-> FALSE],
    [source |-> "max_steps", dest |-> "max_steps", frontMan |-> FALSE],
    [source |-> "sly_data_schema", dest |-> "function.sly_data_schema", frontMan |-> TRUE]>>

IsScalar(value) == value.kind = "scalar"
\* The value of a key of the network, if it has one.
BasisValue(config, source) ==
  IF source = "llm_config.verbose"
  THEN IF "llm_config" \in DOMAIN config.top /\ "verbose" \in DOMAIN config.top["llm_config"].of
       THEN {[kind |-> "scalar", value |-> config.top["llm_config"].of["verbose"]]} ELSE {}
  ELSE IF source \in DOMAIN config.top THEN {config.top[source]} ELSE {}

\* A function that is a text has no place for a schema.
SetToolValue(tool, dest, value) ==
  IF dest = "function.sly_data_schema" /\ tool.function = "text" THEN tool
  ELSE [tool EXCEPT !.spec = Overlay(@, dest :> value)]

\* Mutant: what the network says wins.
MergeOther(basis, own) ==
  IF IsScalar(own) \/ IsScalar(basis) THEN own
  ELSE [own EXCEPT !.of = Overlay(@, basis.of), !.required = basis.required \o SelectSeq(@, LAMBDA f : f \notin ToSet(basis.required))]
\* What the agent says wins; the lists of required keys are united.
Merge(basis, own) ==
  IF IsScalar(own) \/ IsScalar(basis) THEN own
  ELSE [own EXCEPT !.of = Overlay(basis.of, @),
                   !.required = basis.required \o SelectSeq(@, LAMBDA f : f \notin ToSet(basis.required))]

ApplyDefault(config, tool, isFrontMan, default) ==
  LET basis == BasisValue(config, default.source)
      value == CHOOSE v \in basis : TRUE
  IN IF basis = {} \/ (default.frontMan /\ ~isFrontMan) THEN tool
     ELSE IF default.dest \notin DOMAIN tool.spec THEN SetToolValue(tool, default.dest, value)
     ELSE SetToolValue(tool, default.dest, Merge(value, tool.spec[default.dest]))

Defaults(config) ==
  [config EXCEPT !.tools =
     [i \in DOMAIN @ |-> FoldLeft(LAMBDA tool, d : ApplyDefault(config, tool, i = 1, d), @[i], DEFAULTS_MAPPING)]]

\* The LLM an agent asks for: its own words over those of the network again.
RunContextConfig(config, tool) ==
  LET Of(dict) == IF "llm_config" \in DOMAIN dict THEN dict["llm_config"].of ELSE <<>>
  IN Overlay(Of(config.top), Of(tool.spec))
-----------------------------------------------------------------------------
(* Redaction: what an allow block lets through                                 *)

\* The forms of a block: nothing, everything, or keys with what becomes of each.
AllowNothing == [form |-> "bool", value |-> FALSE]
AllowAll == [form |-> "bool", value |-> TRUE]
AllowKeys(rules) == [form |-> "keys", rules |-> rules]
Keep(key) == [key |-> key, pass |-> TRUE, to |-> key]
Rename(key, to) == [key |-> key, pass |-> TRUE, to |-> to]
Withhold(key) == [key |-> key, pass |-> FALSE, to |-> key]

\* The last block that is there counts.
AllowOf(spec, keys) ==
  FoldLeft(LAMBDA allow, k : IF k \in DOMAIN spec THEN spec[k] ELSE allow, AllowNothing, keys)

\* SlyDataRedactor.filter_config()
Redact(allow, data) ==
  IF allow.form = "bool" THEN IF allow.value THEN data ELSE <<>>
  ELSE FoldLeft(LAMBDA out, r : IF r.pass /\ r.key \in DOMAIN data THEN Overlay(out, r.to :> data[r.key]) ELSE out,
                <<>>, allow.rules)
-----------------------------------------------------------------------------
(* The call of an external network: what it is sent, what it does with it, and *)
(* what is put together again                                                  *)

\* ExternalActivationPrepper: what the calling agent lets through.
SentDownstream(spec, sly) == Redact(AllowOf(spec, <<"sly_data", "to_downstream">>), sly)

\* Whether the messages of the callee are passed on to the client: a truth value,
\* one name, a list of names or a dictionary of names.
IsReported(spec, callee) ==
  LET said == IF "messages" \in DOMAIN spec THEN spec["messages"]
              ELSE Get(spec, "reporting", [form |-> "bool", value |-> FALSE])
  IN CASE said.form = "bool" -> said.value [] said.form = "names" -> callee \in said.names

\* The request: no data if there is none, everything if the messages are reported.
GatherInput(sent, reported, context) ==
  [sly_data |-> sent, filter |-> IF reported THEN "MAXIMAL" ELSE "MINIMAL", chat_context |-> context]

\* A message of the callee has an origin of its own, below the one of the call.
PassOn(origin, message) == IF message.origin = <<>> THEN {} ELSE {origin \o message.origin}

\* Mutant: the data that comes back replaces what was there, unredacted.
CallUnredacted(call) ==
  LET sent == SentDownstream(call.spec, call.sly)
  IN [request |-> GatherInput(sent, FALSE, <<>>), told |-> {}, sly |-> Overlay(call.sly, call.returned)]
\* build(), and the submission of its output by the calling agent: an answer that
\* carries private data changes that of the caller where the caller allows it.
CallExternal(call) ==
  LET sent == SentDownstream(call.spec, call.sly)
      reported == IsReported(call.spec, call.callee)
      back == Redact(AllowOf(call.spec, <<"from_downstream">>), call.returned)
  IN [request |-> GatherInput(sent, reported, call.context),
      told |-> IF reported THEN UNION {PassOn(call.origin, m) : m \in call.messages} ELSE {},
      sly |-> IF back # <<>> THEN Overlay(call.sly, back) ELSE call.sly]
=============================================================================
