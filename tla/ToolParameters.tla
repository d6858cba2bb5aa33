--------------------------- MODULE ToolParameters ---------------------------
(***************************************************************************)
(* The parameters of a tool, from the function of an agent to the arguments  *)
(* of a call: the two phases of their validation when a network is loaded,   *)
(* the model the LLM's arguments are checked with, the tool made of it, and  *)
(* what the callee is told.                                                *)
(*                                                                         *)
(* A schema is [type, properties, required, items, extra].  properties is    *)
(* [shape, fields], fields a function from names to schemas; required is    *)
(* [shape, names]; items is a sequence of at most one schema; extra the set  *)
(* of its other keys.  type is "missing" where there is none, "list" for a  *)
(* list of types, "notADict" for a value that is no schema at all.          *)
(* A function is [description, parameters], parameters [shape, schema].     *)
(***************************************************************************)
EXTENDS Integers, Sequences, FiniteSets, Functions

TYPE_LOOKUP == {"string", "integer", "boolean", "array", "object"}

NoFields == <<>>
Absent == [shape |-> "missing", fields |-> NoFields]
NoSchema == [type |-> "missing", properties |-> Absent, required |-> [shape |-> "missing", names |-> {}],
             items |-> <<>>, extra |-> {}]

\* DEFAULT_EXTERNAL_PARAMETERS
Inquiry ==
  [NoSchema EXCEPT !.type = "object",
     !.properties = [shape |-> "dict", fields |-> [inquiry |-> [NoSchema EXCEPT !.type = "string"]]],
     !.required = [shape |-> "list", names |-> {"inquiry"}]]

\* get("properties"), if it holds any
Fields(schema) == IF schema.properties.shape = "dict" THEN schema.properties.fields ELSE NoFields
IsDict(schema) == schema.type # "notADict"
IsEmpty(parameters) == parameters.shape = "missing" \/ parameters.shape = "null" \/ parameters.schema = NoSchema
-----------------------------------------------------------------------------
(* The model of a schema (BaseModelDictionaryConverter) *)

\* validate_field_name()
IsFieldName(name) == name \notin {"_private", "model_config", "model_dump"}

\* openai_function_to_pydantic() and get_type_from_property_dict(): no ToolSpecError.
RECURSIVE Converts(_), HasType(_)
Converts(schema) ==
  /\ schema.properties.shape # "text" /\ schema.required.shape \in {"missing", "list"}
  /\ \A f \in DOMAIN Fields(schema) : IsFieldName(f) /\ IsDict(Fields(schema)[f]) /\ HasType(Fields(schema)[f])
HasType(schema) ==
  /\ schema.type \in TYPE_LOOKUP
  /\ schema.type = "object" /\ (schema.properties.shape = "text" \/ Fields(schema) # NoFields) => Converts(schema)
  /\ schema.type = "array" => schema.items # <<>> /\ IsDict(schema.items[1]) /\ HasType(schema.items[1])

\* The fields of the model; those that are not required may be null.
RECURSIVE ModelOf(_), TypeOf(_)
ModelOf(schema) ==
  [f \in DOMAIN Fields(schema) |->
     [required |-> schema.required.shape = "list" /\ f \in schema.required.names, type |-> TypeOf(Fields(schema)[f])]]
TypeOf(schema) ==
  CASE schema.type = "array" -> [kind |-> "list", of |-> TypeOf(schema.items[1])]
    [] schema.type = "object" /\ Fields(schema) # NoFields -> [kind |-> "model", of |-> ModelOf(schema)]
    [] OTHER -> [kind |-> "plain", of |-> schema.type]
-----------------------------------------------------------------------------
(* The validation of a network's parameters *)

\* _locate_parameters(): those of the function, else those of the agent.
LocateParameters(spec) ==
  IF spec.function.parameters.shape # "missing" THEN spec.function.parameters ELSE spec.parameters

\* Mutant: only what the parameters hold directly is converted.
ConvertsOutside(parameters) ==
  parameters.shape \in {"null", "text"} \/ ~(\A f \in DOMAIN Fields(parameters.schema) : IsFieldName(f))

\* PydanticParametersNetworkValidator finds an error.
PydanticError(parameters) ==
  \/ parameters.shape \in {"null", "text"}
  \/ parameters.shape = "dict" /\ Fields(parameters.schema) # NoFields /\ ~Converts(parameters.schema)

\* Mutant: the elements of arrays are not looked into.
SubschemasOfFields(schema) == {s \in Range(Fields(schema)) : IsDict(s)}

\* _iter_subschemas()
Subschemas(schema) ==
  {s \in Range(Fields(schema)) \cup Range(schema.items) : IsDict(s)}

\* _find_nested_parameters_keys(), _check_required_refs()
RECURSIVE SemanticError(_)
SemanticError(schema) ==
  \/ "parameters" \in schema.extra
  \/ /\ schema.required.shape \in {"list", "mixed"} /\ schema.properties.shape = "dict"
     /\ ~(schema.required.names \subseteq DOMAIN Fields(schema))
  \/ \E s \in Subschemas(schema) : SemanticError(s)

\* ParametersSchemaNetworkValidator: both phases, one after the other.
AcceptedParameters(spec) ==
  LET parameters == LocateParameters(spec)
  IN ~PydanticError(parameters) /\ ~(parameters.shape = "dict" /\ SemanticError(parameters.schema))
-----------------------------------------------------------------------------
(* The tool *)

\* verify_function_json() raises: no description, or parameters without a type or
\* without properties.
VerifyFails(function) ==
  \/ ~function.description
  \/ function.parameters.shape = "text"
  \/ /\ ~IsEmpty(function.parameters)
     /\ function.parameters.schema.type = "missing" \/ Fields(function.parameters.schema) = NoFields

NoTool == [made |-> FALSE, model |-> NoFields]

\* from_function_json(), from create_function_tool(): a tool, or a ToolSpecError.
MakeTool(function) ==
  LET source == IF IsEmpty(function.parameters) THEN NoSchema ELSE function.parameters.schema
  IN IF VerifyFails(function) \/ ~Converts(source) THEN NoTool ELSE [made |-> TRUE, model |-> ModelOf(source)]

\* Mutant: only a function without any parameters gets one.
OnlyIfMissing(function) ==
  IF function.parameters.shape = "missing"
  THEN [function EXCEPT !.parameters = [shape |-> "dict", schema |-> Inquiry]] ELSE function

\* ensure_external_parameters(): parameters without any properties, and without
\* keys of another dialect, are replaced.
EnsureExternalParameters(function) ==
  LET schema == function.parameters.schema
      declared == function.parameters.shape = "dict" /\
                  (schema.properties.shape = "text" \/ Fields(schema) # NoFields \/ schema.extra # {} \/ schema.items # <<>>)
  IN IF ~function.description \/ function.parameters.shape = "text" \/ declared THEN function
     ELSE [function EXCEPT !.parameters = [shape |-> "dict", schema |-> Inquiry]]

\* create_external_tool(): what is unreachable, or cannot be made, is left out.
CreateExternalTool(response) ==
  IF response.state \in {"unreachable", "noFunction"} THEN NoTool
  ELSE MakeTool(EnsureExternalParameters(response.function))
-----------------------------------------------------------------------------
(* A call *)

\* What langchain and pydantic accept as arguments: all required ones, and null
\* only for others.
AcceptsCall(model, args) ==
  /\ DOMAIN args \subseteq DOMAIN model
  /\ \A f \in DOMAIN model : model[f].required => f \in DOMAIN args /\ args[f] # "null"

\* Mutant: an argument is told by its value's type only.
AssignTyped(properties, args) ==
  {f \in DOMAIN args : args[f] # "null" /\ f \in DOMAIN properties /\ properties[f].type = "string"}

\* ArgumentAssigner.assign(): which arguments the callee is told of.
Assign(properties, args) ==
  {f \in DOMAIN args : args[f] # "null" /\
     (properties = NoFields \/ (f \in DOMAIN properties /\ IsDict(properties[f]) /\ properties[f] # NoSchema))}
-----------------------------------------------------------------------------
(* The schema of an MCP tool call, cut out of that of the service: a function   *)
(* from names to [refs, empty], refs what stands after "$ref" anywhere in it,   *)
(* [local, name].  What is cut out is [kept, required, strict].                  *)

\* _get_schema_defs()
SchemaDefs(schema) == {r.name : r \in {q \in schema.refs : q.local}}

\* _get_all_defs(): a schema that is referenced and missing, or empty, raises.
IsMissing(schemas, name) == name \notin DOMAIN schemas \/ schemas[name].empty

\* Mutant: only what the root refers to itself is looked at.
DefsOfRoot(schemas, root) == {root} \cup SchemaDefs(schemas[root])

\* The names it returns, or one of those it raises for.
AllDefs(schemas, root) ==
  LET next[n \in 0..Cardinality(DOMAIN schemas)] ==
        IF n = 0 THEN {root}
        ELSE next[n - 1] \cup UNION {SchemaDefs(schemas[d]) : d \in next[n - 1] \cap DOMAIN schemas}
  IN next[Cardinality(DOMAIN schemas)]

\* _extract_sub_schema(), with what validate() makes of a request's arguments.
ExtractSubSchema(schemas, root, required) ==
  LET defs == AllDefs(schemas, root)
  IN IF IsMissing(schemas, root) \/ \E d \in defs : IsMissing(schemas, d)
     THEN [raised |-> TRUE, kept |-> {}, accepts |-> {}]
     ELSE [raised |-> FALSE, kept |-> DOMAIN schemas \cap defs,
           accepts |-> {args \in SUBSET schemas[root].properties : required \in args}]
=============================================================================
