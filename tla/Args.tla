-------------------------------- MODULE Args --------------------------------
(***************************************************************************)
(* The arguments of a command: their specification (spec/arg_spec.rs), the *)
(* way from the command line (parser/clap_mapper.rs) and from JSON         *)
(* (mcp/mod.rs) to typed values, the validation both share                 *)
(* (spec/command_tree.rs) and the schema that is published for callers. A  *)
(* token is what was written. Fits are the integers of an i64 written      *)
(* without a point, Whole what JSON Schema takes for integers, "huge"      *)
(* among them, one above the largest i64; Numeric is what JSON can write.  *)
(***************************************************************************)
EXTENDS Integers, Sequences, FiniteSets

Fits == {"0", "1", "9"}
Whole == Fits \cup {"1.0", "huge"}
Numeric == Whole \cup {"1.5"}
Tokens == Numeric \cup {"true", "false", "NaN", "red", "zz"}

\* Twice the value of a numeric token, so that 1.5 has one.
Number(token) ==
  CASE token = "0" -> 0 [] token \in {"1", "1.0"} -> 2 [] token = "9" -> 18 [] token = "1.5" -> 3
    [] token = "huge" -> 80

\* ArgValue. A list has items, of which validation asks only which they are;
\* every other value has a token.
Value(type, token) == [type |-> type, token |-> token, items |-> {}]
List(items) == [type |-> "List", token |-> "none", items |-> items]
NoValue == [type |-> "none", token |-> "none", items |-> {}]

\* The values of an enumeration and of a pattern.
Variants == {"red", "1"}
Matches(token) == token # "zz"

\* is_schema_required.
is_schema_required(a) ==
  a.card = "Required" \/ (a.card = "Repeated" /\ a.min_occurs >= 1)

\* The name a caller writes: long, or the name.
Long(a) == IF a.long = "none" THEN a.name ELSE a.long

-----------------------------------------------------------------------------
(* From the command line.                                                  *)

\* Mutant: a fraction is taken for an integer.
coerce_value_lenient(token, type) ==
  CASE type = "Bool" /\ token \in {"true", "1"} -> Value("Bool", "true")
    [] type = "Bool" /\ token \in {"false", "0"} -> Value("Bool", "false")
    [] type = "String" -> Value("Str", token)
    [] type = "Int" /\ token \in Numeric -> Value("Int", token)
    [] type = "Float" /\ token \in Numeric \cup {"NaN"} -> Value("Float", token)
    [] type = "Enum" /\ token \in Variants -> Value("Enum", token)
    [] OTHER -> NoValue

\* coerce_value: NoValue is the type error.
coerce_value(token, type) ==
  CASE type = "Bool" /\ token \in {"true", "1"} -> Value("Bool", "true")
    [] type = "Bool" /\ token \in {"false", "0"} -> Value("Bool", "false")
    [] type = "String" -> Value("Str", token)
    [] type = "Int" /\ token \in Fits -> Value("Int", token)
    [] type = "Float" /\ token \in Numeric \cup {"NaN"} -> Value("Float", token)
    [] type = "Enum" /\ token \in Variants -> Value("Enum", token)
    [] OTHER -> NoValue

\* build_clap_arg and clap: what the command line may give an argument, by
\* its kind and cardinality. given is the sequence of tokens of one argument,
\* for a flag one per time it was written.
ClapAccepts(a, given) ==
  CASE a.card = "Required" -> Len(given) = 1
    [] a.card = "Optional" -> Len(given) <= 1
    [] a.card = "Repeated" -> TRUE

\* map_matches_to_typed_args, for one argument: what was given, coerced; else
\* the default.
map_matches_to_typed_args(a, given) ==
  LET items == {coerce_value(given[i], a.type) : i \in 1 .. Len(given)}
      typed == CASE given = <<>> -> NoValue
                 [] given # <<>> /\ a.kind = "Flag" ->
                      IF a.card = "Repeated" THEN Value("Count", "1") ELSE Value("Bool", "true")
                 [] given # <<>> /\ a.kind # "Flag" ->
                      IF a.card = "Repeated" THEN List(items) ELSE coerce_value(given[1], a.type)
      bad == a.kind # "Flag" /\ NoValue \in items
  IN IF bad THEN [ok |-> FALSE, value |-> NoValue]
     ELSE [ok |-> TRUE, value |-> IF typed = NoValue THEN a.default ELSE typed]

-----------------------------------------------------------------------------
(* From JSON.                                                              *)

\* A JSON value: its kind, the token of a scalar, the items of an array (of
\* arrays in arrays, validation sees what is in the inner ones). NotGiven is an
\* argument that the call does not have.
Json(kind, token) == [kind |-> kind, token |-> token, items |-> <<>>]
NotGiven == Json("absent", "none")

\* json_value_to_arg_value: null and objects are dropped, also inside arrays.
ScalarArg(j) ==
  CASE j.kind = "boolean" -> Value("Bool", j.token)
    [] j.kind = "number" /\ j.token \in Fits -> Value("Int", j.token)
    [] j.kind = "number" /\ j.token \notin Fits -> Value("Float", j.token)
    [] j.kind = "string" -> Value("Str", j.token)
    [] OTHER -> NoValue
json_value_to_arg_value(j) ==
  IF j.kind = "array"
  THEN List({ScalarArg(j.items[i]) : i \in 1 .. Len(j.items)} \ {NoValue})
  ELSE ScalarArg(j)

\* json_value_to_typed_map: arguments are kept under the names the caller
\* used, except _positional.
json_value_to_typed_map(object, name) ==
  IF name \in DOMAIN object /\ name # "_positional"
  THEN json_value_to_arg_value(object[name]) ELSE NoValue

-----------------------------------------------------------------------------
(* Validation.                                                             *)

\* value_matches_type.
ScalarMatches(v, type) ==
  \/ v.type = "Count"
  \/ <<v.type, type>> \in {<<"Bool", "Bool">>, <<"Str", "String">>, <<"Int", "Int">>,
                           <<"Float", "Float">>, <<"Enum", "Enum">>}
value_matches_type(v, type) ==
  IF v.type = "List" THEN \A w \in v.items : ScalarMatches(w, type)
  ELSE ScalarMatches(v, type)

\* The bounds of an integer or a float, which stand for those of the
\* argument's own type (doubled, as Number is), and the pattern of a string.
\* NaN is neither below nor above.
OutOfRange(a, v) ==
  v.type \in {"Int", "Float"} /\ v.token # "NaN" /\ (Number(v.token) < a.min \/ Number(v.token) > a.max)
PatternFails(a, v) == v.type = "Str" /\ a.pattern /\ ~Matches(v.token)

\* validate_typed_args over the arguments of a command: the codes of its
\* diagnostics. args gives the value of each name, NoValue for none.
validate_typed_args(spec, args) ==
  LET there(n) == n \in DOMAIN args /\ args[n] # NoValue
  IN {"E_MISSING_REQUIRED" : a \in {a \in spec : a.card = "Required" /\ ~there(a.name)}}
     \cup {"E_INVALID_VALUE" : a \in {a \in spec :
             there(a.name) /\ LET v == args[a.name]
                              IN ~value_matches_type(v, a.type) \/ OutOfRange(a, v) \/ PatternFails(a, v)}}
     \cup {"E_CONFLICT" : a \in {a \in spec : there(a.name) /\ \E c \in a.conflicts : there(c)}}
     \cup {"E_UNSATISFIED_REQUIRES" : a \in {a \in spec :
             there(a.name) /\ \E d \in a.requires : ~there(d)}}

-----------------------------------------------------------------------------
(* The published schema.                                                   *)

\* to_json_schema_property, scalar_schema and to_json_schema: the name of the
\* property, its type and its constraints.
to_json_schema_property(a) ==
  [name |-> Long(a),
   type |-> CASE a.card = "Repeated" /\ a.kind = "Flag" -> "integer"
              [] a.card = "Repeated" /\ a.kind # "Flag" -> "array"
              [] a.card # "Repeated" /\ a.type = "Bool" -> "boolean"
              [] a.card # "Repeated" /\ a.type \in {"String", "Enum"} -> "string"
              [] a.card # "Repeated" /\ a.type = "Int" -> "integer"
              [] a.card # "Repeated" /\ a.type = "Float" -> "number",
   enum |-> a.card # "Repeated" /\ a.type = "Enum",
   bounds |-> a.card # "Repeated" /\ a.type \in {"Int", "Float"},
   pattern |-> a.card # "Repeated" /\ a.type = "String" /\ a.pattern,
   items |-> IF a.min_occurs >= 1 THEN a.min_occurs ELSE 0,
   required |-> is_schema_required(a)]

\* What JSON Schema makes of it: whether a value, or none, is valid for the
\* property p of the argument a. Outside the code.
SchemaAllows(p, a, j) ==
  IF j = NotGiven THEN ~p.required
  ELSE CASE p.type = "boolean" -> j.kind = "boolean"
         [] p.type = "integer" /\ p.bounds ->
              j.kind = "number" /\ j.token \in Whole /\ Number(j.token) \in a.min .. a.max
         [] p.type = "integer" /\ ~p.bounds ->
              j.kind = "number" /\ j.token \in Whole /\ Number(j.token) >= 2 * p.items
         [] p.type = "number" -> j.kind = "number" /\ Number(j.token) \in a.min .. a.max
         [] p.type = "string" ->
              j.kind = "string" /\ (p.enum => j.token \in Variants) /\ (p.pattern => Matches(j.token))
         [] p.type = "array" ->
              j.kind = "array" /\ Len(j.items) >= p.items
              /\ \A i \in 1 .. Len(j.items) : j.items[i].kind = "string"

\* A call with the one argument a, given under its published name:
\* invoke_mcp's parse_args, then validation.
McpAccepts(a, j) ==
  LET object == [m \in (IF j = NotGiven THEN {} ELSE {Long(a)}) |-> j]
  IN validate_typed_args({a}, [n \in {a.name} |-> json_value_to_typed_map(object, n)]) = {}
CliAccepts(a, given) ==
  LET m == map_matches_to_typed_args(a, given)
  IN ClapAccepts(a, given) /\ m.ok /\ validate_typed_args({a}, [n \in {a.name} |-> m.value]) = {}

-----------------------------------------------------------------------------
(* Where the surfaces agree, and exactly where they do not.                *)

\* ArgSpec, ArgValue, and the JSON a caller may send. A flag is of type Bool.
ScalarValues ==
  [type : {"Bool", "Str", "Int", "Float", "Enum", "Count"}, token : Tokens, items : {{}}]
ArgSet ==
  {a \in [name : STRING, long : STRING, kind : {"Flag", "Option", "Positional"},
          card : {"Required", "Optional", "Repeated"}, type : {"Bool", "String", "Int", "Float", "Enum"},
          default : {NoValue} \cup ScalarValues \cup [type : {"List"}, token : {"none"}, items : SUBSET ScalarValues],
          min_occurs : Nat, min : Int, max : Int, pattern : BOOLEAN, conflicts : {{}}, requires : {{}}] :
     a.kind = "Flag" => a.type = "Bool"}
JsonScalars ==
  [kind : {"string"}, token : Tokens, items : {<<>>}]
  \cup [kind : {"number"}, token : Numeric, items : {<<>>}]
  \cup [kind : {"boolean"}, token : {"true", "false"}, items : {<<>>}]
NullsAndObjects == [kind : {"null", "object"}, token : {"none"}, items : {<<>>}]
JsonSet ==
  {NotGiven} \cup JsonScalars \cup NullsAndObjects
  \cup [kind : {"array"}, token : {"none"}, items : Seq(JsonScalars \cup NullsAndObjects)]

CONSTANTS
  ArgSpecs,      \* the arguments that are compared
  JsonValues,    \* what a caller sends for them
  CommandLines   \* the tokens of one argument on a command line

ASSUME ArgsAssumption ==
  ArgSpecs \subseteq ArgSet /\ JsonValues \subseteq JsonSet /\ CommandLines \subseteq Seq(Tokens)

\* The name that is published is the one that is looked up.
Found(a) == Long(a) = a.name /\ a.name # "_positional"

\* The JSON scalar is converted to a value of the type.
Typed(j, type) ==
  \/ j.kind = "boolean" /\ type = "Bool"
  \/ j.kind = "string" /\ type = "String"
  \/ j.kind = "number" /\ type = "Int" /\ j.token \in Fits
  \/ j.kind = "number" /\ type = "Float" /\ j.token \notin Fits

\* The schema allows the value and the tool refuses it: every string of an
\* enumeration; 1.0, or an integer above an i64, for an integer; an integer
\* for a float; an array of strings for anything else that repeats; a count.
Withheld(a, j) ==
  /\ j # NotGiven
  /\ \/ a.card = "Repeated" /\ (a.kind = "Flag" \/ (a.type # "String" /\ j.items # <<>>))
     \/ /\ a.card # "Repeated"
        /\ \/ a.type = "Enum"
           \/ a.type = "Int" /\ j.token \notin Fits
           \/ a.type = "Float" /\ j.token \in Fits

\* The schema does not allow the value and the tool takes it: null, an object
\* or nothing where validation does not miss the argument; an array where each
\* item that is something has the type, whatever the cardinality, the bounds
\* and the pattern; one value for an argument that repeats.
Unpublished(a, j) ==
  \/ j.kind \in {"absent", "null", "object"} /\ a.card # "Required"
  \/ j.kind = "array" /\ \A i \in 1 .. Len(j.items) :
       j.items[i].kind \in {"null", "object"} \/ Typed(j.items[i], a.type)
  \/ /\ a.card = "Repeated" /\ j.kind \in {"string", "number", "boolean"} /\ Typed(j, a.type)
     /\ j.kind = "number" => Number(j.token) \in a.min .. a.max
     /\ j.kind = "string" /\ a.pattern => Matches(j.token)

\* A call through MCP is accepted when the published schema allows its
\* argument, but for what is withheld, and refused when it does not, but for
\* what is unpublished. An argument published by another name than its own is
\* never found: the call is accepted unless the argument is required.
SchemaExact(a, j) ==
  McpAccepts(a, j) <=>
    IF ~Found(a) THEN a.card # "Required"
    ELSE IF SchemaAllows(to_json_schema_property(a), a, j) THEN ~Withheld(a, j)
    ELSE Unpublished(a, j)

\* The JSON a caller writes for what a command line gives one argument; a
\* flag that is counted has a number.
JsonScalar(type, token) ==
  CASE type = "Bool" /\ token \in {"true", "1"} -> Json("boolean", "true")
    [] type = "Bool" /\ token \in {"false", "0"} -> Json("boolean", "false")
    [] type \in {"Int", "Float"} /\ token \in Numeric -> Json("number", token)
    [] OTHER -> Json("string", token)
JsonFor(a, given) ==
  CASE given = <<>> -> NotGiven
    [] given # <<>> /\ a.kind = "Flag" ->
         IF a.card = "Repeated" THEN Json("number", "1") ELSE Json("boolean", "true")
    [] given # <<>> /\ a.kind # "Flag" ->
         IF a.card = "Repeated"
         THEN [kind |-> "array", token |-> "none",
               items |-> [i \in 1 .. Len(given) |-> JsonScalar(a.type, given[i])]]
         ELSE JsonScalar(a.type, given[1])

\* MCP refuses what is given: an enumeration, a counted flag, a float without
\* a fraction or NaN.
OnlyOnTheLine(a, given) ==
  /\ given # <<>>
  /\ \/ a.type = "Enum"
     \/ a.kind = "Flag" /\ a.card = "Repeated"
     \/ a.type = "Float" /\ \E i \in 1 .. Len(given) : given[i] \in Fits \cup {"NaN"}

\* The command line refuses its own default when nothing is given; MCP does
\* not know it.
OnlyByMcp(a, given) ==
  given = <<>> /\ a.default # NoValue /\ validate_typed_args({a}, [n \in {a.name} |-> a.default]) # {}

\* The same value is accepted from the command line and from JSON, or from
\* neither, but for these.
SurfacesAlike(a, given) ==
  LET cli == CliAccepts(a, given)
      mcp == McpAccepts(a, JsonFor(a, given))
  IN Found(a) /\ (a.card = "Repeated" \/ Len(given) <= 1) =>
       /\ OnlyOnTheLine(a, given) => ~mcp
       /\ OnlyByMcp(a, given) => ~cli
       /\ ~OnlyOnTheLine(a, given) /\ ~OnlyByMcp(a, given) => (cli <=> mcp)
=============================================================================
