------------------------------- MODULE MCApp -------------------------------
(* The names that the framework cares about, each taken by the app in one  *)
(* way or another, and two that it does not.                               *)
EXTENDS App

\* A variable of the app's own with two descriptions, one with none, and the
\* names that chat and telemetry use in the app's words.
MCVariables ==
  {[name |-> "HOME", text |-> "own"], [name |-> "HOME", text |-> "other"], [name |-> "HOME", text |-> "blank"],
   [name |-> "AIKIT_MODEL", text |-> "own"], [name |-> "DO_NOT_TRACK", text |-> "own"]}

MCCommandsAt ==
  LET plain == {Cmd("app", {})}
      declaring(e) == [Cmd("app", {}) EXCEPT !.env = {e}]
  IN [p \in AppPaths |->
        CASE p = <<"a">> ->
               {Cmd("app", {}), Cmd("app", {<<"x">>}), Cmd("app", {<<"chat">>}),
                Cmd("app", {<<"version">>}), Cmd("app", {<<"mcp", "serve">>}),
                Cmd("app", {<<"completions">>})}
          [] p = <<"a", "x">> ->
               {Cmd("app", {<<"version">>}), [Cmd("app", {}) EXCEPT !.needs = TRUE]}
               \cup {declaring(e) : e \in {v \in MCVariables : v.text = "other" \/ v.name = "AIKIT_MODEL"}}
          [] p = <<"x">> -> {[Cmd("app", {}) EXCEPT !.hidden = TRUE],
                             [Cmd("app", {<<"a">>}) EXCEPT !.category = TRUE]}
          [] p = <<"version">> -> {declaring([name |-> "HOME", text |-> "own"])}
          [] p = <<"x", "spec", "all">> -> {Cmd("app", {<<"x", "spec">>})}
          [] OTHER -> plain]
MCAppPaths ==
  {<<"a">>, <<"a", "x">>, <<"x">>, <<"a", "version">>, <<"version">>, <<"chat">>, <<"chat", "a">>,
   <<"mcp">>, <<"mcp", "serve">>, <<"auth">>, <<"auth", "login">>, <<"config">>, <<"telemetry">>,
   <<"x", "spec">>, <<"x", "spec", "all">>, <<"completion">>, <<"doctor">>}
MCArgvs ==
  [words : {<<"a">>, <<"a", "x">>, <<"x">>, <<"a", "version">>, <<"version">>, <<"chat">>,
            <<"chat", "a">>, <<"mcp", "serve">>, <<"auth", "login">>, <<"x", "spec">>},
   flag : {"none"}]
  \cup [words : {<<>>, <<"version">>}, flag : {"none", "--help", "--version", "--bad"}]
MCSegments == STRING

\* Every kind, cardinality and type of argument, published by its own name or
\* by another, with and without bounds, a pattern, a minimum of two values and
\* a default that its own validation takes or refuses.
MCArgSpecs ==
  {a \in [name : {"n", "_positional"}, long : {"none", "l"}, kind : {"Flag", "Option", "Positional"},
          card : {"Required", "Optional", "Repeated"}, type : {"Bool", "String", "Int", "Float", "Enum"},
          default : {NoValue, Value("Int", "9"), Value("Str", "zz")}, min_occurs : {0, 2},
          min : {-100, 2}, max : {3, 100}, pattern : BOOLEAN, conflicts : {{}}, requires : {{}}] :
     /\ a.kind = "Flag" => a.type = "Bool"
     /\ a.min = -100 <=> a.max = 100
     /\ a.type \notin {"Int", "Float"} => a.min = -100
     /\ a.pattern => a.type = "String"}
\* Every scalar, and arrays of up to two items.
MCJsonValues ==
  LET items == NullsAndObjects \cup {Json("string", "red"), Json("string", "zz"), Json("boolean", "true")}
               \cup [kind : {"number"}, token : {"1", "1.0", "1.5", "9"}, items : {<<>>}]
  IN {NotGiven} \cup JsonScalars \cup NullsAndObjects
     \cup [kind : {"array"}, token : {"none"}, items : UNION {[1 .. k -> items] : k \in 0 .. 2}]
MCCommandLines == UNION {[1 .. k -> Tokens] : k \in 0 .. 2}
MCNamespaces == {<<"x">>, <<"telemetry">>, <<"mcp", "install">>}
=============================================================================
