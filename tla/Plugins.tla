------------------------------ MODULE Plugins -------------------------------
(***************************************************************************)
(* PluginRegistryManager: the registry file, the configuration that was    *)
(* read from it and changed since, and the manifests that are loaded.      *)
(***************************************************************************)
EXTENDS Naturals, FiniteSets

CONSTANT Plugs          \* plugin ids

\* Where an entry's manifest_path leads: to a manifest below the registry's
\* directory, to one that cannot be read, or out of the directory.
Manifests == {"first", "second", "broken", "outside"}

VARIABLES saved, config, loaded, reloaded

plugins == <<saved, config, loaded, reloaded>>

Entry(path, enabled) == [path |-> path, enabled |-> enabled]
Configs0 == UNION {[ids -> [path : {"first", "broken", "outside"}, enabled : BOOLEAN]] : ids \in SUBSET Plugs}
Nothing == [id \in {} |-> "first"]
Upd(f, id, v) == [i \in DOMAIN f \cup {id} |-> IF i = id THEN v ELSE f[i]]
Del(f, id) == [i \in DOMAIN f \ {id} |-> f[i]]

\* There may be no file yet.
PluginsInit == saved \in {<<>>} \cup {<<c>> : c \in Configs0} /\ config = Nothing /\ loaded = Nothing /\ reloaded = FALSE

validate_manifest_path(path) == path # "outside"
Loads(path) == validate_manifest_path(path) /\ path # "broken"

(* The enabled plugins' manifests are added to those that are loaded. *)
load ==
  LET read == IF saved = <<>> THEN config ELSE saved[1]
      new == {id \in DOMAIN read : read[id].enabled /\ Loads(read[id].path)}
  IN /\ config' = read
     /\ loaded' = [id \in DOMAIN loaded \cup new |-> IF id \in new THEN read[id].path ELSE loaded[id]]
     /\ reloaded' = (reloaded \/ config # Nothing)
     /\ UNCHANGED saved

save == saved' = <<config>> /\ UNCHANGED <<config, loaded, reloaded>>

(* The entry stays when its manifest cannot be loaded. *)
register_plugin(id, path) ==
  /\ config' = Upd(config, id, Entry(path, TRUE))
  /\ loaded' = IF Loads(path) THEN Upd(loaded, id, path) ELSE loaded
  /\ UNCHANGED <<saved, reloaded>>

unregister_plugin(id) ==
  /\ loaded' = Del(loaded, id) /\ config' = Del(config, id)
  /\ UNCHANGED <<saved, reloaded>>

set_plugin_enabled(id, enabled) ==
  /\ id \in DOMAIN config
  /\ config' = [config EXCEPT ![id].enabled = enabled]
  /\ loaded' = IF ~enabled THEN Del(loaded, id)
               ELSE IF Loads(config[id].path) THEN Upd(loaded, id, config[id].path) ELSE loaded
  /\ UNCHANGED <<saved, reloaded>>

PluginsNext ==
  \/ load \/ save
  \/ \E id \in Plugs :
        \/ \E path \in Manifests : register_plugin(id, path)
        \/ unregister_plugin(id)
        \/ \E enabled \in BOOLEAN : set_plugin_enabled(id, enabled)

(* A plugin whose manifest is loaded is registered and enabled, through    *)
(* every sequence of registrations, failed ones included, as long as the   *)
(* file is not loaded again over changes; and no manifest outside the      *)
(* registry's directory is ever loaded.                                    *)
LoadedIsEnabled ==
  /\ ~reloaded => \A id \in DOMAIN loaded : id \in DOMAIN config /\ config[id].enabled
  /\ \A id \in DOMAIN loaded : loaded[id] \in {"first", "second"}
=============================================================================
