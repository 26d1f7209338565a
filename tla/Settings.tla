------------------------------ MODULE Settings ------------------------------
(* The configuration: how its sources become one and what a form shows of    *)
(* its file (packages/config manager.ts, merge.ts, source.ts, env.ts;        *)
(* apps/runtime config/loader.ts, manager.ts, editor.ts; packages/user-config *)
(* profile-store.ts).  Saving has the trees and how the file is edited.       *)
(*                                                                         *)
(* What a leaf holds is a tuple, of which the loader tells apart relative      *)
(* paths and placeholders.                                                  *)
EXTENDS Saving, FiniteSets, TLC, Folds

Mask == <<"[REDACTED]">>

\* deepMerge: objects merge, everything else replaces
RECURSIVE Merged(_, _)
Merged(base, over) ==
  IF over.kind # "object" THEN over
  ELSE LET old == IF base.kind = "object" THEN base.fields ELSE <<>>
       IN  Object([k \in DOMAIN over.fields |-> Merged(Field(base, k), over.fields[k])] @@ old)

RECURSIVE Leaves(_)
Leaves(tree) ==
  CASE tree.kind = "leaf" -> {[path |-> <<>>, value |-> tree.value]}
    [] tree.kind = "none" -> {}
    [] tree.kind = "object" -> UNION {{[l EXCEPT !.path = <<k>> \o @] : l \in Leaves(tree.fields[k])} :
                                        k \in DOMAIN tree.fields}
    [] tree.kind = "list" -> UNION {{[l EXCEPT !.path = <<"#">> \o @] : l \in Leaves(tree.items[i])} :
                                      i \in DOMAIN tree.items}

\* expandEnv: a placeholder <<"env", name, fallback>> is the variable, then the fallback
Placeholder(v) == Len(v) = 3 /\ v[1] = "env"
Filled(v, env) ==
  IF ~Placeholder(v) THEN v ELSE IF v[2] \in DOMAIN env THEN <<env[v[2]]>> ELSE <<v[3]>>
Expandable(tree, env) ==
  \A l \in Leaves(tree) : Placeholder(l.value) => l.value[2] \in DOMAIN env \/ l.value[3] # "none"

\* a relative path <<"relative", p>> of a directory
ResolvedAt(v, dir) == IF Len(v) = 2 /\ v[1] = "relative" THEN <<dir, v[2]>> ELSE v

\* the tree with its placeholders filled and its paths resolved
RECURSIVE Spelled(_, _, _)
Spelled(tree, env, dir) ==
  CASE tree.kind = "leaf" -> Leaf(ResolvedAt(Filled(tree.value, env), dir))
    [] tree.kind = "object" -> Object([k \in DOMAIN tree.fields |-> Spelled(tree.fields[k], env, dir)])
    [] tree.kind = "list" -> Items([i \in DOMAIN tree.items |-> Spelled(tree.items[i], env, dir)])
    [] OTHER -> tree

(* ------------------------- one module's value --------------------------- *)

\* a definition is [id, defaults, version (0: none), replaces, bad]; a source is
\* [id, modules]; sources come in the order of their priority

\* #compute: what a source gives a module; no module of this program has a
\* version, so one that states a version is refused
Candidate(definition, value) ==
  IF Field(value, "$version") = Missing THEN value
  ELSE IF value.fields["$version"].value = <<definition.version>> /\ definition.version > 0
         THEN Object(Without(value.fields, "$version"))
         ELSE Missing

Absorb(definition, value, given) ==
  LET candidate == Candidate(definition, given)
  IN  IF value = Missing \/ candidate = Missing THEN Missing
      ELSE IF definition.replaces THEN candidate ELSE Merged(value, candidate)

\* defaults, the sources that name the module, the override; Missing: refused
Computed(definition, sources, override) ==
  LET given == SelectSeq([i \in DOMAIN sources |-> Field(sources[i].modules, definition.id)],
                         LAMBDA v : v # Missing)
      merged == FoldLeft(LAMBDA value, v : Absorb(definition, value, v), definition.defaults, given)
      value == IF override = Missing \/ merged = Missing THEN merged ELSE Merged(merged, override)
  IN  IF \E l \in Leaves(value) : l.value \in definition.bad THEN Missing ELSE value

(* -------------------------- loading the whole --------------------------- *)

\* EnvConfigSource: each variable sets the value its path names; a path through
\* a value is a conflict
PutVariable(tree, variable) ==
  LET above == {At(tree, SubSeq(variable.path, 1, n)) : n \in 1..Len(variable.path) - 1}
      RECURSIVE Put(_, _)
      Put(node, path) ==
        IF path = <<>> THEN variable.value
        ELSE Object((Head(path) :> Put(Field(node, Head(path)), Tail(path)))
                      @@ (IF node.kind = "object" THEN node.fields ELSE <<>>))
  IN  IF tree = Missing \/ Len(variable.path) < 2 \/ UnsafeKeys \intersect Range(variable.path) # {}
           \/ \E node \in above : node.kind \in {"leaf", "list"}
        THEN Missing ELSE Put(tree, variable.path)

FromEnvironment(variables) == FoldLeft(PutVariable, Empty, variables)

\* normalizeSourcePaths: a relative path in a file is one of the directory of
\* that file, in the fields that are known to be paths
PathFields == {<<"runtime", "dataDir">>, <<"locale", "catalogPath">>, <<"prompts", "catalogPath">>,
               <<"presentation", "profilePath">>, <<"capabilities", "skillsDirectory">>}
Placed(modules, dir) ==
  LET placed(tree, p) ==
        IF At(tree, p).kind # "leaf" THEN tree
        ELSE Merged(tree, Object(p[1] :> Object(p[2] :> Leaf(ResolvedAt(At(tree, p).value, dir)))))
  IN  FoldLeft(placed, modules, SetToSeq(PathFields))

\* the source of a file: [tree, dir], or Missing where there is no such file
FileModules(file, env) ==
  IF file.tree.kind # "object" \/ ~Expandable(file.tree, env) THEN Missing
  ELSE Placed(Spelled(file.tree, env, "relative"), file.dir)

\* loadConfigFile: framework, deployment, workspace, user, environment, command
\* line; the paths that are still relative belong to the deployment file
LoadedSources(input) ==
  <<input.framework, FileModules(input.deployment, input.env)>>
    \o [i \in DOMAIN input.files |-> FileModules(input.files[i], input.env)]
    \o <<FromEnvironment(input.variables), input.cli>>

\* validation across modules: a hosted runtime has no onebot11 channel
Hosted(config) ==
  /\ At(config, <<"runtime", "mode">>) = Leaf(<<"hosted">>)
  /\ \E c \in DOMAIN Field(config, "channels").fields :
        /\ At(config, <<"channels", c, "adapter">>) = Leaf(<<"onebot11">>)
        /\ At(config, <<"channels", c, "enabled">>) = Leaf(<<"true">>)

LoadedConfig(definitions, input) ==
  LET modules == LoadedSources(input)
      sources == [i \in DOMAIN modules |-> [modules |-> modules[i]]]
      config == Object([id \in {d.id : d \in definitions} |->
                          Computed(CHOOSE d \in definitions : d.id = id, sources, Missing)])
      whole == /\ \A i \in DOMAIN modules : modules[i] # Missing
               /\ \A id \in DOMAIN config.fields : config.fields[id] # Missing
  IN  IF ~whole THEN Missing
      ELSE IF Field(config, "channels").kind = "object" /\ Hosted(config) THEN Missing
      ELSE Spelled(config, <<>>, input.deployment.dir)

\* validateReloadConfig: what a reload cannot change
RestartFields == {<<"server", "host">>, <<"server", "port">>, <<"admin", "enabled">>, <<"admin", "host">>,
                  <<"admin", "port">>, <<"admin", "logBufferSize">>, <<"runtime", "logLevel">>,
                  <<"files", "maxNativeUploadBytes">>, <<"files", "mounts">>}
RestartNeeded(current, next) == {p \in RestartFields : At(current, p) # At(next, p)}

(* -------------------------- what the form shows ------------------------- *)

SecretKeys == {"apiKey", "token", "password", "headers", "env", "extraBody"}

\* maskSecrets: everything below a sensitive key
RECURSIVE Masked(_, _)
Masked(tree, hidden) ==
  CASE tree.kind = "leaf" -> IF hidden THEN Leaf(Mask) ELSE tree
    [] tree.kind = "object" -> Object([k \in DOMAIN tree.fields |-> Masked(tree.fields[k], hidden \/ k \in SecretKeys)])
    [] tree.kind = "list" -> Items([i \in DOMAIN tree.items |-> Masked(tree.items[i], hidden)])
    [] OTHER -> tree

\* a value that holds the mask is never written back
MaskShown(tree) == \E l \in Leaves(tree) : l.value = Mask

(* ------------------------------ connections ----------------------------- *)

Undefined == "undefined"
Given(seq) == LET said == SelectSeq(seq, LAMBDA v : v # Undefined) IN IF said = <<>> THEN Undefined ELSE Head(said)

\* parseProfileConfig, connectProfile, useProfile: a store is [current, profiles]
SoundStore(store) == store.current = Undefined \/ store.current \in DOMAIN store.profiles
Connected(store, name, profile) ==
  [current |-> name, profiles |-> (name :> profile) @@ store.profiles]
Switched(store, name) == IF name \in DOMAIN store.profiles THEN [store EXCEPT !.current = name] ELSE Missing

\* resolveRuntimeConnection
Connection(store, options, env) ==
  LET wanted == Given(<<options.profile,
                        IF options.endpoint = Undefined /\ env.endpoint = Undefined THEN store.current ELSE Undefined>>)
      profile == IF wanted \in DOMAIN store.profiles THEN store.profiles[wanted]
                 ELSE [endpoint |-> Undefined, token |-> Undefined]
  IN  IF wanted # Undefined /\ wanted \notin DOMAIN store.profiles THEN Missing
      ELSE [endpoint |-> Given(<<options.endpoint, profile.endpoint, env.endpoint, "default">>),
            token |-> Given(<<options.token, env.token, profile.token>>), profile |-> wanted]
=============================================================================
