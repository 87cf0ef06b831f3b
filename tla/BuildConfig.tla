----------------------------- MODULE BuildConfig ----------------------------
(***************************************************************************)
(* How a build finds Lean (leo3-build-config, the build scripts of leo3-ffi *)
(* and leo3): explicit sources, host discovery, the configuration that      *)
(* leo3-ffi hands to the crates that depend on it, and what Cargo watches   *)
(* to run a script again.                                                   *)
(*                                                                         *)
(* Cargo is external.  It runs a script again when a variable or a path the *)
(* script named has changed since it began, and the scripts of the crates   *)
(* that depend on leo3-ffi after that of leo3-ffi.  Installations and tools *)
(* change whenever they like, also between two steps of a build: the first  *)
(* call of lake or elan may itself install a toolchain.                     *)
(***************************************************************************)
EXTENDS Naturals, FiniteSets

CONSTANTS
  Homes,          \* directories that may hold a Lean installation
  Installations,  \* what a directory may hold: [parts, version, allocator]
  Versions,       \* Lean versions: [major, minor]
  ConfigTexts,    \* what the configuration file may say: values of some of Keys
  Nothing,        \* an unset variable, an absent directory or file, no answer
  Invalid,        \* a text that does not parse
  NeverBuilt,     \* the output of a script that has not run
  MaxChanges      \* bound: changes around the builds

Keys == {"lean_home", "lean_lib_dir", "lean_include_dir", "version", "shared", "allocator",
         "pointer_width"}

ASSUME BuildConfigAssumption ==
  /\ {Nothing, NeverBuilt, Invalid} \cap (Homes \cup Versions \cup Installations \cup ConfigTexts) = {}
  /\ Cardinality({Nothing, NeverBuilt, Invalid}) = 3
  /\ \A v \in Versions : v.major \in Nat /\ v.minor \in Nat
  /\ \A i \in Installations : i.version \in Versions
  /\ MaxChanges \in Nat

VARIABLES
  env,      \* the environment variables a build is started with
  disk,     \* what the directories hold
  file,     \* the configuration file
  tools,    \* the installation that lake, elan and the PATH name
  stage,    \* where the build is
  todo,     \* crates whose scripts are still to run in this build
  cache,    \* LEAN_CONFIG of the script of leo3-ffi
  exported, \* DEP_LEAN4_LEO3_CONFIG
  out,      \* what the last script of each crate told Cargo
  watched,  \* what Cargo watches for each crate
  touched,  \* what has changed since the last script of the crate began
  changes   \* changes so far

surroundings == <<env, disk, file, tools, changes>>
results == <<out, watched, touched>>
buildVars == <<surroundings, stage, todo, cache, exported, results>>

Dependents == {"leo3", "user"}
Crates == Dependents \cup {"leo3-ffi"}
Tools == {"lake", "elan", "path"}

\* The variables the scripts inspect, with the values they may have.
Values ==
  [LEO3_NO_LEAN |-> {"1"}, LEO3_CONFIG_FILE |-> {"file"}, LEO3_CROSS_LIB_DIR |-> Homes,
   LEO3_CROSS_LEAN_VERSION |-> Versions \cup {Invalid}, LEAN_HOME |-> Homes,
   LEAN_INCLUDE_DIR |-> Homes, LEAN_LIB_DIR |-> Homes]

IsSet(v) == env[v] # Nothing

-----------------------------------------------------------------------------
(* Configurations: texts that have a value for every key.                  *)

Has(home, part) == disk[home] # Nothing /\ part \in disk[home].parts

\* detect_allocator_from_include_dir_best_effort
BestEffortAllocator(include) ==
  IF Has(include, "config.h") THEN disk[include].allocator ELSE "system"

Config(home, lib, include, version, allocator) ==
  [lean_home |-> home, lean_lib_dir |-> lib, lean_include_dir |-> include, version |-> version,
   shared |-> Has(lib, "libleanshared"), allocator |-> allocator, pointer_width |-> "none"]

\* A text without one of the keys or with a version that does not parse is an
\* error; the allocator may be missing.
from_reader(text) ==
  IF Keys \ DOMAIN text \subseteq {"allocator"} /\ text.version # Invalid
  THEN [k \in Keys |-> IF k \in DOMAIN text THEN text[k]
                       ELSE BestEffortAllocator(text.lean_include_dir)]
  ELSE Nothing

to_writer(config) == [k \in Keys |-> config[k]]

\* The overrides apply to every installation that is looked at.
validate_lean_installation(home) ==
  LET include == IF IsSet("LEAN_INCLUDE_DIR") THEN env["LEAN_INCLUDE_DIR"] ELSE home
      lib == IF IsSet("LEAN_LIB_DIR") THEN env["LEAN_LIB_DIR"] ELSE home
  IN IF /\ disk[home] # Nothing
        /\ Has(include, "include") /\ Has(lib, "lib") /\ Has(home, "lean")
        /\ disk[home].version.major = 4    \* what the output of lean --version is searched for
        /\ Has(include, "config.h")
     THEN Config(home, lib, include, disk[home].version, disk[include].allocator)
     ELSE Nothing

\* Of a cross build only the library directory has to exist.
detect_from_cross_compile ==
  LET lib == env["LEO3_CROSS_LIB_DIR"]
      version == env["LEO3_CROSS_LEAN_VERSION"]
  IN IF lib # Nothing /\ version \in Versions /\ Has(lib, "lib")
     THEN Config(lib, lib, lib, version, BestEffortAllocator(lib))
     ELSE Nothing

-----------------------------------------------------------------------------
(* Resolution: a source and its configuration, Nothing if it failed.       *)

Resolved(source, config) == [source |-> source, config |-> config]

DetectFrom(tool) ==
  IF tools[tool] = Nothing THEN Nothing ELSE validate_lean_installation(tools[tool])

Detect ==
  IF DetectFrom("lake") # Nothing THEN Resolved("lake", DetectFrom("lake"))
  ELSE IF DetectFrom("elan") # Nothing THEN Resolved("elan", DetectFrom("elan"))
  ELSE Resolved("path", DetectFrom("path"))

CrossIsSet == IsSet("LEO3_CROSS_LIB_DIR") \/ IsSet("LEO3_CROSS_LEAN_VERSION")

\* Faulty variant: a LEAN_HOME that cannot be used is passed over.
resolve_host_falling_through ==
  IF CrossIsSet THEN Resolved("cross", detect_from_cross_compile)
  ELSE IF IsSet("LEAN_HOME") /\ validate_lean_installation(env["LEAN_HOME"]) # Nothing
  THEN Resolved("LEAN_HOME", validate_lean_installation(env["LEAN_HOME"]))
  ELSE Detect

resolve_host_lean_config ==
  IF CrossIsSet THEN Resolved("cross", detect_from_cross_compile)
  ELSE IF IsSet("LEAN_HOME")
  THEN Resolved("LEAN_HOME", validate_lean_installation(env["LEAN_HOME"]))
  ELSE Detect

resolve_user_or_detect_config ==
  IF IsSet("LEO3_CONFIG_FILE")
  THEN Resolved("file", IF file = Nothing THEN Nothing ELSE from_reader(file))
  ELSE resolve_host_lean_config

resolve_dep_lean_config ==
  Resolved("dep", IF exported = Nothing THEN Nothing ELSE from_reader(exported))

resolve_lean_config ==
  IF exported # Nothing THEN resolve_dep_lean_config ELSE resolve_user_or_detect_config

-----------------------------------------------------------------------------
(* What a script tells Cargo.                                              *)

lean_4_cfg_minors(version) == IF version.major = 4 THEN 0..version.minor ELSE {}
emit_version_cfgs(config) == lean_4_cfg_minors(config.version)
emit_allocator_cfgs(config) ==
  CASE config.allocator = "small" -> {"lean_small_allocator"}
    [] config.allocator = "mimalloc" -> {"lean_mimalloc"}
    [] config.allocator = "system" -> {}

\* Where the linker looks for Lean; which of the libraries there it is given is left
\* out, as are the flags of the target.
emit_link_config(config) == [lib |-> config.lean_lib_dir, include |-> config.lean_include_dir]
emit_runtime_envs(config) == config.lean_lib_dir

emit_resolved_config(config) ==
  [link |-> emit_link_config(config), lean_4 |-> emit_version_cfgs(config),
   allocator |-> emit_allocator_cfgs(config), runtime |-> emit_runtime_envs(config)]

\* PATH and ELAN_HOME are watched as well, but not what they lead to.
rerun_if_env_changed == DOMAIN Values

rerun_if_changed(resolved) ==
  {resolved.config.lean_home} \cup IF resolved.source = "file" THEN {"file"} ELSE {}

\* The script of crate c begins, with what it resolves unless there is to be no Lean.
RunsScript(c, resolved) ==
  /\ touched' = [touched EXCEPT ![c] = {}]
  /\ IF IsSet("LEO3_NO_LEAN") \/ resolved.config = Nothing
     THEN /\ out' = [out EXCEPT ![c] = Nothing]
          /\ watched' = [watched EXCEPT ![c] = rerun_if_env_changed]
     ELSE /\ out' = [out EXCEPT ![c] = emit_resolved_config(resolved.config)]
          /\ watched' = [watched EXCEPT ![c] = rerun_if_env_changed \cup rerun_if_changed(resolved)]

\* Cargo has to run the script of c.
Dirty(c) == out[c] = NeverBuilt \/ touched[c] \cap watched[c] # {}

\* use_leo3_cfgs of leo3-ffi, which no crate hands a configuration to
FfiConfigures ==
  /\ stage = "idle" /\ Dirty("leo3-ffi")
  /\ RunsScript("leo3-ffi", resolve_user_or_detect_config)
  /\ cache' = IF IsSet("LEO3_NO_LEAN") THEN Nothing ELSE resolve_user_or_detect_config.config
  /\ exported' = Nothing
  /\ stage' = "export" /\ todo' = Dependents
  /\ UNCHANGED surroundings

\* Faulty variant: the configuration is resolved once more for the export.
FfiExportsAnew ==
  /\ stage = "export"
  /\ exported' = IF IsSet("LEO3_NO_LEAN") \/ resolve_user_or_detect_config.config = Nothing
                 THEN Nothing ELSE to_writer(resolve_user_or_detect_config.config)
  /\ cache' = Nothing
  /\ stage' = "dependents"
  /\ UNCHANGED <<surroundings, todo, results>>

\* resolve_lean_config of leo3-ffi: the cached configuration.  A failure is not
\* cached, and the configuration is resolved once more.
FfiExports ==
  LET config == IF cache # Nothing THEN cache ELSE resolve_user_or_detect_config.config
  IN /\ stage = "export"
     /\ exported' = IF IsSet("LEO3_NO_LEAN") \/ config = Nothing THEN Nothing ELSE to_writer(config)
     /\ cache' = Nothing
     /\ stage' = "dependents"
     /\ UNCHANGED <<surroundings, todo, results>>

\* A build that has nothing to do for leo3-ffi.
FfiIsFresh ==
  /\ stage = "idle" /\ ~Dirty("leo3-ffi")
  /\ \E d \in Dependents : Dirty(d)
  /\ todo' = {d \in Dependents : Dirty(d)}
  /\ stage' = "dependents"
  /\ UNCHANGED <<surroundings, cache, exported, results>>

\* use_upstream_leo3_cfgs of leo3, use_leo3_cfgs of another crate
DependentConfigures(d) ==
  /\ stage = "dependents" /\ d \in todo
  /\ RunsScript(d, IF d = "leo3" THEN resolve_dep_lean_config ELSE resolve_lean_config)
  /\ todo' = todo \ {d}
  /\ stage' = IF todo = {d} THEN "idle" ELSE stage
  /\ UNCHANGED <<surroundings, cache, exported>>

-----------------------------------------------------------------------------
(* The surroundings.                                                       *)

Touches(input) ==
  /\ changes < MaxChanges
  /\ changes' = changes + 1
  /\ touched' = [c \in Crates |-> touched[c] \cup {input}]
  /\ UNCHANGED <<stage, todo, cache, exported, out, watched>>

\* The environment of a build that runs does not change.
SetVariable(v) ==
  /\ stage = "idle"
  /\ \E x \in Values[v] \cup {Nothing} : x # env[v] /\ env' = [env EXCEPT ![v] = x]
  /\ Touches(v)
  /\ UNCHANGED <<disk, file, tools>>

Install(home) ==
  /\ \E i \in Installations \cup {Nothing} : i # disk[home] /\ disk' = [disk EXCEPT ![home] = i]
  /\ Touches(home)
  /\ UNCHANGED <<env, file, tools>>

WriteFile ==
  /\ \E t \in ConfigTexts \cup {Nothing} : t # file /\ file' = t
  /\ Touches("file")
  /\ UNCHANGED <<env, disk, tools>>

\* Another toolchain is selected, which no script has Cargo watch.
SelectToolchain(tool) ==
  /\ \E h \in Homes \cup {Nothing} : h # tools[tool] /\ tools' = [tools EXCEPT ![tool] = h]
  /\ Touches(tool)
  /\ UNCHANGED <<env, disk, file>>

-----------------------------------------------------------------------------
BuildInit ==
  /\ env = [v \in DOMAIN Values |-> Nothing]
  /\ disk \in [Homes -> Installations \cup {Nothing}]
  /\ file \in ConfigTexts \cup {Nothing}
  /\ tools \in [Tools -> Homes \cup {Nothing}]
  /\ stage = "idle" /\ todo = {} /\ cache = Nothing /\ exported = Nothing
  /\ out = [c \in Crates |-> NeverBuilt]
  /\ watched = [c \in Crates |-> {}]
  /\ touched = [c \in Crates |-> {}]
  /\ changes = 0

\* The surroundings keep their types, and a script runs only within a build.
BuildTypeOK ==
  /\ \A v \in DOMAIN Values : env[v] \in Values[v] \cup {Nothing}
  /\ DOMAIN env = DOMAIN Values
  /\ disk \in [Homes -> Installations \cup {Nothing}]
  /\ file \in ConfigTexts \cup {Nothing}
  /\ tools \in [Tools -> Homes \cup {Nothing}]
  /\ stage \in {"idle", "export", "dependents"}
  /\ todo \subseteq Dependents /\ (stage = "idle" => todo = {})
  /\ DOMAIN out = Crates
  /\ changes \in 0..MaxChanges

BuildStep ==
  \/ FfiConfigures \/ FfiExports \/ FfiIsFresh
  \/ \E d \in Dependents : DependentConfigures(d)

BuildNext ==
  \/ BuildStep
  \/ \E v \in DOMAIN Values : SetVariable(v)
  \/ \E h \in Homes : Install(h)
  \/ WriteFile
  \/ \E t \in Tools : SelectToolchain(t)

BuildSpec == BuildInit /\ [][BuildNext]_buildVars

-----------------------------------------------------------------------------
Configured(c) == out[c] \notin {NeverBuilt, Nothing}

\* Crates that are configured at the end of a build are configured alike: for the
\* same version, with the same allocator, against the same libraries, whatever is
\* installed while the build runs (leo3-build-config/src/lib.rs:84-85).
CfgsAgree ==
  stage = "idle" =>
    \A d \in Dependents : Configured("leo3-ffi") /\ Configured(d) => out[d] = out["leo3-ffi"]

\* The configuration of a build that Cargo has nothing to do for is the one the
\* explicit source of the highest priority stands for now: it is never that of a
\* source of lower priority, nor what the source said at an earlier build
\* (leo3-build-config/src/lib.rs:48-55).
ExplicitSourceDecides ==
  LET built == out["leo3-ffi"]
      Is(version, lib) == built.lean_4 = lean_4_cfg_minors(version) /\ built.link.lib = lib /\ built.runtime = lib
  IN stage = "idle" /\ ~Dirty("leo3-ffi") /\ Configured("leo3-ffi") =>
       /\ ~IsSet("LEO3_NO_LEAN")
       /\ IF IsSet("LEO3_CONFIG_FILE")
          THEN file # Nothing /\ Is(file.version, file.lean_lib_dir)
          ELSE IF CrossIsSet
          THEN Is(env["LEO3_CROSS_LEAN_VERSION"], env["LEO3_CROSS_LIB_DIR"])
          ELSE IsSet("LEAN_HOME") =>
                 /\ disk[env["LEAN_HOME"]] # Nothing
                 /\ Is(disk[env["LEAN_HOME"]].version,
                       IF IsSet("LEAN_LIB_DIR") THEN env["LEAN_LIB_DIR"] ELSE env["LEAN_HOME"])
=============================================================================
