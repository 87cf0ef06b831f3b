----------------------------- MODULE ToolsProofs ----------------------------
(***************************************************************************)
(* Theorems about the tools that make a Rust program and a Lean program    *)
(* one: the build configuration, for any directories, installations,       *)
(* versions and configuration files, the wrappers of exported functions,   *)
(* for any signatures, the IO actions that Rust composes, for any paths,   *)
(* handles and variables and actions of any size, and the conversions that *)
(* are derived, for any declarations.                                      *)
(*                                                                         *)
(* Crates that depend on leo3-ffi are configured like leo3-ffi, and        *)
(* leo3-ffi is configured from the explicit source that counts now.  A     *)
(* wrapper gives back every reference that it was given, once.  An IO      *)
(* action does what it was composed of, in order, and every handle that it *)
(* captured is open when it does.  A derived from_lean gives back what the *)
(* derived into_lean was given.                                            *)
(***************************************************************************)
EXTENDS BuildConfig, WrapperCalls, IoActions, Derive, WellFoundedInduction, FiniteSetTheorems, TLAPS

\* A complete configuration: a text with a value for every key.
Complete(t) == t = [k \in Keys |-> t[k]] /\ t.version # Invalid

\* What the script of leo3-ffi found is cached until it is exported.
CacheInv ==
  stage = "export" =>
    /\ todo = Dependents
    /\ cache # Nothing => Complete(cache)
    /\ Configured("leo3-ffi") =>
         cache # Nothing /\ out["leo3-ffi"] = emit_resolved_config(cache) /\ ~IsSet("LEO3_NO_LEAN")

\* What is exported is what leo3-ffi was configured with.
ExportInv ==
  stage # "export" /\ Configured("leo3-ffi") =>
    /\ exported # Nothing /\ Complete(exported)
    /\ out["leo3-ffi"] = emit_resolved_config(exported)

\* The dependents that have run their scripts agree with leo3-ffi.
AgreeInv ==
  stage # "export" =>
    \A d \in Dependents \ todo :
      Configured("leo3-ffi") /\ Configured(d) => out[d] = out["leo3-ffi"]

BuildInv == BuildTypeOK /\ CacheInv /\ ExportInv /\ AgreeInv
USE BuildConfigAssumption

-----------------------------------------------------------------------------
\* What is written is what is read again (LeanConfig::to_writer and from_reader):
\* nothing is lost, and nothing is looked up on the disk of the reader.
LEMMA TransportKeeps ==
  ASSUME NEW t, Complete(t)
  PROVE  to_writer(t) = t /\ from_reader(t) = t
<1>1. to_writer(t) = t
  BY DEF Complete, to_writer
<1>2. DOMAIN t = Keys
  BY DEF Complete
<1>3. Keys \ DOMAIN t \subseteq {"allocator"} /\ t.version # Invalid
  BY <1>2 DEF Complete
<1>4. from_reader(t) = [k \in Keys |-> t[k]]
  BY <1>2, <1>3 DEF from_reader
<1>. QED
  BY <1>1, <1>4 DEF Complete

\* Config builds complete configurations.
LEMMA ConfigComplete ==
  ASSUME NEW home, NEW lib, NEW include, NEW version, NEW allocator, version # Invalid
  PROVE  Complete(Config(home, lib, include, version, allocator))
BY DEF Complete, Config, Keys

\* An installation that is accepted gives a complete configuration.
LEMMA ValidationCompletes ==
  ASSUME BuildTypeOK, NEW home \in Homes, validate_lean_installation(home) # Nothing
  PROVE  Complete(validate_lean_installation(home))
<1>1. disk[home] # Nothing
  BY DEF validate_lean_installation
<1>2. disk[home].version # Invalid
  BY <1>1 DEF BuildTypeOK, BuildConfigAssumption
<1>. QED
  BY <1>1, <1>2, ConfigComplete DEF validate_lean_installation

\* Whatever the source, a configuration that is resolved is complete.
LEMMA ResolutionCompletes ==
  ASSUME BuildTypeOK, resolve_user_or_detect_config.config # Nothing
  PROVE  Complete(resolve_user_or_detect_config.config)
<1>1. CASE IsSet("LEO3_CONFIG_FILE")
  <2>1. resolve_user_or_detect_config.config = from_reader(file)
    BY <1>1 DEF resolve_user_or_detect_config, Resolved
  <2>2. from_reader(file) # Nothing
    BY <2>1
  <2>. QED
    BY <2>1, <2>2 DEF from_reader, Complete, Keys
<1>2. CASE ~IsSet("LEO3_CONFIG_FILE") /\ CrossIsSet
  <2>1. resolve_user_or_detect_config.config = detect_from_cross_compile
    BY <1>2 DEF resolve_user_or_detect_config, resolve_host_lean_config, Resolved
  <2>2. detect_from_cross_compile # Nothing
    BY <2>1
  <2>. QED
    BY <2>1, <2>2, ConfigComplete DEF detect_from_cross_compile, BuildConfigAssumption
<1>3. CASE ~IsSet("LEO3_CONFIG_FILE") /\ ~CrossIsSet /\ IsSet("LEAN_HOME")
  <2>1. resolve_user_or_detect_config.config = validate_lean_installation(env["LEAN_HOME"])
    BY <1>3 DEF resolve_user_or_detect_config, resolve_host_lean_config, Resolved
  <2>2. env["LEAN_HOME"] \in Homes
    BY <1>3 DEF BuildTypeOK, Values, IsSet
  <2>. QED
    BY <2>1, <2>2, ValidationCompletes
<1>4. CASE ~IsSet("LEO3_CONFIG_FILE") /\ ~CrossIsSet /\ ~IsSet("LEAN_HOME")
  <2>1. PICK tool \in Tools : resolve_user_or_detect_config.config = DetectFrom(tool)
    BY <1>4 DEF resolve_user_or_detect_config, resolve_host_lean_config, Detect, Resolved, Tools
  <2>2. tools[tool] \in Homes /\ DetectFrom(tool) = validate_lean_installation(tools[tool])
    BY <2>1 DEF DetectFrom, BuildTypeOK
  <2>. QED
    BY <2>1, <2>2, ValidationCompletes
<1>. QED
  BY <1>1, <1>2, <1>3, <1>4

-----------------------------------------------------------------------------
\* What a script emits does not depend on anything but its configuration.
LEMMA ScriptEmits ==
  ASSUME BuildTypeOK, NEW c \in Crates, NEW resolved, RunsScript(c, resolved)
  PROVE  /\ DOMAIN out' = Crates
         /\ \A d \in Crates \ {c} : out'[d] = out[d]
         /\ Configured(c)' => /\ resolved.config # Nothing /\ ~IsSet("LEO3_NO_LEAN")
                              /\ out'[c] = emit_resolved_config(resolved.config)
BY DEF RunsScript, BuildTypeOK, Configured

\* The steps of the surroundings touch nothing that the crates agree on.
LEMMA SurroundingsKeep ==
  ASSUME BuildInv, NEW input, Touches(input), env' = env \/ stage = "idle"
  PROVE  CacheInv' /\ ExportInv' /\ AgreeInv'
BY DEF BuildInv, Touches, CacheInv, ExportInv, AgreeInv, Configured, IsSet, emit_resolved_config, Complete

\* The surroundings keep their types.
LEMMA TypesKept ==
  ASSUME BuildTypeOK, [BuildNext]_buildVars
  PROVE  BuildTypeOK'
<1>1. CASE FfiConfigures
  <2>1. DOMAIN out' = Crates
    BY <1>1, ScriptEmits DEF FfiConfigures, Crates
  <2>. QED
    BY <1>1, <2>1 DEF FfiConfigures, BuildTypeOK, surroundings
<1>2. CASE FfiExports
  BY <1>2 DEF FfiExports, BuildTypeOK, surroundings, results
<1>3. CASE FfiIsFresh
  BY <1>3 DEF FfiIsFresh, BuildTypeOK, surroundings, results
<1>4. ASSUME NEW d \in Dependents, DependentConfigures(d)
      PROVE  BuildTypeOK'
  <2>1. DOMAIN out' = Crates
    BY <1>4, ScriptEmits DEF DependentConfigures, Crates
  <2>. QED
    BY <1>4, <2>1 DEF DependentConfigures, BuildTypeOK, surroundings
<1>5. ASSUME NEW v \in DOMAIN Values, SetVariable(v)
      PROVE  BuildTypeOK'
  BY <1>5 DEF SetVariable, Touches, BuildTypeOK
<1>6. ASSUME NEW h \in Homes, Install(h)
      PROVE  BuildTypeOK'
  BY <1>6 DEF Install, Touches, BuildTypeOK
<1>7. CASE WriteFile
  BY <1>7 DEF WriteFile, Touches, BuildTypeOK
<1>8. ASSUME NEW t \in Tools, SelectToolchain(t)
      PROVE  BuildTypeOK'
  BY <1>8 DEF SelectToolchain, Touches, BuildTypeOK
<1>9. CASE UNCHANGED buildVars
  BY <1>9 DEF buildVars, surroundings, results, BuildTypeOK
<1>. QED
  BY <1>1, <1>2, <1>3, <1>4, <1>5, <1>6, <1>7, <1>8, <1>9 DEF BuildNext, BuildStep

\* leo3-ffi configures itself, and caches the configuration it used.
LEMMA FfiConfiguresKeeps ==
  ASSUME BuildInv, FfiConfigures
  PROVE  CacheInv' /\ ExportInv' /\ AgreeInv'
<1>. DEFINE config == resolve_user_or_detect_config.config
<1>1. stage' = "export" /\ cache' = IF IsSet("LEO3_NO_LEAN") THEN Nothing ELSE config
  BY DEF FfiConfigures
<1>2. config # Nothing => Complete(config)
  BY ResolutionCompletes DEF BuildInv
<1>3. Configured("leo3-ffi")' =>
        config # Nothing /\ ~IsSet("LEO3_NO_LEAN") /\ out'["leo3-ffi"] = emit_resolved_config(config)
  BY ScriptEmits DEF FfiConfigures, BuildInv, Crates
<1>4. IsSet("LEO3_NO_LEAN")' = IsSet("LEO3_NO_LEAN") /\ todo' = Dependents
  BY DEF FfiConfigures, surroundings, IsSet
<1>5. cache' # Nothing => Complete(cache')
  BY <1>1, <1>2
<1>6. Configured("leo3-ffi")' => cache' = config
  BY <1>1, <1>3
<1>7. Configured("leo3-ffi")' =>
        cache' # Nothing /\ out'["leo3-ffi"] = emit_resolved_config(cache')
  BY <1>3, <1>6
<1>8. CacheInv'
  BY <1>3, <1>4, <1>5, <1>7 DEF CacheInv, Complete, emit_resolved_config
<1>9. ExportInv' /\ AgreeInv'
  BY <1>1 DEF ExportInv, AgreeInv
<1>. QED
  BY <1>8, <1>9

\* It hands on what it has cached.
LEMMA FfiExportsKeeps ==
  ASSUME BuildInv, FfiExports
  PROVE  CacheInv' /\ ExportInv' /\ AgreeInv'
<1>1. stage = "export" /\ stage' = "dependents" /\ out' = out /\ todo' = Dependents
  BY DEF FfiExports, results, BuildInv, CacheInv
<1>2. Configured("leo3-ffi") =>
        /\ exported' = cache /\ cache # Nothing /\ Complete(cache)
        /\ out["leo3-ffi"] = emit_resolved_config(cache)
  BY <1>1, TransportKeeps DEF FfiExports, BuildInv, CacheInv
<1>. QED
  BY <1>1, <1>2 DEF CacheInv, ExportInv, AgreeInv, Configured, Complete, emit_resolved_config

\* A dependent configures itself with what leo3-ffi exported, if it was configured.
LEMMA DependentKeeps ==
  ASSUME BuildInv, NEW d \in Dependents, DependentConfigures(d)
  PROVE  CacheInv' /\ ExportInv' /\ AgreeInv'
<1>. DEFINE resolved == IF d = "leo3" THEN resolve_dep_lean_config ELSE resolve_lean_config
<1>1. /\ stage = "dependents" /\ stage' \in {"idle", "dependents"}
      /\ todo' = todo \ {d} /\ exported' = exported /\ RunsScript(d, resolved)
  BY DEF DependentConfigures
<1>2. /\ \A c \in Crates \ {d} : out'[c] = out[c]
      /\ Configured(d)' => out'[d] = emit_resolved_config(resolved.config)
  BY <1>1, ScriptEmits DEF BuildInv, Crates
<1>3. out'["leo3-ffi"] = out["leo3-ffi"]
  BY <1>2 DEF Crates, Dependents
<1>4. Configured("leo3-ffi") => resolved.config = exported
  <2>1. SUFFICES ASSUME Configured("leo3-ffi") PROVE resolved.config = exported
    OBVIOUS
  <2>2. exported # Nothing /\ Complete(exported)
    BY <1>1, <2>1 DEF BuildInv, ExportInv
  <2>3. from_reader(exported) = exported
    BY <2>2, TransportKeeps
  <2>. QED
    BY <2>2, <2>3 DEF resolve_dep_lean_config, resolve_lean_config, Resolved
<1>5. ExportInv'
  BY <1>1, <1>3 DEF BuildInv, ExportInv, Configured, Complete, emit_resolved_config
<1>6. ASSUME NEW c \in Dependents \ todo', Configured("leo3-ffi")', Configured(c)'
      PROVE  out'[c] = out'["leo3-ffi"]
  <2>1. Configured("leo3-ffi") /\ out["leo3-ffi"] = emit_resolved_config(exported)
    BY <1>1, <1>3, <1>6 DEF BuildInv, ExportInv, Configured
  <2>2. CASE c = d
    BY <1>2, <1>3, <1>4, <1>6, <2>1, <2>2
  <2>3. CASE c # d
    <3>1. c \in Dependents \ todo /\ out'[c] = out[c] /\ Configured(c)
      BY <1>1, <1>2, <1>6, <2>3 DEF Crates, Configured
    <3>. QED
      BY <1>1, <1>3, <2>1, <3>1 DEF BuildInv, AgreeInv
  <2>. QED
    BY <2>2, <2>3
<1>7. AgreeInv'
  BY <1>6 DEF AgreeInv
<1>8. CacheInv'
  BY <1>1 DEF CacheInv
<1>. QED
  BY <1>5, <1>7, <1>8

\* The invariant is inductive.
LEMMA BuildInvInductive ==
  ASSUME BuildInv, [BuildNext]_buildVars
  PROVE  BuildInv'
<1>1. BuildTypeOK'
  BY TypesKept DEF BuildInv
<1>2. CASE FfiConfigures
  BY <1>1, <1>2, FfiConfiguresKeeps DEF BuildInv
<1>3. CASE FfiExports
  BY <1>1, <1>3, FfiExportsKeeps DEF BuildInv
<1>4. CASE FfiIsFresh
  <2>1. /\ stage = "idle" /\ stage' = "dependents" /\ todo = {}
        /\ UNCHANGED <<out, exported>>
    BY <1>4 DEF FfiIsFresh, results, BuildInv, BuildTypeOK
  <2>. QED
    BY <1>1, <2>1 DEF BuildInv, CacheInv, ExportInv, AgreeInv, Configured
<1>5. CASE \E d \in Dependents : DependentConfigures(d)
  BY <1>1, <1>5, DependentKeeps DEF BuildInv
<1>6. CASE \E v \in DOMAIN Values : SetVariable(v)
  BY <1>1, <1>6, SurroundingsKeep DEF BuildInv, SetVariable
<1>7. CASE \E h \in Homes : Install(h)
  BY <1>1, <1>7, SurroundingsKeep DEF BuildInv, Install
<1>8. CASE WriteFile
  BY <1>1, <1>8, SurroundingsKeep DEF BuildInv, WriteFile
<1>9. CASE \E t \in Tools : SelectToolchain(t)
  BY <1>1, <1>9, SurroundingsKeep DEF BuildInv, SelectToolchain
<1>10. CASE UNCHANGED buildVars
  BY <1>1, <1>10 DEF buildVars, surroundings, results, BuildInv, CacheInv, ExportInv, AgreeInv,
                     Configured, IsSet
<1>. QED
  BY <1>2, <1>3, <1>4, <1>5, <1>6, <1>7, <1>8, <1>9, <1>10 DEF BuildNext, BuildStep

\* Whatever changes around and during the builds, crates that are configured at the
\* end of a build are configured alike: leo3-ffi caches what it resolved, exports
\* what it cached, and the text it exports says all of it.
THEOREM DependentsAgree == BuildSpec => []CfgsAgree
<1>1. BuildInit => BuildInv
  <2>1. BuildInit => BuildTypeOK
    BY DEF BuildInit, BuildTypeOK, BuildConfigAssumption
  <2>2. BuildInit => stage = "idle" /\ \A c \in Crates : ~Configured(c)
    BY DEF BuildInit, Configured
  <2>. QED
    BY <2>1, <2>2 DEF BuildInv, CacheInv, ExportInv, AgreeInv, Crates
<1>2. BuildInv /\ [BuildNext]_buildVars => BuildInv'
  BY BuildInvInductive
<1>3. BuildInv => CfgsAgree
  BY DEF BuildInv, BuildTypeOK, AgreeInv, CfgsAgree
<1>. QED
  BY <1>1, <1>2, <1>3, PTL DEF BuildSpec

-----------------------------------------------------------------------------
(* The configuration of leo3-ffi is that of the source that counts.         *)

\* What ExplicitSourceDecides says of a build that is over.
FromSource ==
  LET built == out["leo3-ffi"]
      Is(version, lib) ==
        built.lean_4 = lean_4_cfg_minors(version) /\ built.link.lib = lib /\ built.runtime = lib
  IN /\ ~IsSet("LEO3_NO_LEAN")
     /\ IF IsSet("LEO3_CONFIG_FILE")
        THEN file # Nothing /\ Is(file.version, file.lean_lib_dir)
        ELSE IF CrossIsSet
        THEN Is(env["LEO3_CROSS_LEAN_VERSION"], env["LEO3_CROSS_LIB_DIR"])
        ELSE IsSet("LEAN_HOME") =>
               /\ disk[env["LEAN_HOME"]] # Nothing
               /\ Is(disk[env["LEAN_HOME"]].version,
                     IF IsSet("LEAN_LIB_DIR") THEN env["LEAN_LIB_DIR"] ELSE env["LEAN_HOME"])

\* Whatever that configuration was made from is watched.
Watches ==
  /\ DOMAIN Values \subseteq watched["leo3-ffi"]
  /\ IsSet("LEO3_CONFIG_FILE") => "file" \in watched["leo3-ffi"]
  /\ ~IsSet("LEO3_CONFIG_FILE") /\ ~CrossIsSet /\ IsSet("LEAN_HOME") =>
       env["LEAN_HOME"] \in watched["leo3-ffi"]

\* A build may be under way: it may change what the dependents say, not this.
SourceInv ==
  /\ DOMAIN touched = Crates /\ DOMAIN watched = Crates
  /\ ~Dirty("leo3-ffi") /\ Configured("leo3-ffi") => FromSource /\ Watches

\* The script of leo3-ffi takes its configuration from the source that counts, and
\* watches it.
LEMMA FfiConfiguresFromSource ==
  ASSUME BuildTypeOK, SourceInv, FfiConfigures
  PROVE  SourceInv'
<1> DEFINE resolved == resolve_user_or_detect_config
           config == resolve_user_or_detect_config.config
           built == emit_resolved_config(config)
           lib == config.lean_lib_dir
<1>1. /\ UNCHANGED <<env, disk, file>> /\ RunsScript("leo3-ffi", resolved)
      /\ DOMAIN touched' = Crates /\ DOMAIN watched' = Crates
  BY DEF FfiConfigures, surroundings, RunsScript, SourceInv
<1>2. SUFFICES ASSUME Configured("leo3-ffi")'
               PROVE  FromSource' /\ Watches'
  BY <1>1 DEF SourceInv
<1>3. ~IsSet("LEO3_NO_LEAN") /\ config # Nothing /\ out'["leo3-ffi"] = built
  BY <1>1, <1>2, ScriptEmits DEF Crates
<1>4. watched'["leo3-ffi"] = rerun_if_env_changed \cup rerun_if_changed(resolved)
  BY <1>1, <1>3 DEF RunsScript, SourceInv, Crates
<1>5. /\ built.lean_4 = lean_4_cfg_minors(config.version)
      /\ built.link.lib = lib /\ built.runtime = lib
  BY DEF emit_resolved_config, emit_link_config, emit_runtime_envs, emit_version_cfgs
<1> HIDE DEF built
<1>6. CASE IsSet("LEO3_CONFIG_FILE")
  <2>1. resolved = Resolved("file", IF file = Nothing THEN Nothing ELSE from_reader(file))
    BY <1>6 DEF resolve_user_or_detect_config
  <2>2. config = IF file = Nothing THEN Nothing ELSE from_reader(file)
    BY <2>1 DEF Resolved
  <2>3. file # Nothing /\ config = from_reader(file)
    BY <1>3, <2>2
  <2>4. config.version = file.version /\ lib = file.lean_lib_dir
    <3>1. from_reader(file) # Nothing
      BY <1>3, <2>3
    <3>2. /\ Keys \ DOMAIN file \subseteq {"allocator"}
          /\ from_reader(file) = [k \in Keys |-> IF k \in DOMAIN file THEN file[k]
                                                 ELSE BestEffortAllocator(file.lean_include_dir)]
      BY <3>1 DEF from_reader
    <3>3. "version" \in Keys \cap DOMAIN file /\ "lean_lib_dir" \in Keys \cap DOMAIN file
      BY <3>2 DEF Keys
    <3> QED
      BY <2>3, <3>2, <3>3
  <2>5. "file" \in watched'["leo3-ffi"]
    BY <1>4, <2>1 DEF rerun_if_changed, Resolved
  <2>6. FromSource'
    BY <1>1, <1>3, <1>5, <1>6, <2>3, <2>4 DEF FromSource, IsSet, lean_4_cfg_minors
  <2> QED
    BY <1>1, <1>4, <1>6, <2>5, <2>6 DEF Watches, IsSet, rerun_if_env_changed, CrossIsSet
<1>7. CASE ~IsSet("LEO3_CONFIG_FILE") /\ CrossIsSet
  <2>1. config = detect_from_cross_compile
    BY <1>7 DEF resolve_user_or_detect_config, resolve_host_lean_config, Resolved
  <2>2. config.version = env["LEO3_CROSS_LEAN_VERSION"] /\ lib = env["LEO3_CROSS_LIB_DIR"]
    BY <1>3, <2>1 DEF detect_from_cross_compile, Config
  <2>3. FromSource'
    BY <1>1, <1>3, <1>5, <1>7, <2>2 DEF FromSource, IsSet, CrossIsSet, lean_4_cfg_minors
  <2> QED
    BY <1>1, <1>4, <1>7, <2>3 DEF Watches, IsSet, rerun_if_env_changed, CrossIsSet
<1>8. CASE ~IsSet("LEO3_CONFIG_FILE") /\ ~CrossIsSet /\ IsSet("LEAN_HOME")
  <2> DEFINE home == env["LEAN_HOME"]
  <2>1. config = validate_lean_installation(home)
    BY <1>8 DEF resolve_user_or_detect_config, resolve_host_lean_config, Resolved
  <2>2. /\ disk[home] # Nothing
        /\ config.version = disk[home].version /\ config.lean_home = home
        /\ lib = IF IsSet("LEAN_LIB_DIR") THEN env["LEAN_LIB_DIR"] ELSE home
    BY <1>3, <2>1 DEF validate_lean_installation, Config
  <2>3. home \in watched'["leo3-ffi"]
    BY <1>4, <2>2 DEF rerun_if_changed
  <2>4. FromSource'
    BY <1>1, <1>3, <1>5, <1>8, <2>2 DEF FromSource, IsSet, CrossIsSet, lean_4_cfg_minors
  <2> QED
    BY <1>1, <1>4, <1>8, <2>3, <2>4 DEF Watches, IsSet, rerun_if_env_changed, CrossIsSet
<1>9. CASE ~IsSet("LEO3_CONFIG_FILE") /\ ~CrossIsSet /\ ~IsSet("LEAN_HOME")
  BY <1>1, <1>3, <1>4, <1>9 DEF FromSource, Watches, IsSet, rerun_if_env_changed, CrossIsSet
<1> QED
  BY <1>6, <1>7, <1>8, <1>9

\* Whatever the surroundings change of that source makes Cargo run the script again.
LEMMA SurroundingsKeepSource ==
  ASSUME BuildTypeOK, SourceInv, NEW input, Touches(input),
         \/ input \in DOMAIN Values
         \/ input \in Homes /\ env' = env /\ file' = file
              /\ \A h \in Homes \ {input} : disk'[h] = disk[h]
         \/ input = "file" /\ env' = env /\ disk' = disk
         \/ env' = env /\ disk' = disk /\ file' = file
  PROVE  SourceInv'
<1>1. /\ watched' = watched /\ out' = out
      /\ touched'["leo3-ffi"] = touched["leo3-ffi"] \cup {input}
      /\ DOMAIN touched' = Crates
  BY DEF Touches, SourceInv, Crates
<1>2. SUFFICES ASSUME ~Dirty("leo3-ffi")', Configured("leo3-ffi")'
               PROVE  FromSource' /\ Watches'
  BY <1>1 DEF SourceInv
<1>3. ~Dirty("leo3-ffi") /\ Configured("leo3-ffi") /\ input \notin watched["leo3-ffi"]
  BY <1>1, <1>2 DEF Dirty, Configured
<1>4. FromSource /\ Watches /\ input \notin DOMAIN Values
  BY <1>3 DEF SourceInv, Watches
<1>5. env' = env
  BY <1>4
<1>6. Watches'
  BY <1>1, <1>4, <1>5 DEF Watches, IsSet, CrossIsSet
<1>7. IsSet("LEO3_CONFIG_FILE") => file' = file
  BY <1>3, <1>4 DEF Watches
<1>8. ~IsSet("LEO3_CONFIG_FILE") /\ ~CrossIsSet /\ IsSet("LEAN_HOME") =>
        disk'[env["LEAN_HOME"]] = disk[env["LEAN_HOME"]]
  BY <1>3, <1>4 DEF Watches, BuildTypeOK, IsSet, Values
<1>9. FromSource'
  BY <1>1, <1>4, <1>5, <1>7, <1>8 DEF FromSource, IsSet, CrossIsSet, lean_4_cfg_minors
<1> QED
  BY <1>6, <1>9

\* A step that leaves the source and the script of leo3-ffi alone.
LEMMA ElsewhereKeepsSource ==
  ASSUME SourceInv, UNCHANGED <<env, disk, file>>,
         DOMAIN touched' = Crates, DOMAIN watched' = Crates,
         out'["leo3-ffi"] = out["leo3-ffi"], touched'["leo3-ffi"] = touched["leo3-ffi"],
         watched'["leo3-ffi"] = watched["leo3-ffi"]
  PROVE  SourceInv'
BY DEF SourceInv, Dirty, Configured, FromSource, Watches, IsSet, CrossIsSet, lean_4_cfg_minors

\* Every step keeps the account of the source.
LEMMA SourceInvInductive ==
  ASSUME BuildTypeOK, SourceInv, [BuildNext]_buildVars
  PROVE  SourceInv'
<1>1. CASE FfiConfigures
  BY <1>1, FfiConfiguresFromSource
<1>2. CASE FfiExports \/ FfiIsFresh \/ UNCHANGED buildVars
  BY <1>2, ElsewhereKeepsSource
     DEF FfiExports, FfiIsFresh, buildVars, surroundings, results, SourceInv
<1>3. ASSUME NEW d \in Dependents, DependentConfigures(d) PROVE SourceInv'
  <2>1. d \in Crates /\ d # "leo3-ffi" /\ "leo3-ffi" \in Crates
    BY DEF Crates, Dependents
  <2>2. UNCHANGED <<env, disk, file>>
    BY <1>3 DEF DependentConfigures, surroundings
  <2>3. /\ touched' = [touched EXCEPT ![d] = {}]
        /\ \E v : out' = [out EXCEPT ![d] = v]
        /\ \E w : watched' = [watched EXCEPT ![d] = w]
    BY <1>3 DEF DependentConfigures, RunsScript
  <2> QED
    BY <2>1, <2>2, <2>3, ElsewhereKeepsSource DEF SourceInv
<1>4. ASSUME NEW v \in DOMAIN Values, SetVariable(v) PROVE SourceInv'
  BY <1>4, SurroundingsKeepSource DEF SetVariable
<1>5. ASSUME NEW h \in Homes, Install(h) PROVE SourceInv'
  <2>1. \A g \in Homes \ {h} : disk'[g] = disk[g]
    BY <1>5 DEF Install, BuildTypeOK
  <2> QED
    BY <1>5, <2>1, SurroundingsKeepSource DEF Install
<1>6. CASE WriteFile
  BY <1>6, SurroundingsKeepSource DEF WriteFile
<1>7. ASSUME NEW t \in Tools, SelectToolchain(t) PROVE SourceInv'
  BY <1>7, SurroundingsKeepSource DEF SelectToolchain
<1> QED
  BY <1>1, <1>2, <1>3, <1>4, <1>5, <1>6, <1>7 DEF BuildNext, BuildStep

\* The configuration of a build that Cargo has nothing to do for is the one the explicit
\* source of the highest priority stands for now: every source of a higher priority is
\* unset, and whatever was read of the source is watched.
THEOREM TheSourceDecides == BuildSpec => []ExplicitSourceDecides
<1>1. BuildInit => BuildTypeOK /\ SourceInv
  <2>1. BuildInit => BuildTypeOK
    BY DEF BuildInit, BuildTypeOK, BuildConfigAssumption
  <2>2. BuildInit => SourceInv
    BY DEF BuildInit, SourceInv, Configured, Crates
  <2> QED
    BY <2>1, <2>2
<1>2. BuildTypeOK /\ SourceInv /\ [BuildNext]_buildVars => (BuildTypeOK /\ SourceInv)'
  BY TypesKept, SourceInvInductive
<1>3. SourceInv => ExplicitSourceDecides
  BY DEF SourceInv, FromSource, ExplicitSourceDecides
<1> QED
  BY <1>1, <1>2, <1>3, PTL DEF BuildSpec

-----------------------------------------------------------------------------
(* The references to the arguments of a call.                               *)

\* What is still to be taken of argument i, beside what Lean keeps: of the receiver,
\* the handle of the wrapper.
Untaken(i) ==
  IF i = 0 THEN IF HoldsReceiver THEN 1 ELSE 0
  ELSE IF Takes(i) /\ i >= next THEN 1 ELSE 0

\* Where a call can be, and how many references there are to each argument then.
ArgumentsInv ==
  /\ sig \in Signatures
  /\ at \in {NotCalled, "receiver", "params", "user", "result", "returned"}
  /\ at # NotCalled =>
       /\ kept \subseteq {i \in Positions : OnObject(i)}
       /\ next \in Nat \ {0}
       /\ refs \in [Positions -> Nat]
       /\ sig.receiver = "instance" => next = 1
  /\ at = "receiver" =>
       /\ IsMethod(sig) /\ next = 1
       /\ \A i \in Positions :
            refs[i] = References(i) + (IF OnObject(i) /\ sig.receiver # "instance" THEN 1 ELSE 0)
  /\ at = "params" =>
       /\ sig.receiver # "instance"
       /\ \A i \in Positions : refs[i] = References(i) + Untaken(i)
  /\ at \in {"user", "result"} =>
       /\ sig.receiver # "instance" => next \notin DOMAIN sig.params
       /\ sig.receiver = "instance" => \A i \in Positions : refs[i] = References(i) + 1
       /\ sig.receiver # "instance" => \A i \in Positions : refs[i] = References(i) + Untaken(i)
  /\ ArgumentsAreReleasedOnce

\* What a signature and what Lean keeps decide stays the same during a call.
LEMMA CallKeeps ==
  ASSUME UNCHANGED sig
  PROVE  /\ Positions' = Positions
         /\ \A i \in Positions : OnObject(i)' = OnObject(i) /\ Takes(i)' = Takes(i)
         /\ kept' = kept => \A i \in Positions : References(i)' = References(i)
BY DEF Positions, OnObject, Takes, ParamType, Class, IsMethod, References

\* Parameters are numbered from 1; the receiver, which is an object, is argument 0.
LEMMA ArgumentsAre ==
  ASSUME sig \in Signatures
  PROVE  /\ DOMAIN sig.params = 1..Len(sig.params) /\ Len(sig.params) \in Nat
         /\ Positions \subseteq Nat
         /\ \A i \in Positions : i # 0 => i \in DOMAIN sig.params /\ (Takes(i) <=> OnObject(i))
         /\ DOMAIN sig.params \subseteq Positions
         /\ 0 \in Positions <=> IsMethod(sig)
         /\ IsMethod(sig) => OnObject(0)
         /\ \A i \in Positions : References(i) \in {0, 1}
<1>1. DOMAIN sig.params = 1..Len(sig.params) /\ Len(sig.params) \in Nat
  BY WrapperCallsAssumption
<1>2. 0 \notin DOMAIN sig.params /\ DOMAIN sig.params \subseteq Nat
  BY <1>1
<1>3. IsMethod(sig) => OnObject(0)
  BY WrapperCallsAssumption DEF OnObject, ParamType
<1> QED
  BY <1>1, <1>2, <1>3 DEF Positions, Takes, OnObject, References

\* A call begins with the references that Lean gives away, or keeps and lends.
LEMMA CallBegins ==
  ASSUME ArgumentsInv, LeanCalls
  PROVE  ArgumentsInv'
<1> USE CallKeeps, ArgumentsAre
<1>1. sig \in Signatures /\ sig' = sig /\ at = NotCalled
  BY DEF ArgumentsInv, LeanCalls
<1>2. PICK k \in SUBSET {i \in Positions : OnObject(i)} :
        /\ sig.receiver = "instance" => k = Positions
        /\ kept' = k
        /\ refs' = [i \in Positions |->
             IF ~OnObject(i) THEN 0
             ELSE IF sig.receiver = "instance" THEN 1
             ELSE 1 + (IF i \in k THEN 1 ELSE 0)]
  BY DEF LeanCalls
<1>3. \A i \in Positions : References(i)' = IF i \in k THEN 1 ELSE 0
  BY <1>2 DEF References
<1>4. next' = 1 /\ at' = (IF IsMethod(sig) THEN "receiver" ELSE "params")
  BY DEF LeanCalls
<1>5. refs' \in [Positions -> Nat]
  BY <1>2
<1>6. \A i \in Positions :
        refs'[i] = References(i)' + (IF OnObject(i) /\ sig.receiver # "instance" THEN 1 ELSE 0)
  BY <1>2, <1>3
<1>7. CASE IsMethod(sig)
  BY <1>1, <1>2, <1>4, <1>5, <1>6, <1>7
     DEF ArgumentsInv, ArgumentsAreReleasedOnce, IsMethod
<1>8. CASE ~IsMethod(sig)
  <2>1. sig.receiver # "instance"
    BY <1>8 DEF IsMethod
  <2>2. \A i \in Positions : Untaken(i)' = IF OnObject(i) THEN 1 ELSE 0
    BY <1>1, <1>4, <1>8 DEF Untaken
  <2> QED
    BY <1>1, <1>2, <1>4, <1>5, <1>6, <1>8, <2>1, <2>2
       DEF ArgumentsInv, ArgumentsAreReleasedOnce
<1> QED
  BY <1>7, <1>8

\* The wrapper takes its receiver: it holds it, goes on with a clone, moves the value
\* out, or takes references of its own.
LEMMA ReceiverTaken ==
  ASSUME ArgumentsInv, TakeRef \/ TakeMut \/ TakeOwned \/ TakeInstance
  PROVE  ArgumentsInv'
<1> USE CallKeeps, ArgumentsAre
<1>1. /\ sig \in Signatures /\ UNCHANGED <<sig, next, kept, outcome>> /\ at = "receiver"
      /\ kept \subseteq {i \in Positions : OnObject(i)} /\ next = 1
      /\ refs \in [Positions -> Nat] /\ IsMethod(sig)
      /\ \A i \in Positions :
           refs[i] = References(i) + (IF OnObject(i) /\ sig.receiver # "instance" THEN 1 ELSE 0)
  BY WrapperCallsAssumption DEF ArgumentsInv, TakeRef, TakeMut, TakeOwned, TakeInstance
<1>2. 0 \in Positions /\ OnObject(0)
  BY <1>1
<1>3. CASE TakeInstance
  <2>1. /\ sig.receiver = "instance" /\ at' = "user"
        /\ refs' = [i \in Positions |-> refs[i] + 1]
    BY <1>3 DEF TakeInstance
  <2>2. refs' \in [Positions -> Nat] /\ \A i \in Positions : refs'[i] = References(i)' + 1
    BY <1>1, <2>1
  <2> QED
    BY <1>1, <2>1, <2>2 DEF ArgumentsInv, ArgumentsAreReleasedOnce
<1>4. CASE TakeRef \/ TakeMut \/ TakeOwned
  <2>1. at' = "params" /\ sig.receiver # "instance"
    BY <1>4 DEF TakeRef, TakeMut, TakeOwned
  <2>2. /\ refs' \in [Positions -> Nat]
        /\ \A i \in Positions \ {0} : refs'[i] = refs[i]
        /\ refs'[0] = References(0) + Untaken(0)'
    <3>1. CASE TakeRef
      <4>1. sig.receiver = "ref" /\ refs' = refs
        BY <3>1 DEF TakeRef
      <4> QED
        BY <1>1, <1>2, <4>1 DEF Untaken, HoldsReceiver
    <3>2. CASE TakeMut
      <4>1. sig.receiver = "mut" /\ refs' = IF refs[0] > 1 THEN Drop(0) ELSE refs
        BY <3>2 DEF TakeMut
      <4>2. refs[0] = References(0) + 1 /\ References(0) \in {0, 1}
        BY <1>1, <1>2, <4>1
      <4>3. CASE refs[0] > 1
        <5>1. refs' = [refs EXCEPT ![0] = refs[0] - 1]
          BY <4>1, <4>3 DEF Drop
        <5> QED
          BY <1>1, <1>2, <4>1, <4>2, <4>3, <5>1 DEF Untaken, HoldsReceiver
      <4>4. CASE ~(refs[0] > 1)
        BY <1>1, <1>2, <4>1, <4>2, <4>4 DEF Untaken, HoldsReceiver
      <4> QED
        BY <4>3, <4>4
    <3>3. CASE TakeOwned
      <4>1. sig.receiver = "owned" /\ refs' = [refs EXCEPT ![0] = refs[0] - 1]
        BY <3>3 DEF TakeOwned, Drop
      <4>2. refs[0] = References(0) + 1 /\ References(0) \in {0, 1}
        BY <1>1, <1>2, <4>1
      <4> QED
        BY <1>1, <1>2, <4>1, <4>2 DEF Untaken, HoldsReceiver
    <3> QED
      BY <1>4, <3>1, <3>2, <3>3
  <2>3. \A i \in Positions : refs'[i] = References(i)' + Untaken(i)'
    <3> SUFFICES ASSUME NEW i \in Positions
                 PROVE  refs'[i] = References(i)' + Untaken(i)'
      OBVIOUS
    <3>1. CASE i = 0
      BY <1>1, <2>2, <3>1
    <3>2. CASE i # 0
      BY <1>1, <2>1, <2>2, <3>2 DEF Untaken
    <3> QED
      BY <3>1, <3>2
  <2> QED
    BY <1>1, <2>1, <2>2, <2>3 DEF ArgumentsInv, ArgumentsAreReleasedOnce
<1> QED
  BY <1>3, <1>4

\* The next argument is converted: its object is released.
LEMMA ArgumentConverted ==
  ASSUME ArgumentsInv, generate_param_conversions
  PROVE  ArgumentsInv'
<1> USE CallKeeps, ArgumentsAre
<1>1. /\ sig \in Signatures /\ UNCHANGED <<sig, at, kept, outcome>> /\ at = "params"
      /\ kept \subseteq {i \in Positions : OnObject(i)} /\ next \in Nat \ {0}
      /\ refs \in [Positions -> Nat] /\ sig.receiver # "instance"
      /\ \A i \in Positions : refs[i] = References(i) + Untaken(i)
      /\ next \in DOMAIN sig.params /\ next' = next + 1
      /\ refs' = IF Takes(next) THEN Drop(next) ELSE refs
  BY WrapperCallsAssumption DEF ArgumentsInv, generate_param_conversions
<1>2. next \in Positions /\ next # 0
  BY <1>1
<1>3. Takes(next) => refs[next] = References(next) + 1
  BY <1>1, <1>2 DEF Untaken
<1>4. /\ refs' \in [Positions -> Nat]
      /\ refs'[next] = IF Takes(next) THEN refs[next] - 1 ELSE refs[next]
      /\ \A i \in Positions \ {next} : refs'[i] = refs[i]
  BY <1>1, <1>2, <1>3 DEF Drop
<1>5. \A i \in Positions : refs'[i] = References(i)' + Untaken(i)'
  <2> SUFFICES ASSUME NEW i \in Positions
               PROVE  refs'[i] = References(i)' + Untaken(i)'
    OBVIOUS
  <2>1. CASE i = 0
    BY <1>1, <1>2, <1>4, <2>1 DEF Untaken, HoldsReceiver
  <2>2. CASE i = next
    BY <1>1, <1>2, <1>3, <1>4, <2>2 DEF Untaken
  <2>3. CASE i \notin {0, next}
    <3>1. i \in Nat /\ (i >= next + 1 <=> i >= next)
      BY <1>1, <2>3
    <3> QED
      BY <1>1, <1>4, <2>3, <3>1 DEF Untaken
  <2> QED
    BY <2>1, <2>2, <2>3
<1> QED
  BY <1>1, <1>4, <1>5 DEF ArgumentsInv, ArgumentsAreReleasedOnce

\* The receiver that the wrapper holds is released, whatever else has been.
LEMMA ReceiverReleased ==
  ASSUME sig \in Signatures, NEW after \in [Positions -> Nat], sig.receiver # "instance",
         0 \in Positions => after[0] = References(0) + Untaken(0)
  PROVE  /\ ReleaseReceiver(after) \in [Positions -> Nat]
         /\ \A i \in Positions \ {0} : ReleaseReceiver(after)[i] = after[i]
         /\ 0 \in Positions => ReleaseReceiver(after)[0] = References(0)
<1> USE ArgumentsAre
<1>1. CASE HoldsReceiver
  <2>1. sig.receiver \in {"ref", "mut"} /\ 0 \in Positions
    BY <1>1 DEF HoldsReceiver, IsMethod
  <2>2. ReleaseReceiver(after) = [after EXCEPT ![0] = after[0] - 1]
    BY <1>1, <2>1 DEF ReleaseReceiver
  <2>3. after[0] = References(0) + 1
    BY <1>1, <2>1 DEF Untaken
  <2> QED
    BY <2>1, <2>2, <2>3
<1>2. CASE ~HoldsReceiver
  <2>1. ReleaseReceiver(after) = after
    BY <1>2 DEF ReleaseReceiver
  <2> QED
    BY <1>2, <2>1 DEF Untaken
<1> QED
  BY <1>1, <1>2

\* What ArgumentsAreReleasedOnce asks of argument i when the wrapper is left with
\* these references
Settles(after, how, i) ==
  after[i] = (IF OnObject(i) THEN References(i) ELSE 0)
             + (IF /\ i = 0 /\ sig.receiver = "mut" /\ how = "value"
                   /\ after[0] > IF OnObject(i) THEN References(i) ELSE 0 THEN 1 ELSE 0)
             + (IF next \in DOMAIN sig.params /\ i > next /\ Takes(i) THEN 1 ELSE 0)

\* A wrapper may be left when every argument is settled.
LEMMA LeavingSettles ==
  ASSUME ArgumentsInv, at # NotCalled, NEW after \in [Positions -> Nat], NEW how,
         how \in {"value", "panic"}, Leave(after, how),
         \A i \in Positions : Settles(after, how, i)
  PROVE  ArgumentsInv'
<1> USE CallKeeps, ArgumentsAre
<1>1. /\ sig \in Signatures /\ UNCHANGED <<sig, next, kept>> /\ at' = "returned" /\ refs' = after
      /\ kept \subseteq {i \in Positions : OnObject(i)} /\ next \in Nat \ {0}
      /\ sig.receiver = "instance" => next = 1
  BY DEF ArgumentsInv, Leave
<1>2. outcome' = "value" <=> how = "value"
  BY DEF Leave
<1>3. ArgumentsAreReleasedOnce'
  <2> SUFFICES ASSUME NEW i \in Positions
               PROVE  LET own == IF OnObject(i) THEN References(i) ELSE 0
                          returned == IF i = 0 /\ sig.receiver = "mut" /\ how = "value" /\ after[0] > own THEN 1 ELSE 0
                          unread == IF next \in DOMAIN sig.params /\ i > next /\ Takes(i) THEN 1 ELSE 0
                      IN after[i] = own + returned + unread
    BY <1>1, <1>2 DEF ArgumentsAreReleasedOnce
  <2> QED
    BY DEF Settles
<1> QED
  BY <1>1, <1>3, WrapperCallsAssumption DEF ArgumentsInv

\* An argument that cannot be converted is released, and the receiver; the arguments
\* after it are not.
LEMMA ConversionFailsCleanly ==
  ASSUME ArgumentsInv, ConversionFails
  PROVE  ArgumentsInv'
<1> USE ArgumentsAre
<1> DEFINE after == IF Takes(next) THEN Drop(next) ELSE refs
<1>1. /\ sig \in Signatures /\ at = "params" /\ at # NotCalled
      /\ next \in Nat \ {0} /\ next \in DOMAIN sig.params
      /\ refs \in [Positions -> Nat] /\ sig.receiver # "instance"
      /\ \A i \in Positions : refs[i] = References(i) + Untaken(i)
      /\ Leave(ReleaseReceiver(after), "panic")
  BY WrapperCallsAssumption DEF ArgumentsInv, ConversionFails
<1>2. next \in Positions /\ next # 0
  BY <1>1
<1>3. Takes(next) => refs[next] = References(next) + 1
  BY <1>1, <1>2 DEF Untaken
<1>4. /\ after \in [Positions -> Nat]
      /\ after[next] = References(next)
      /\ \A i \in Positions \ {next} : after[i] = References(i) + Untaken(i)
  BY <1>1, <1>2, <1>3 DEF Drop, Untaken
<1>5. /\ ReleaseReceiver(after) \in [Positions -> Nat]
      /\ \A i \in Positions \ {0} : ReleaseReceiver(after)[i] = after[i]
      /\ 0 \in Positions => ReleaseReceiver(after)[0] = References(0)
  <2> HIDE DEF after
  <2> QED
    BY <1>1, <1>2, <1>4, ReceiverReleased
<1>6. ASSUME NEW i \in Positions
      PROVE  Settles(ReleaseReceiver(after), "panic", i)
  <2> HIDE DEF after
  <2>1. ~OnObject(i) => References(i) = 0
    BY <1>1 DEF ArgumentsInv, References
  <2>2. CASE i = 0
    BY <1>1, <1>5, <2>1, <2>2 DEF Settles
  <2>3. CASE i = next
    BY <1>1, <1>2, <1>4, <1>5, <2>1, <2>3 DEF Settles
  <2>4. CASE i \notin {0, next}
    <3>1. i \in Nat /\ (i >= next <=> i > next)
      BY <1>1, <2>4
    <3>2. ReleaseReceiver(after)[i] = References(i) + IF Takes(i) /\ i > next THEN 1 ELSE 0
      BY <1>4, <1>5, <2>4, <3>1 DEF Untaken
    <3> QED
      BY <1>1, <2>1, <2>4, <3>2 DEF Settles
  <2> QED
    BY <2>2, <2>3, <2>4
<1> HIDE DEF after
<1> QED
  BY <1>1, <1>5, <1>6, LeavingSettles

\* All arguments are converted: none is left to be taken.
LEMMA ArgumentsConverted ==
  ASSUME ArgumentsInv, AllConverted
  PROVE  ArgumentsInv'
<1> USE CallKeeps, ArgumentsAre
<1>1. /\ sig \in Signatures /\ UNCHANGED <<sig, next, refs, kept, outcome>>
      /\ at = "params" /\ at' = "user" /\ next \notin DOMAIN sig.params
      /\ kept \subseteq {i \in Positions : OnObject(i)} /\ next \in Nat \ {0}
      /\ refs \in [Positions -> Nat] /\ sig.receiver # "instance"
      /\ \A i \in Positions : refs[i] = References(i) + Untaken(i)
  BY WrapperCallsAssumption DEF ArgumentsInv, AllConverted
<1>2. \A i \in Positions : Untaken(i)' = Untaken(i)
  BY <1>1 DEF Untaken, HoldsReceiver
<1> QED
  BY <1>1, <1>2 DEF ArgumentsInv, ArgumentsAreReleasedOnce

\* The user's function returns; nothing is released yet.
LEMMA UserReturned ==
  ASSUME ArgumentsInv, UserReturns
  PROVE  ArgumentsInv'
<1> USE CallKeeps, ArgumentsAre
<1>1. /\ sig \in Signatures /\ UNCHANGED <<sig, next, refs, kept, outcome>>
      /\ at = "user" /\ at' = "result" /\ at # NotCalled
  BY WrapperCallsAssumption DEF ArgumentsInv, UserReturns
<1>2. \A i \in Positions : Untaken(i)' = Untaken(i)
  BY <1>1 DEF Untaken, HoldsReceiver
<1> QED
  BY <1>1, <1>2 DEF ArgumentsInv, ArgumentsAreReleasedOnce

\* After the user's function, what the wrapper still holds is the receiver, or what an
\* instance borrowed.
LEMMA BothReleased ==
  ASSUME ArgumentsInv, at \in {"user", "result"}
  PROVE  /\ ReleaseBoth(refs) \in [Positions -> Nat]
         /\ \A i \in Positions : ReleaseBoth(refs)[i] = References(i)
         /\ \A i \in Positions : ~(next \in DOMAIN sig.params /\ i > next)
         /\ \A i \in Positions : ~OnObject(i) => References(i) = 0
<1> USE ArgumentsAre
<1>1. /\ sig \in Signatures /\ at # NotCalled
      /\ kept \subseteq {i \in Positions : OnObject(i)} /\ next \in Nat \ {0}
      /\ refs \in [Positions -> Nat]
  BY WrapperCallsAssumption DEF ArgumentsInv
<1>2. \A i \in Positions : ~OnObject(i) => References(i) = 0
  BY <1>1 DEF References
<1>3. CASE sig.receiver = "instance"
  <2>1. next = 1 /\ \A i \in Positions : refs[i] = References(i) + 1
    BY <1>1, <1>3 DEF ArgumentsInv
  <2>2. ReleaseBoth(refs) = [i \in Positions |-> refs[i] - 1]
    BY <1>3 DEF ReleaseBoth
  <2>3. Len(sig.params) <= 1
    BY <1>1, <1>3, WrapperCallsAssumption
  <2>4. \A i \in Positions : ~(i > next)
    BY <1>1, <2>1, <2>3
  <2>5. /\ ReleaseBoth(refs) \in [Positions -> Nat]
        /\ \A i \in Positions : ReleaseBoth(refs)[i] = References(i)
    BY <1>1, <2>1, <2>2
  <2> QED
    BY <1>2, <2>4, <2>5
<1>4. CASE sig.receiver # "instance"
  <2>1. next \notin DOMAIN sig.params /\ \A i \in Positions : refs[i] = References(i) + Untaken(i)
    BY <1>1, <1>4 DEF ArgumentsInv
  <2>2. ReleaseBoth(refs) = ReleaseReceiver(refs)
    BY <1>4 DEF ReleaseBoth
  <2>3. \A i \in Positions \ {0} : Untaken(i) = 0
    BY <1>1, <2>1 DEF Untaken
  <2>4. /\ ReleaseReceiver(refs) \in [Positions -> Nat]
        /\ \A i \in Positions \ {0} : ReleaseReceiver(refs)[i] = refs[i]
        /\ 0 \in Positions => ReleaseReceiver(refs)[0] = References(0)
    BY <1>1, <1>4, <2>1, ReceiverReleased
  <2> QED
    BY <1>1, <1>2, <2>1, <2>2, <2>3, <2>4
<1> QED
  BY <1>3, <1>4

\* A call ends with its result; a &mut receiver that was not shared is the result.
LEMMA ResultGiven ==
  ASSUME ArgumentsInv, generate_result_conversion
  PROVE  ArgumentsInv'
<1> USE ArgumentsAre
<1>1. /\ sig \in Signatures /\ at = "result" /\ at # NotCalled
      /\ refs \in [Positions -> Nat]
      /\ Leave(IF sig.receiver = "mut" THEN refs ELSE ReleaseBoth(refs), "value")
  BY WrapperCallsAssumption DEF ArgumentsInv, generate_result_conversion
<1>2. CASE sig.receiver = "mut"
  <2>1. /\ next \notin DOMAIN sig.params
        /\ \A i \in Positions : refs[i] = References(i) + Untaken(i)
    BY <1>1, <1>2 DEF ArgumentsInv
  <2>2. \A i \in Positions \ {0} : Untaken(i) = 0
    BY <1>1, <2>1 DEF Untaken, ArgumentsInv
  <2>3. ASSUME NEW i \in Positions
        PROVE  Settles(refs, "value", i)
    <3>1. ~OnObject(i) => References(i) = 0
      BY <1>1, BothReleased
    <3>2. CASE i = 0
      BY <1>1, <1>2, <2>1, <3>1, <3>2 DEF Settles, Untaken, HoldsReceiver
    <3>3. CASE i # 0
      BY <1>1, <2>1, <2>2, <3>1, <3>3 DEF Settles
    <3> QED
      BY <3>2, <3>3
  <2> QED
    BY <1>1, <1>2, <2>3, LeavingSettles
<1>3. CASE sig.receiver # "mut"
  <2>1. \A i \in Positions : Settles(ReleaseBoth(refs), "value", i)
    BY <1>1, <1>3, BothReleased DEF Settles
  <2> QED
    BY <1>1, <1>3, <2>1, BothReleased, LeavingSettles
<1> QED
  BY <1>2, <1>3

\* The user's function panics, or its result cannot be converted: both are released.
LEMMA FailureReleases ==
  ASSUME ArgumentsInv, UserPanics \/ ResultFails
  PROVE  ArgumentsInv'
<1> USE ArgumentsAre
<1>1. /\ sig \in Signatures /\ at \in {"user", "result"} /\ at # NotCalled
      /\ Leave(ReleaseBoth(refs), "panic")
  BY WrapperCallsAssumption DEF ArgumentsInv, UserPanics, ResultFails
<1>2. \A i \in Positions : Settles(ReleaseBoth(refs), "panic", i)
  BY <1>1, BothReleased DEF Settles
<1> QED
  BY <1>1, <1>2, BothReleased, LeavingSettles

\* A wrapper gives back every reference that it was given, once, on each way out: after
\* a result, a panic and an argument that cannot be converted (generate_*_wrapper,
\* generate_ffi_function).
THEOREM WrappersReleaseOnce == CallsSpec => []ArgumentsAreReleasedOnce
<1>1. CallsInit => ArgumentsInv
  BY WrapperCallsAssumption DEF CallsInit, ArgumentsInv, ArgumentsAreReleasedOnce
<1>2. ArgumentsInv /\ [CallsNext]_callVars => ArgumentsInv'
  <2> SUFFICES ASSUME ArgumentsInv, [CallsNext]_callVars
               PROVE  ArgumentsInv'
    OBVIOUS
  <2>1. CASE CallsNext
    BY <2>1, CallBegins, ReceiverTaken, ArgumentConverted, ConversionFailsCleanly,
       ArgumentsConverted, UserReturned, FailureReleases, ResultGiven DEF CallsNext
  <2>2. CASE UNCHANGED callVars
    <3>1. UNCHANGED <<sig, at, next, refs, kept, outcome>>
      BY <2>2 DEF callVars
    <3>2. sig \in Signatures
      BY DEF ArgumentsInv
    <3>3. \A i \in Positions : Untaken(i)' = Untaken(i)
      BY <3>1, <3>2, CallKeeps, ArgumentsAre DEF Untaken, HoldsReceiver
    <3> QED
      BY <3>1, <3>3, CallKeeps DEF ArgumentsInv, ArgumentsAreReleasedOnce
  <2> QED
    BY <2>1, <2>2
<1>3. ArgumentsInv => ArgumentsAreReleasedOnce
  BY DEF ArgumentsInv
<1> QED
  BY <1>1, <1>2, <1>3, PTL DEF CallsSpec

-----------------------------------------------------------------------------
\* IO actions.
HIDE BuildConfigAssumption

\* A set that holds 0 and with a number the next one holds every number.
LEMMA NumbersByInduction ==
  ASSUME NEW S, 0 \in S, \A n \in Nat : n \in S => n + 1 \in S
  PROVE  Nat \subseteq S
<1> DEFINE T == Nat \ S
<1>1. SUFFICES ASSUME T # {} PROVE FALSE
  OBVIOUS
<1>2. PICK x \in T : \A y \in T : ~(<<y, x>> \in OpToRel(<, Nat))
  <2>1. T \subseteq Nat
    OBVIOUS
  <2> HIDE DEF T
  <2>. QED
    BY <1>1, <2>1, NatLessThanWellFounded, WFMin
<1>3. x # 0
  BY <1>2
<1>4. x - 1 \in Nat /\ x - 1 < x
  BY <1>3
<1>5. <<x - 1, x>> \in OpToRel(<, Nat)
  BY <1>4 DEF OpToRel
<1>6. x - 1 \in S
  BY <1>2, <1>4, <1>5
<1>7. (x - 1) + 1 \in S
  BY <1>4, <1>6
<1>8. (x - 1) + 1 = x
  OBVIOUS
<1>. QED
  BY <1>7, <1>8

\* The same up to a bound.
LEMMA RangeByInduction ==
  ASSUME NEW d \in Nat, NEW S, 0 \in S, \A n \in Nat : n < d /\ n \in S => n + 1 \in S
  PROVE  \A n \in 0..d : n \in S
<1> DEFINE T == S \cup {n \in Nat : n > d}
<1>1. 0 \in T /\ \A n \in Nat : n \in T => n + 1 \in T
  OBVIOUS
<1>2. Nat \subseteq T
  <2> HIDE DEF T
  <2>. QED BY <1>1, NumbersByInduction
<1>. QED
  BY <1>2

-----------------------------------------------------------------------------
\* The actions as trees of closures
Nested(C) == [do : {"then"}, first : C, next : C]
Depth == MaxParts - 1

\* Closures is a function of every depth up to the bound.
LEMMA ClosuresExist ==
  Closures = [n \in 0..Depth |-> IF n = 0 THEN Primitives ELSE Closures[n - 1] \cup Nested(Closures[n - 1])]
<1> DEFINE Built(g, d) == g = [n \in 0..d |-> IF n = 0 THEN Primitives ELSE g[n - 1] \cup Nested(g[n - 1])]
           S == {d \in Nat : \E g : Built(g, d)}
<1>1. 0 \in S
  <2>1. Built([n \in 0..0 |-> Primitives], 0)
    OBVIOUS
  <2>. QED BY <2>1
<1>2. ASSUME NEW d \in Nat, d \in S
      PROVE  d + 1 \in S
  <2>1. PICK g : Built(g, d)
    BY <1>2
  <2> DEFINE h == [n \in 0..(d + 1) |-> IF n = d + 1 THEN g[d] \cup Nested(g[d]) ELSE g[n]]
  <2>2. ASSUME NEW n \in 0..(d + 1)
        PROVE  h[n] = IF n = 0 THEN Primitives ELSE h[n - 1] \cup Nested(h[n - 1])
    <3>1. CASE n = d + 1
      BY <3>1
    <3>2. CASE n \in 0..d
      <4>1. g[n] = IF n = 0 THEN Primitives ELSE g[n - 1] \cup Nested(g[n - 1])
        BY <2>1, <3>2
      <4>2. n # 0 => n - 1 \in 0..d
        BY <3>2
      <4>3. h[n] = g[n] /\ (n # 0 => h[n - 1] = g[n - 1])
        BY <3>2, <4>2
      <4>. QED BY <4>1, <4>3
    <3>. QED BY <3>1, <3>2
  <2>3. Built(h, d + 1)
    <3> DEFINE r == [n \in 0..(d + 1) |-> IF n = 0 THEN Primitives ELSE h[n - 1] \cup Nested(h[n - 1])]
    <3>1. \A n \in 0..(d + 1) : h[n] = r[n]
      BY <2>2
    <3>2. h = [n \in 0..(d + 1) |-> h[n]] /\ r = [n \in 0..(d + 1) |-> r[n]]
      OBVIOUS
    <3>. QED BY <3>1, <3>2
  <2>. HIDE DEF Built, h
  <2>. QED BY <2>3
<1>3. Depth \in Nat
  BY IoAssumption DEF Depth
<1>4. Depth \in S
  <2> HIDE DEF S
  <2>1. Nat \subseteq S
    BY <1>1, <1>2, NumbersByInduction
  <2>. QED BY <2>1, <1>3
<1>5. PICK g : Built(g, Depth)
  BY <1>4
<1>. QED
  BY <1>5, Zenon DEF Closures, Depth, Nested

\* Closures grow, and a sequence is deeper than its parts.
LEMMA ClosuresGrow ==
  ASSUME NEW n \in 1..Depth
  PROVE  Closures[n] = Closures[n - 1] \cup Nested(Closures[n - 1])
<1>1. n \in 0..Depth /\ n # 0
  BY IoAssumption DEF Depth
<1>. HIDE DEF Nested
<1>. QED BY ONLY <1>1, ClosuresExist

\* The least deep closures are the primitives, the deepest are the actions.
LEMMA ClosuresStart == Closures[0] = Primitives /\ Depth \in Nat /\ Actions = Closures[Depth]
BY ClosuresExist, IoAssumption DEF Depth, Actions

\* A closure stays one when more nesting is allowed.
LEMMA ClosuresKept ==
  ASSUME NEW n \in 0..Depth, NEW io \in Closures[n], NEW k \in n..Depth
  PROVE  io \in Closures[k]
<1> DEFINE S == {j \in Nat : j >= n => io \in Closures[j]}
<1>1. 0 \in S
  OBVIOUS
<1>2. ASSUME NEW j \in Nat, j < Depth, j \in S
      PROVE  j + 1 \in S
  <2>1. Closures[j + 1] = Closures[j] \cup Nested(Closures[j])
    BY <1>2, ClosuresGrow, ClosuresStart
  <2>2. CASE j + 1 = n
    BY <2>2
  <2>3. CASE j + 1 # n
    BY <2>1, <2>3, <1>2, ClosuresStart
  <2>. QED BY <2>2, <2>3
<1>. HIDE DEF S
<1>3. \A j \in 0..Depth : j \in S
  BY <1>1, <1>2, ClosuresStart, RangeByInduction
<1>. USE DEF S
<1>. QED
  BY <1>3, ClosuresStart

\* A primitive is neither a sequence of `then' nor no action.
LEMMA PrimitivesAreNoSequences ==
  ASSUME NEW io \in Primitives
  PROVE  io.do # "then" /\ io.do # "nothing"
BY IoAssumption DEF Primitives, FreePrimitives, open, set_exit_code, get_exit_code, pure, console

\* A closure is a primitive, or a sequence of two closures that are less deep.
LEMMA ClosureShape ==
  ASSUME NEW n \in 0..Depth, NEW io \in Closures[n]
  PROVE  /\ io.do # "nothing"
         /\ io.do # "then" => io \in Primitives
         /\ io.do = "then" => /\ n > 0 /\ io.first \in Closures[n - 1] /\ io.next \in Closures[n - 1]
                              /\ io = [do |-> "then", first |-> io.first, next |-> io.next]
<1> DEFINE Shape(j, c) ==
      /\ c.do # "nothing"
      /\ c.do # "then" => c \in Primitives
      /\ c.do = "then" => /\ j > 0 /\ c.first \in Closures[j - 1] /\ c.next \in Closures[j - 1]
                          /\ c = [do |-> "then", first |-> c.first, next |-> c.next]
           S == {j \in Nat : \A c \in Closures[j] : Shape(j, c)}
<1>1. 0 \in S
  BY ClosuresStart, PrimitivesAreNoSequences
<1>2. ASSUME NEW j \in Nat, j < Depth, j \in S
      PROVE  j + 1 \in S
  <2>1. ASSUME NEW c \in Closures[j + 1]
        PROVE  Shape(j + 1, c)
    <3>1. c \in Closures[j] \/ c \in Nested(Closures[j])
      BY <1>2, ClosuresGrow, ClosuresStart
    <3>2. CASE c \in Nested(Closures[j])
      BY <3>2 DEF Nested
    <3>3. CASE c \in Closures[j]
      <4>1. Shape(j, c)
        BY <1>2, <3>3
      <4>2. CASE c.do = "then"
        <5>1. j > 0 /\ j - 1 \in 0..Depth /\ j \in (j - 1)..Depth
          BY <4>1, <4>2, <1>2, ClosuresStart
        <5>2. c.first \in Closures[j] /\ c.next \in Closures[j]
          BY <4>1, <4>2, <5>1, ClosuresKept
        <5>. QED BY <4>1, <4>2, <5>2
      <4>. QED BY <4>1, <4>2
    <3>. QED BY <3>1, <3>2, <3>3
  <2>. HIDE DEF Shape
  <2>. QED BY <2>1
<1>3. \A j \in 0..Depth : j \in S
  <2> HIDE DEF S
  <2>. QED BY <1>1, <1>2, ClosuresStart, RangeByInduction
<1>4. n \in S
  BY <1>3
<1>. QED
  BY <1>4

\* What holds of the primitives, and of a sequence when it holds of its two
\* parts, holds of every action.
LEMMA ActionsByInduction ==
  ASSUME NEW S, Primitives \subseteq S,
         \A io \in Actions : io.do = "then" /\ io.first \in Actions \cap S /\ io.next \in Actions \cap S => io \in S
  PROVE  Actions \subseteq S
<1> DEFINE T == {n \in Nat : Closures[n] \subseteq S}
<1>1. 0 \in T
  BY ClosuresStart
<1>2. ASSUME NEW n \in Nat, n < Depth, n \in T
      PROVE  n + 1 \in T
  <2>1. ASSUME NEW io \in Closures[n + 1], io.do = "then"
        PROVE  io \in S
    <3>1. n + 1 \in 0..Depth /\ Depth \in (n + 1)..Depth /\ Depth \in n..Depth /\ n \in 0..Depth
      BY <1>2, ClosuresStart
    <3>2. io.first \in Closures[n] /\ io.next \in Closures[n]
      BY <2>1, <3>1, ClosureShape
    <3>3. io \in Actions /\ io.first \in Actions /\ io.next \in Actions
      BY <3>1, <3>2, ClosuresKept, ClosuresStart
    <3>. QED BY <1>2, <2>1, <3>2, <3>3
  <2>2. ASSUME NEW io \in Closures[n + 1], io.do # "then"
        PROVE  io \in S
    <3>1. n + 1 \in 0..Depth
      BY <1>2, ClosuresStart
    <3>. QED BY <2>2, <3>1, ClosureShape
  <2>. QED BY <2>1, <2>2
<1>3. \A n \in 0..Depth : n \in T
  <2> HIDE DEF T
  <2>. QED BY <1>1, <1>2, ClosuresStart, RangeByInduction
<1>4. Depth \in T
  BY <1>3, ClosuresStart
<1>. QED
  BY <1>4, ClosuresStart

\* PartsOf is a function of all actions.
LEMMA PartsExist ==
  PartsOf = [io \in Actions |-> IF io.do = "then" THEN PartsOf[io.first] \o PartsOf[io.next] ELSE <<io>>]
<1> DEFINE Parts2(p, io) == IF io.do = "then" THEN p[io.first] \o p[io.next] ELSE <<io>>
           S == {n \in Nat : \E p : p = [io \in Closures[n] |-> Parts2(p, io)]}
<1>1. 0 \in S
  <2> DEFINE p == [io \in Primitives |-> <<io>>]
  <2>1. \A io \in Primitives : Parts2(p, io) = <<io>>
    BY PrimitivesAreNoSequences
  <2>2. p = [io \in Closures[0] |-> Parts2(p, io)]
    BY <2>1, ClosuresStart
  <2>. QED BY <2>2
<1>2. ASSUME NEW n \in Nat, n < Depth, n \in S
      PROVE  n + 1 \in S
  <2>1. PICK p : p = [io \in Closures[n] |-> Parts2(p, io)]
    BY <1>2
  <2> DEFINE q == [io \in Closures[n + 1] |-> Parts2(p, io)]
  <2>2. n + 1 \in 0..Depth /\ n + 1 \in n..Depth /\ n \in 0..Depth
    BY <1>2, ClosuresStart
  <2>3. ASSUME NEW io \in Closures[n]
        PROVE  q[io] = p[io]
    BY <2>1, <2>2, ClosuresKept
  <2>4. ASSUME NEW io \in Closures[n + 1]
        PROVE  Parts2(q, io) = Parts2(p, io)
    <3>1. io.do = "then" => io.first \in Closures[n] /\ io.next \in Closures[n]
      BY <2>2, ClosureShape
    <3>. HIDE DEF q
    <3>. QED BY <2>3, <3>1
  <2>5. q = [io \in Closures[n + 1] |-> Parts2(q, io)]
    <3> DEFINE r == [io \in Closures[n + 1] |-> Parts2(q, io)]
    <3>1. \A io \in Closures[n + 1] : r[io] = q[io]
      BY <2>4
    <3>2. q = [io \in Closures[n + 1] |-> q[io]] /\ r = [io \in Closures[n + 1] |-> r[io]]
      <4> HIDE DEF Parts2
      <4>. QED OBVIOUS
    <3>. HIDE DEF q, r
    <3>3. q = r
      BY <3>1, <3>2
    <3>. QED BY <3>3 DEF r
  <2>. HIDE DEF q, Parts2
  <2>. QED BY <2>5
<1>3. \A n \in 0..Depth : n \in S
  <2> HIDE DEF S
  <2>. QED BY <1>1, <1>2, ClosuresStart, RangeByInduction
<1>4. Depth \in S
  <2> HIDE DEF S
  <2>. QED BY <1>3, ClosuresStart
<1>5. PICK p : p = [io \in Actions |-> Parts2(p, io)]
  BY <1>4, ClosuresStart
<1>. QED
  BY <1>5, Zenon DEF PartsOf

-----------------------------------------------------------------------------
\* Running an action
Applied(f, io, m) ==
  IF io.do # "then" THEN Primitive(m, io)
  ELSE LET m1 == f[io.first][m]
       IN IF ~m1.result.ok THEN m1 ELSE f[io.next][m1]

\* RunClosure is a function of all actions.
LEMMA RunExists == RunClosure = [io \in Actions |-> [m \in Worlds |-> Applied(RunClosure, io, m)]]
<1> DEFINE S == {n \in Nat : \E p : p = [io \in Closures[n] |-> [m \in Worlds |-> Applied(p, io, m)]]}
<1>1. 0 \in S
  <2> DEFINE p == [io \in Closures[0] |-> [m \in Worlds |-> Primitive(m, io)]]
  <2>1. \A io \in Closures[0] : \A m \in Worlds : Applied(p, io, m) = Primitive(m, io)
    BY PrimitivesAreNoSequences, ClosuresStart DEF Applied
  <2>2. \A io \in Closures[0] : [m \in Worlds |-> Applied(p, io, m)] = [m \in Worlds |-> Primitive(m, io)]
    BY <2>1
  <2>3. p = [io \in Closures[0] |-> [m \in Worlds |-> Applied(p, io, m)]]
    BY <2>2
  <2>. HIDE DEF p
  <2>. QED BY <2>3
<1>2. ASSUME NEW n \in Nat, n < Depth, n \in S
      PROVE  n + 1 \in S
  <2>1. PICK p : p = [io \in Closures[n] |-> [m \in Worlds |-> Applied(p, io, m)]]
    BY <1>2
  <2> DEFINE q == [io \in Closures[n + 1] |-> [m \in Worlds |-> Applied(p, io, m)]]
  <2>2. n + 1 \in 0..Depth /\ n + 1 \in n..Depth /\ n \in 0..Depth
    BY <1>2, ClosuresStart
  <2>3. ASSUME NEW io \in Closures[n]
        PROVE  q[io] = p[io]
    <3>1. io \in Closures[n + 1]
      BY <2>2, ClosuresKept
    <3>. QED BY <2>1, <3>1
  <2>4. ASSUME NEW io \in Closures[n + 1]
        PROVE  [m \in Worlds |-> Applied(q, io, m)] = [m \in Worlds |-> Applied(p, io, m)]
    <3>1. io.do = "then" => io.first \in Closures[n] /\ io.next \in Closures[n]
      BY <2>2, ClosureShape
    <3>. HIDE DEF q
    <3>2. \A m : Applied(q, io, m) = Applied(p, io, m)
      BY <2>3, <3>1 DEF Applied
    <3>. QED BY <3>2
  <2>5. q = [io \in Closures[n + 1] |-> [m \in Worlds |-> Applied(q, io, m)]]
    <3> DEFINE r == [io \in Closures[n + 1] |-> [m \in Worlds |-> Applied(q, io, m)]]
    <3>1. \A io \in Closures[n + 1] : r[io] = q[io]
      BY <2>4
    <3>2. q = [io \in Closures[n + 1] |-> q[io]] /\ r = [io \in Closures[n + 1] |-> r[io]]
      OBVIOUS
    <3>. HIDE DEF q, r
    <3>3. q = r
      BY <3>1, <3>2
    <3>. QED BY <3>3 DEF r
  <2>. HIDE DEF q
  <2>. QED BY <2>5
<1>3. \A n \in 0..Depth : n \in S
  <2> HIDE DEF S
  <2>. QED BY <1>1, <1>2, ClosuresStart, RangeByInduction
<1>4. Depth \in S
  <2> HIDE DEF S
  <2>. QED BY <1>3, ClosuresStart
<1>5. PICK p : p = [io \in Actions |-> [m \in Worlds |-> Applied(p, io, m)]]
  BY <1>4, ClosuresStart
<1>. QED
  BY <1>5, Zenon DEF RunClosure, Applied

\* What a run of steps makes of the world m: the primitives of steps are done one
\* after the other, up to the first that fails; open files stay as they are,
\* and a handle that comes back is new.
Runs(m, m2, steps) ==
  LET k == Len(m2.done) - Len(m.done) IN
  /\ m2 \in Worlds
  /\ k \in 1..Len(steps)
  /\ \A i \in 1..Len(m.done) : m2.done[i] = m.done[i]
  /\ \A i \in 1..k : LET d == m2.done[Len(m.done) + i] IN d.io = steps[i] /\ (d.ok \/ i = k)
  /\ m2.result.ok = m2.done[Len(m2.done)].ok
  /\ k < Len(steps) => ~m2.result.ok
  /\ \A h \in Files : m.opened[h].rc > 0 => m2.opened[h] = m.opened[h]
  /\ m2.result.value \in Files =>
       m2.result.ok /\ m.opened[m2.result.value].rc = 0 /\ m2.opened[m2.result.value].rc = 1

\* What a world has done is counted.
LEMMA WorldLengths ==
  ASSUME NEW m \in Worlds
  PROVE  Len(m.done) \in Nat
<1>1. m.done \in Seq([io : Primitives, ok : BOOLEAN])
  BY DEF Worlds
<1>. QED
  BY <1>1

\* The lengths of a world, of the next and of the one after it.
LEMMA Lengths ==
  ASSUME NEW l \in Nat, NEW l1 \in Nat, NEW l2 \in Nat, NEW la \in Nat, NEW lb \in Nat,
         l1 - l \in 1..la, ~(l1 - l < la), l2 - l1 \in 1..lb
  PROVE  /\ l1 = l + la
         /\ l2 - l = la + (l2 - l1)
         /\ l2 - l \in 1..(la + lb)
         /\ l2 - l < la + lb => l2 - l1 < lb
         /\ \A i \in 1..(l2 - l) : i > la => /\ i - la \in 1..(l2 - l1) /\ l1 + (i - la) = l + i
                                           /\ la + (i - la) = i /\ i - la \in 1..lb
                                           /\ (i - la = l2 - l1 => i = l2 - l)
         /\ \A i \in 1..(l2 - l) : i <= la => i \in 1..la /\ l + i \in 1..l1 /\ (i = la => l + i = l1)
         /\ \A i \in 1..l : i \in 1..l1
OBVIOUS

\* When the first action fails, that is the run of the sequence.
LEMMA RunsFails ==
  ASSUME NEW m \in Worlds, NEW m1, NEW a \in Seq(Primitives), NEW b \in Seq(Primitives),
         Runs(m, m1, a), ~m1.result.ok
  PROVE  Runs(m, m1, a \o b)
<1> DEFINE k == Len(m1.done) - Len(m.done)
<1>1. \A i \in 1..Len(a) : (a \o b)[i] = a[i]
  OBVIOUS
<1>2. Len(a \o b) = Len(a) + Len(b) /\ Len(a) \in Nat /\ Len(b) \in Nat
  OBVIOUS
<1>3. k \in 1..Len(a)
  BY DEF Runs
<1>. HIDE DEF k
<1>4. k \in 1..Len(a \o b) /\ \A i \in 1..k : i \in 1..Len(a)
  BY <1>2, <1>3
<1>5. ASSUME NEW i \in 1..k
      PROVE  LET d == m1.done[Len(m.done) + i] IN d.io = (a \o b)[i] /\ (d.ok \/ i = k)
  <2>1. (a \o b)[i] = a[i]
    BY <1>1, <1>4
  <2>. QED BY <2>1 DEF Runs, k
<1>. QED
  BY <1>4, <1>5 DEF Runs, k

\* When the first action comes back well, the run of the second follows it.
LEMMA RunsOn ==
  ASSUME NEW m \in Worlds, NEW m1 \in Worlds, NEW m2 \in Worlds, NEW a \in Seq(Primitives), NEW b \in Seq(Primitives),
         Runs(m, m1, a), m1.result.ok, Runs(m1, m2, b)
  PROVE  Runs(m, m2, a \o b)
<1> DEFINE l == Len(m.done)
           l1 == Len(m1.done)
           l2 == Len(m2.done)
           la == Len(a)
           lb == Len(b)
<1>1. \A i \in 1..la : (a \o b)[i] = a[i]
  OBVIOUS
<1>2. Len(a \o b) = la + lb /\ la \in Nat /\ lb \in Nat
  OBVIOUS
<1>3. \A i \in 1..lb : (a \o b)[la + i] = b[i]
  OBVIOUS
<1>4. l \in Nat /\ l1 \in Nat /\ l2 \in Nat
  BY WorldLengths
<1>5. l1 - l \in 1..la /\ ~(l1 - l < la) /\ l2 - l1 \in 1..lb
  BY DEF Runs
<1>6. /\ \A i \in 1..l : m1.done[i] = m.done[i]
      /\ \A i \in 1..l1 : m2.done[i] = m1.done[i]
      /\ \A i \in 1..(l1 - l) : m1.done[l + i].io = a[i] /\ (m1.done[l + i].ok \/ i = l1 - l)
      /\ \A i \in 1..(l2 - l1) : m2.done[l1 + i].io = b[i] /\ (m2.done[l1 + i].ok \/ i = l2 - l1)
      /\ m1.done[l1].ok
      /\ m2.result.ok = m2.done[l2].ok
      /\ l2 - l1 < lb => ~m2.result.ok
  BY DEF Runs
<1>7. /\ \A h \in Files : m.opened[h].rc > 0 => m2.opened[h] = m.opened[h]
      /\ m2.result.value \in Files => m2.result.ok /\ m2.opened[m2.result.value].rc = 1
  BY DEF Runs
<1>8. m2.result.value \in Files => m.opened[m2.result.value].rc = 0
  <2>1. m2.result.value \in Files => m.opened[m2.result.value].rc \in Nat
    BY DEF Worlds, HandleStates
  <2>. QED BY <2>1 DEF Runs
<1>. HIDE DEF l, l1, l2, la, lb
<1>9. /\ l1 = l + la
      /\ l2 - l = la + (l2 - l1)
      /\ l2 - l \in 1..(la + lb)
      /\ l2 - l < la + lb => l2 - l1 < lb
      /\ \A i \in 1..(l2 - l) : i > la => /\ i - la \in 1..(l2 - l1) /\ l1 + (i - la) = l + i
                                        /\ la + (i - la) = i /\ i - la \in 1..lb
                                        /\ (i - la = l2 - l1 => i = l2 - l)
      /\ \A i \in 1..(l2 - l) : i <= la => i \in 1..la /\ l + i \in 1..l1 /\ (i = la => l + i = l1)
      /\ \A i \in 1..l : i \in 1..l1
  BY <1>2, <1>4, <1>5, Lengths
<1>10. l1 - l = la
  BY <1>9, <1>2, <1>4
<1>11. ASSUME NEW i \in 1..(l2 - l)
       PROVE  m2.done[l + i].io = (a \o b)[i] /\ (m2.done[l + i].ok \/ i = l2 - l)
  <2>1. CASE i <= la
    <3>1. i \in 1..la /\ l + i \in 1..l1 /\ (i = la => l + i = l1)
      BY <2>1, <1>9
    <3>2. m2.done[l + i] = m1.done[l + i] /\ (a \o b)[i] = a[i]
      BY <3>1, <1>6, <1>1
    <3>3. m1.done[l + i].io = a[i] /\ (m1.done[l + i].ok \/ i = la)
      BY <3>1, <1>6, <1>10
    <3>. QED BY <3>1, <3>2, <3>3, <1>6
  <2>2. CASE i > la
    <3>1. /\ i - la \in 1..(l2 - l1) /\ l1 + (i - la) = l + i
          /\ la + (i - la) = i /\ i - la \in 1..lb
          /\ (i - la = l2 - l1 => i = l2 - l)
      BY <2>2, <1>9
    <3> DEFINE j == i - la
    <3>2. j \in 1..(l2 - l1) /\ l1 + j = l + i /\ la + j = i /\ j \in 1..lb /\ (j = l2 - l1 => i = l2 - l)
      BY <3>1
    <3>. HIDE DEF j
    <3>3. m2.done[l1 + j].io = b[j] /\ (m2.done[l1 + j].ok \/ j = l2 - l1)
      BY <3>2, <1>6
    <3>4. (a \o b)[la + j] = b[j]
      BY <3>2, <1>3
    <3>5. m2.done[l + i].io = b[j] /\ (a \o b)[i] = b[j]
      BY <3>2, <3>3, <3>4
    <3>6. m2.done[l + i].ok \/ i = l2 - l
      BY <3>2, <3>3
    <3>. QED BY <3>5, <3>6
  <2>3. l2 - l \in Int /\ la \in Int
    BY <1>2, <1>4
  <2>4. i <= la \/ i > la
    BY <2>3
  <2>. QED BY <2>1, <2>2, <2>4
<1>12. \A i \in 1..l : m2.done[i] = m.done[i]
  BY <1>6, <1>9
<1>13. l2 - l \in 1..Len(a \o b) /\ (l2 - l < Len(a \o b) => ~m2.result.ok)
  BY <1>2, <1>6, <1>9
<1>. QED
  BY <1>6, <1>7, <1>8, <1>11, <1>12, <1>13 DEF Runs, l, l2

\* A primitive is one step.
IsStep(m, io, after) ==
  /\ after \in Worlds /\ after.done = m.done /\ after.works = m.works
  /\ \A h \in Files : m.opened[h].rc > 0 => after.opened[h] = m.opened[h]
  /\ after.result.value \in Files =>
       after.result.ok /\ m.opened[after.result.value].rc = 0 /\ after.opened[after.result.value].rc = 1

\* To fail of something is a step of a primitive.
LEMMA ErrSteps ==
  ASSUME NEW m \in Worlds, NEW io, NEW error \in IoErrors
  PROVE  IsStep(m, io, Err(m, error))
<1>1. error \in Files \cup IoValues /\ error \notin Files
  BY HandlesAssumption DEF IoValues
<1>. QED
  BY <1>1 DEF IsStep, Err, Worlds, Results

\* To give back a plain value is a step of a primitive.
LEMMA OkSteps ==
  ASSUME NEW m \in Worlds, NEW io, NEW v \in IoValues
  PROVE  IsStep(m, io, Ok(m, v))
<1>1. v \in Files \cup IoValues /\ v \notin Files
  BY HandlesAssumption
<1>. QED
  BY <1>1 DEF IsStep, Ok, Worlds, Results

\* `open' takes a handle that is not in use, or fails.
LEMMA OpenSteps ==
  ASSUME NEW m \in Worlds, NEW io \in Primitives, io.do = "open"
  PROVE  IsStep(m, io, OpenFile(m, io))
<1>1. io.path \in Paths /\ io.mode \in Modes
  BY IoAssumption DEF Primitives, FreePrimitives, open, set_exit_code, get_exit_code, pure, console
<1> DEFINE h == CHOOSE h \in Files : m.opened[h].rc = 0
           error == OpenError(m, io)
<1>2. CASE error # "none"
  <2>1. error \in IoErrors
    BY <1>2 DEF OpenError, IoErrors
  <2>. QED BY <1>2, <2>1, ErrSteps DEF OpenFile
<1>3. CASE error = "none"
  <2>1. m.opened \in [Files -> HandleStates] /\ m.fs \in [Paths -> PathKinds]
    BY DEF Worlds
  <2>2. \E f \in Files : m.opened[f].rc = 0
    <3>1. ~(\A f \in Files : m.opened[f].rc > 0)
      BY <1>3 DEF OpenError
    <3>. QED BY <3>1, <2>1 DEF HandleStates
  <2>3. h \in Files /\ m.opened[h].rc = 0
    BY <2>2
  <2> DEFINE fs2 == [m.fs EXCEPT ![io.path] = IF @ = "nothing" THEN "file" ELSE @]
             opened2 == [m.opened EXCEPT ![h] = [mode |-> io.mode, rc |-> 1]]
             after == Ok([m EXCEPT !.fs[io.path] = IF @ = "nothing" THEN "file" ELSE @,
                                   !.opened[h] = [mode |-> io.mode, rc |-> 1]], h)
  <2>. HIDE DEF h
  <2>4. fs2 \in [Paths -> PathKinds]
    BY <2>1, <1>1 DEF PathKinds
  <2>5. opened2 \in [Files -> HandleStates] /\ opened2[h].rc = 1
        /\ \A f \in Files : m.opened[f].rc > 0 => opened2[f] = m.opened[f]
    BY <2>1, <2>3, <1>1 DEF HandleStates
  <2>6. /\ after.fs = fs2 /\ after.opened = opened2 /\ after.exit_code = m.exit_code
        /\ after.done = m.done /\ after.works = m.works /\ after.result = [ok |-> TRUE, value |-> h]
    BY DEF Ok, Worlds
  <2>7. after = [fs |-> fs2, opened |-> opened2, exit_code |-> m.exit_code, done |-> m.done,
                 result |-> [ok |-> TRUE, value |-> h], works |-> m.works]
    <3>1. m = [fs |-> m.fs, opened |-> m.opened, exit_code |-> m.exit_code, done |-> m.done,
               result |-> m.result, works |-> m.works]
      BY DEF Worlds
    <3> DEFINE m3 == [m EXCEPT !.fs[io.path] = IF @ = "nothing" THEN "file" ELSE @,
                               !.opened[h] = [mode |-> io.mode, rc |-> 1]]
    <3>2. m3 = [m EXCEPT !.fs = fs2, !.opened = opened2]
      OBVIOUS
    <3>3. after = [[m EXCEPT !.fs = fs2, !.opened = opened2] EXCEPT !.result = [ok |-> TRUE, value |-> h]]
      BY <3>2 DEF Ok
    <3>. HIDE DEF fs2, opened2, after
    <3>. QED BY <3>1, <3>3
  <2>8. [ok |-> TRUE, value |-> h] \in Results
    BY <2>3 DEF Results
  <2>9. after \in Worlds
    <3>. HIDE DEF fs2, opened2, after
    <3>. QED BY <2>4, <2>5, <2>7, <2>8 DEF Worlds
  <2>10. OpenFile(m, io) = after
    BY <1>3 DEF OpenFile, h
  <2>. HIDE DEF opened2, after
  <2>. QED BY <2>3, <2>5, <2>6, <2>9, <2>10 DEF IsStep
<1>. QED
  BY <1>2, <1>3

\* Running a primitive does that primitive.
LEMMA PrimitiveRuns ==
  ASSUME NEW m \in Worlds, NEW io \in Primitives
  PROVE  Runs(m, Primitive(m, io), <<io>>)
<1> DEFINE fails == m.works = Len(m.done) /\ io.do \in HandleOps \cup {"open", "console"}
           after == IF fails THEN Err(m, "otherError")
                    ELSE CASE io.do = "open" -> OpenFile(m, io)
                           [] io.do \in HandleOps -> HandleOp(m, io)
                           [] io.do = "set_exit_code" -> Ok([m EXCEPT !.exit_code = io.code], "unit")
                           [] io.do = "get_exit_code" -> Ok(m, m.exit_code)
                           [] OTHER -> Ok(m, "unit")
           m2 == Primitive(m, io)
<1>1. IsStep(m, io, after)
  <2>1. CASE fails
    <3>1. after = Err(m, "otherError")
      BY <2>1
    <3>. QED BY <3>1, ErrSteps DEF IoErrors
  <2>2. CASE ~fails /\ io.do = "open"
    <3>1. after = OpenFile(m, io)
      BY <2>2, IoAssumption
    <3>. QED BY <2>2, <3>1, OpenSteps
  <2>3. CASE ~fails /\ io.do \in HandleOps
    <3>1. io.do # "open"
      BY <2>3, IoAssumption
    <3>2. IsStep(m, io, HandleOp(m, io))
      BY <2>3, OkSteps, ErrSteps DEF HandleOp, IoValues, IoErrors
    <3>3. after = HandleOp(m, io)
      BY <2>3, <3>1, IoAssumption
    <3>. QED BY <3>2, <3>3
  <2>4. CASE ~fails /\ io.do = "set_exit_code"
    <3>1. io.code = "failure"
      BY <2>4, IoAssumption DEF Primitives, FreePrimitives, open, set_exit_code, get_exit_code, pure, console
    <3>2. [m EXCEPT !.exit_code = io.code] \in Worlds
      BY <3>1 DEF Worlds, ExitCodes
    <3>3. IsStep([m EXCEPT !.exit_code = io.code], io, Ok([m EXCEPT !.exit_code = io.code], "unit"))
      BY <3>2, OkSteps DEF IoValues
    <3>4. IsStep(m, io, Ok([m EXCEPT !.exit_code = io.code], "unit"))
      BY <3>3 DEF IsStep, Worlds
    <3>5. after = Ok([m EXCEPT !.exit_code = io.code], "unit")
      BY <2>4, IoAssumption
    <3>. QED BY <3>4, <3>5
  <2>5. CASE ~fails /\ io.do = "get_exit_code"
    <3>1. m.exit_code \in IoValues
      BY DEF Worlds, IoValues
    <3>2. after = Ok(m, m.exit_code)
      BY <2>5, IoAssumption
    <3>. QED BY <3>1, <3>2, OkSteps
  <2>6. CASE ~fails /\ io.do \notin HandleOps \cup {"open", "set_exit_code", "get_exit_code"}
    <3>1. after = Ok(m, "unit")
      BY <2>6
    <3>. QED BY <3>1, OkSteps DEF IoValues
  <2>. QED BY <2>1, <2>2, <2>3, <2>4, <2>5, <2>6
<1>2. m2 = [after EXCEPT !.done = Append(@, [io |-> io, ok |-> after.result.ok])]
  BY DEF Primitive
<1>. HIDE DEF after, m2
<1> DEFINE d == [io |-> io, ok |-> after.result.ok]
<1>3. after \in Worlds /\ after.done = m.done /\ after.works = m.works
  BY <1>1 DEF IsStep
<1>4. /\ m2.opened = after.opened /\ m2.result = after.result
      /\ m2.done = Append(m.done, d)
  BY <1>2, <1>3 DEF Worlds
<1>5. d \in [io : Primitives, ok : BOOLEAN] /\ m.done \in Seq([io : Primitives, ok : BOOLEAN])
  BY <1>3 DEF Worlds, Results
<1>6. m2 \in Worlds
  <2>1. Append(m.done, d) \in Seq([io : Primitives, ok : BOOLEAN])
    BY <1>5
  <2>. HIDE DEF d
  <2>. QED BY <1>2, <1>3, <2>1 DEF Worlds, d
<1>7. Len(m2.done) = Len(m.done) + 1 /\ Len(m.done) \in Nat
      /\ m2.done[Len(m.done) + 1] = d /\ (\A i \in 1..Len(m.done) : m2.done[i] = m.done[i])
  <2>. HIDE DEF d
  <2>. QED BY <1>4, <1>5
<1>8. d.io = io /\ d.ok = after.result.ok /\ Len(<<io>>) = 1 /\ <<io>>[1] = io
  OBVIOUS
<1>9. Len(m2.done) - Len(m.done) = 1
  BY <1>7
<1>. HIDE DEF d
<1>10. \A i \in 1..1 : m2.done[Len(m.done) + i] = d /\ <<io>>[i] = io
  BY <1>7, <1>8
<1>11. Len(m2.done) - Len(m.done) \in 1..Len(<<io>>) /\ ~(Len(m2.done) - Len(m.done) < Len(<<io>>))
  <2> DEFINE k == Len(m2.done) - Len(m.done)
             n == Len(<<io>>)
  <2>1. k = 1 /\ n = 1
    BY <1>8, <1>9
  <2>. HIDE DEF k, n
  <2>2. k \in 1..n /\ ~(k < n)
    BY <2>1
  <2>. QED BY <2>2 DEF k, n
<1>12. m2.result.ok = m2.done[Len(m2.done)].ok
  BY <1>4, <1>7, <1>8
<1>13. /\ \A h \in Files : m.opened[h].rc > 0 => m2.opened[h] = m.opened[h]
       /\ m2.result.value \in Files =>
            m2.result.ok /\ m.opened[m2.result.value].rc = 0 /\ m2.opened[m2.result.value].rc = 1
  BY <1>1, <1>4 DEF IsStep
<1>14. \A i \in 1..(Len(m2.done) - Len(m.done)) :
         m2.done[Len(m.done) + i].io = <<io>>[i] /\ (m2.done[Len(m.done) + i].ok \/ i = Len(m2.done) - Len(m.done))
  BY <1>8, <1>9, <1>10
<1>15. Runs(m, m2, <<io>>)
  BY <1>6, <1>7, <1>11, <1>12, <1>13, <1>14 DEF Runs
<1>. QED
  BY <1>15 DEF m2

\* PartsOf gives sequences of primitives, and none is empty.
LEMMA PartsType == PartsOf \in [Actions -> Seq(Primitives) \ {<<>>}]
<1> DEFINE S == {io \in Actions : PartsOf[io] \in Seq(Primitives) \ {<<>>}}
<1>1. ASSUME NEW io \in Primitives
      PROVE  io \in S
  <2>1. io \in Actions
    BY ClosuresStart, ClosuresKept
  <2>2. PartsOf[io] = <<io>>
    BY <2>1, PrimitivesAreNoSequences, PartsExist
  <2>3. <<io>> \in Seq(Primitives) /\ <<io>> # <<>>
    OBVIOUS
  <2>. QED BY <2>1, <2>2, <2>3
<1>2. ASSUME NEW io \in Actions, io.do = "then", io.first \in Actions \cap S, io.next \in Actions \cap S
      PROVE  io \in S
  <2>1. PartsOf[io] = PartsOf[io.first] \o PartsOf[io.next]
    BY <1>2, PartsExist
  <2>2. PartsOf[io.first] \in Seq(Primitives) \ {<<>>} /\ PartsOf[io.next] \in Seq(Primitives) \ {<<>>}
    BY <1>2
  <2>3. ASSUME NEW p \in Seq(Primitives), p # <<>>, NEW q \in Seq(Primitives)
        PROVE  p \o q \in Seq(Primitives) /\ p \o q # <<>>
    BY <2>3
  <2>. QED BY <2>1, <2>2, <2>3
<1>3. Actions \subseteq S
  <2> HIDE DEF S
  <2>. QED BY <1>1, <1>2, ActionsByInduction
<1>. QED
  BY <1>3, PartsExist

\* Running an action does its parts.
LEMMA ActionRuns ==
  ASSUME NEW io \in Actions, NEW m \in Worlds
  PROVE  Runs(m, RunClosure[io][m], PartsOf[io])
<1> DEFINE S == {a \in Actions : \A w \in Worlds : Runs(w, RunClosure[a][w], PartsOf[a])}
<1>1. ASSUME NEW a \in Primitives
      PROVE  a \in S
  <2>1. a \in Actions
    BY ClosuresStart, ClosuresKept
  <2>2. PartsOf[a] = <<a>>
    BY <2>1, PrimitivesAreNoSequences, PartsExist
  <2>3. \A w \in Worlds : RunClosure[a][w] = Primitive(w, a)
    BY <2>1, PrimitivesAreNoSequences, RunExists DEF Applied
  <2>. QED BY <2>1, <2>2, <2>3, PrimitiveRuns
<1>2. ASSUME NEW a \in Actions, a.do = "then", a.first \in Actions \cap S, a.next \in Actions \cap S
      PROVE  a \in S
  <2>1. SUFFICES ASSUME NEW w \in Worlds PROVE Runs(w, RunClosure[a][w], PartsOf[a])
    OBVIOUS
  <2> DEFINE w1 == RunClosure[a.first][w]
             w2 == RunClosure[a.next][w1]
             p == PartsOf[a.first]
             q == PartsOf[a.next]
  <2>2. PartsOf[a] = p \o q /\ p \in Seq(Primitives) /\ q \in Seq(Primitives)
    BY <1>2, PartsExist, PartsType
  <2>3. RunClosure[a][w] = IF ~w1.result.ok THEN w1 ELSE w2
    <3>1. RunClosure[a] = [v \in Worlds |-> Applied(RunClosure, a, v)]
      BY RunExists
    <3>2. RunClosure[a][w] = Applied(RunClosure, a, w)
      BY <3>1
    <3>. QED BY <3>2, <1>2 DEF Applied
  <2>4. Runs(w, w1, p) /\ w1 \in Worlds
    BY <1>2 DEF Runs
  <2>5. Runs(w1, w2, q) /\ w2 \in Worlds
    BY <1>2, <2>4 DEF Runs
  <2>. HIDE DEF w1, w2, p, q
  <2>6. CASE w1.result.ok
    BY <2>2, <2>3, <2>4, <2>5, <2>6, RunsOn
  <2>7. CASE ~w1.result.ok
    BY <2>2, <2>3, <2>4, <2>7, RunsFails
  <2>. QED BY <2>6, <2>7
<1>3. Actions \subseteq S
  <2> HIDE DEF S
  <2>. QED BY <1>1, <1>2, ActionsByInduction
<1>. QED
  BY <1>3

-----------------------------------------------------------------------------
\* The references that the waiting actions hold
CapturedAt(io, h) == {i \in DOMAIN Parts(io) : Parts(io)[i].do \in HandleOps /\ Parts(io)[i].handle = h}
Captures(h) == {c \in LeanIOs \X Nat : c[2] \in CapturedAt(ios[c[1]], h)}
Waiting == Actions \cup {NoAction}

\* The image of a finite set is finite and no larger.
LEMMA ImageIsSmall ==
  ASSUME NEW S, IsFiniteSet(S), NEW f, NEW T, T \subseteq {f[x] : x \in S}
  PROVE  IsFiniteSet(T) /\ Cardinality(T) <= Cardinality(S)
<1> DEFINE g == [x \in S |-> f[x]]
           I == {f[x] : x \in S}
<1>1. g \in Surjection(S, I)
  BY DEF Surjection
<1>2. IsFiniteSet(I) /\ Cardinality(I) <= Cardinality(S)
  BY <1>1, FS_Surjection
<1>3. IsFiniteSet(T) /\ Cardinality(T) <= Cardinality(I)
  BY <1>2, FS_Subset
<1>4. Cardinality(S) \in Nat /\ Cardinality(I) \in Nat /\ Cardinality(T) \in Nat
  BY <1>2, <1>3, FS_CardinalityType
<1>. QED
  BY <1>2, <1>3, <1>4

\* The parts of a waiting action are primitives; no action has none.
LEMMA WaitingParts ==
  ASSUME NEW io \in Waiting
  PROVE  /\ Parts(io) \in Seq(Primitives)
         /\ io.do = "nothing" <=> io = NoAction
         /\ io # NoAction => io \in Actions /\ Parts(io) = PartsOf[io] /\ Parts(io) # <<>>
         /\ io = NoAction => Parts(io) = <<>>
<1>1. CASE io \in Actions
  <2>1. io.do # "nothing"
    BY <1>1, ClosuresStart, ClosureShape
  <2>2. io # NoAction
    BY <2>1 DEF NoAction
  <2>. QED BY <1>1, <2>1, <2>2, PartsType DEF Parts
<1>2. CASE io = NoAction
  BY <1>2 DEF Parts, NoAction
<1>. QED
  BY <1>1, <1>2 DEF Waiting

\* CapturesOf counts the places of an action that hold a handle.
LEMMA CapturesAreCounted ==
  ASSUME NEW io \in Waiting, NEW h
  PROVE  /\ CapturesOf(io, h) = Cardinality(CapturedAt(io, h)) /\ IsFiniteSet(CapturedAt(io, h))
         /\ CapturesOf(io, h) \in Nat /\ CapturedAt(io, h) \subseteq 1..Len(Parts(io))
<1>1. Parts(io) \in Seq(Primitives)
  BY WaitingParts
<1>2. Len(Parts(io)) \in Nat /\ DOMAIN Parts(io) = 1..Len(Parts(io))
  BY <1>1
<1>3. CapturedAt(io, h) \subseteq 1..Len(Parts(io))
  BY <1>2 DEF CapturedAt
<1>4. IsFiniteSet(1..Len(Parts(io)))
  BY <1>2, FS_Interval
<1>5. IsFiniteSet(CapturedAt(io, h))
  BY <1>3, <1>4, FS_Subset
<1>6. CapturesOf(io, h) = Cardinality(CapturedAt(io, h))
  BY DEF CapturesOf, CapturedAt
<1>. QED
  BY <1>3, <1>5, <1>6, FS_CardinalityType

\* An action that is a primitive
LEMMA PrimitiveParts ==
  ASSUME NEW io \in Primitives
  PROVE  io \in Actions /\ io \in Waiting /\ Parts(io) = <<io>>
<1>1. io \in Actions
  BY ClosuresStart, ClosuresKept
<1>. QED
  BY <1>1, PrimitivesAreNoSequences, PartsExist DEF Parts, Waiting

\* The actions that are made of no handle capture none.
LEMMA FreeCaptures ==
  ASSUME NEW io \in FreePrimitives \cup {NoAction}, NEW h
  PROVE  io \in Waiting /\ CapturedAt(io, h) = {}
<1>1. CASE io = NoAction
  BY <1>1, WaitingParts DEF Waiting, CapturedAt
<1>2. CASE io \in FreePrimitives
  <2>1. io.do \notin HandleOps
    BY <1>2, IoAssumption DEF FreePrimitives, open, set_exit_code, get_exit_code, pure, console
  <2>2. io \in Waiting /\ Parts(io) = <<io>>
    BY <1>2, PrimitiveParts DEF Primitives
  <2>. QED BY <2>1, <2>2 DEF CapturedAt
<1>. QED
  BY <1>1, <1>2

\* An action on a handle captures that handle once.
LEMMA HandleOpCaptures ==
  ASSUME NEW do \in HandleOps, NEW g \in Files, NEW h
  PROVE  /\ handle_op(do, g) \in Actions /\ handle_op(do, g) \in Waiting
         /\ CapturedAt(handle_op(do, g), h) = IF h = g THEN {1} ELSE {}
<1> DEFINE io == handle_op(do, g)
<1>1. io \in Primitives /\ io.do = do /\ io.handle = g
  BY DEF Primitives, handle_op
<1>. HIDE DEF io
<1>2. io \in Actions /\ io \in Waiting /\ Parts(io) = <<io>>
  BY <1>1, PrimitiveParts
<1>3. CapturedAt(io, h) = IF h = g THEN {1} ELSE {}
  BY <1>1, <1>2 DEF CapturedAt
<1>. QED
  BY <1>2, <1>3 DEF io

\* Lengths of two actions, their depths and the depth of both.
LEMMA Depths ==
  ASSUME NEW l1 \in Nat \ {0}, NEW l2 \in Nat \ {0}, NEW l, l = l1 + l2, l <= MaxParts
  PROVE  /\ l1 <= MaxParts /\ l2 <= MaxParts
         /\ l1 - 1 \in 0..Depth /\ l2 - 1 \in 0..Depth
         /\ l - 2 \in (l1 - 1)..Depth /\ l - 2 \in (l2 - 1)..Depth
         /\ l - 1 \in 1..Depth /\ (l - 1) - 1 = l - 2
         /\ Depth - 1 \in (l1 - 1)..Depth /\ Depth - 1 \in (l2 - 1)..Depth /\ Depth \in 1..Depth
BY IoAssumption DEF Depth

\* An action is no deeper than it has parts.
LEMMA DepthIsBounded ==
  ASSUME NEW io \in Actions, Len(PartsOf[io]) <= MaxParts
  PROVE  Len(PartsOf[io]) \in 1..MaxParts /\ io \in Closures[Len(PartsOf[io]) - 1]
<1> DEFINE S == {a \in Actions : Len(PartsOf[a]) \in Nat \ {0}
                               /\ (Len(PartsOf[a]) <= MaxParts => a \in Closures[Len(PartsOf[a]) - 1])}
<1>1. ASSUME NEW a \in Actions
      PROVE  Len(PartsOf[a]) \in Nat \ {0}
  <2>1. PartsOf[a] \in Seq(Primitives) /\ PartsOf[a] # <<>>
    BY PartsType
  <2>. QED BY <2>1
<1>2. ASSUME NEW a \in Primitives
      PROVE  a \in S
  <2>1. a \in Actions /\ PartsOf[a] = <<a>>
    BY PrimitiveParts, PrimitivesAreNoSequences DEF Parts
  <2>2. Len(PartsOf[a]) = 1
    BY <2>1
  <2>3. a \in Closures[Len(PartsOf[a]) - 1]
    BY <2>2, ClosuresStart
  <2>. HIDE DEF S
  <2>4. a \in S <=> /\ a \in Actions /\ Len(PartsOf[a]) \in Nat \ {0}
                     /\ (Len(PartsOf[a]) <= MaxParts => a \in Closures[Len(PartsOf[a]) - 1])
    BY DEF S
  <2>. QED BY <2>1, <2>2, <2>3, <2>4
<1>3. ASSUME NEW a \in Actions, a.do = "then", a.first \in Actions \cap S, a.next \in Actions \cap S
      PROVE  a \in S
  <2> DEFINE l == Len(PartsOf[a])
             l1 == Len(PartsOf[a.first])
             l2 == Len(PartsOf[a.next])
  <2>1. l = l1 + l2
    <3>1. PartsOf[a] = PartsOf[a.first] \o PartsOf[a.next]
      BY <1>3, PartsExist
    <3>2. PartsOf[a.first] \in Seq(Primitives) /\ PartsOf[a.next] \in Seq(Primitives)
      BY <1>3, PartsType
    <3>. QED BY <3>1, <3>2
  <2>2. l \in Nat \ {0} /\ l1 \in Nat \ {0} /\ l2 \in Nat \ {0}
    BY <1>1, <1>3
  <2>3. ASSUME l <= MaxParts
        PROVE  a \in Closures[l - 1]
    <3>1. a.first \in Closures[l1 - 1] /\ a.next \in Closures[l2 - 1]
      <4>1. l1 <= MaxParts /\ l2 <= MaxParts
        <5>. HIDE DEF l, l1, l2
        <5>. QED BY <2>1, <2>2, <2>3, Depths
      <4>. QED BY <4>1, <1>3
    <3>2. /\ l1 - 1 \in 0..Depth /\ l2 - 1 \in 0..Depth
          /\ l - 2 \in (l1 - 1)..Depth /\ l - 2 \in (l2 - 1)..Depth
          /\ l - 1 \in 1..Depth /\ (l - 1) - 1 = l - 2
      <4>. HIDE DEF l, l1, l2
      <4>. QED BY <2>1, <2>2, <2>3, Depths
    <3>. HIDE DEF l, l1, l2
    <3>3. a.first \in Closures[l - 2] /\ a.next \in Closures[l - 2]
      BY <3>1, <3>2, ClosuresKept
    <3>4. a = [do |-> "then", first |-> a.first, next |-> a.next]
      BY <1>3, ClosuresStart, ClosureShape
    <3>5. a \in Nested(Closures[l - 2])
      BY <3>3, <3>4 DEF Nested
    <3>6. Closures[l - 1] = Closures[l - 2] \cup Nested(Closures[l - 2])
      BY <3>2, ClosuresGrow
    <3>. QED BY <3>5, <3>6
  <2>. QED BY <2>2, <2>3
<1>4. Actions \subseteq S
  <2> HIDE DEF S
  <2>. QED BY <1>2, <1>3, ActionsByInduction
<1>. QED
  BY <1>1, <1>4, IoAssumption

\* `then' makes an action out of two, whose parts are the parts of both.
LEMMA ThenMakesActions ==
  ASSUME NEW a \in Actions, NEW b \in Actions, Len(PartsOf[a]) + Len(PartsOf[b]) <= MaxParts
  PROVE  LET io == [do |-> "then", first |-> a, next |-> b]
         IN  io \in Actions /\ io \in Waiting /\ Parts(io) = PartsOf[a] \o PartsOf[b]
<1> DEFINE l1 == Len(PartsOf[a])
           l2 == Len(PartsOf[b])
           io == [do |-> "then", first |-> a, next |-> b]
<1>1. l1 \in Nat \ {0} /\ l2 \in Nat \ {0}
  <2>1. PartsOf[a] \in Seq(Primitives) /\ PartsOf[a] # <<>> /\ PartsOf[b] \in Seq(Primitives) /\ PartsOf[b] # <<>>
    BY PartsType
  <2>. QED BY <2>1
<1>2. l1 + l2 <= MaxParts
  OBVIOUS
<1>3. /\ l1 <= MaxParts /\ l2 <= MaxParts
      /\ l1 - 1 \in 0..Depth /\ l2 - 1 \in 0..Depth
      /\ Depth - 1 \in (l1 - 1)..Depth /\ Depth - 1 \in (l2 - 1)..Depth /\ Depth \in 1..Depth
  <2>. HIDE DEF l1, l2
  <2>. QED BY <1>1, <1>2, Depths
<1>4. a \in Closures[l1 - 1] /\ b \in Closures[l2 - 1]
  BY <1>3, DepthIsBounded
<1>. HIDE DEF l1, l2
<1>5. a \in Closures[Depth - 1] /\ b \in Closures[Depth - 1]
  BY <1>3, <1>4, ClosuresKept
<1>6. io \in Actions
  <2>1. io \in Nested(Closures[Depth - 1])
    BY <1>5 DEF Nested
  <2>2. Closures[Depth] = Closures[Depth - 1] \cup Nested(Closures[Depth - 1])
    BY <1>3, ClosuresGrow
  <2>. QED BY <2>1, <2>2, ClosuresStart
<1>7. io.do = "then" /\ io.first = a /\ io.next = b
  OBVIOUS
<1>. HIDE DEF io
<1>8. Parts(io) = PartsOf[a] \o PartsOf[b]
  BY <1>6, <1>7, PartsExist DEF Parts
<1>. QED
  BY <1>6, <1>8 DEF io, Waiting

-----------------------------------------------------------------------------
\* The inductive invariant: every reference to a file handle is counted, that
\* of the LeanHandle that the program holds and those of the actions.
Counts(C, rc, n) == IsFiniteSet(C) /\ rc >= Cardinality(C) + n
Share(h) == IF h \in holding THEN 1 ELSE 0
Counted(h) == Counts(Captures(h), opened[h].rc, Share(h))

IoTypeOK ==
  /\ fs \in [Paths -> PathKinds]
  /\ opened \in [Files -> HandleStates]
  /\ exit_code \in ExitCodes
  /\ holding \subseteq Files
  /\ ios \in [LeanIOs -> Waiting]

IoInv == IoTypeOK /\ (\A h \in Files : Counted(h)) /\ StepsRunInOrder

\* A call replaces the action of one variable.
LEMMA Replaced ==
  ASSUME IoTypeOK, NEW s \in LeanIOs, NEW io \in Waiting, ios' = [ios EXCEPT ![s] = io], NEW h
  PROVE  /\ ios' \in [LeanIOs -> Waiting]
         /\ Captures(h)' = {c \in Captures(h) : c[1] # s} \cup {<<s, i>> : i \in CapturedAt(io, h)}
<1>1. ios' \in [LeanIOs -> Waiting] /\ ios'[s] = io /\ (\A v \in LeanIOs : v # s => ios'[v] = ios[v])
  BY DEF IoTypeOK
<1>2. Captures(h)' = {c \in LeanIOs \X Nat : c[2] \in CapturedAt(ios'[c[1]], h)}
  BY DEF Captures, CapturedAt, Parts
<1>3. CapturedAt(io, h) \subseteq Nat
  <2>1. Parts(io) \in Seq(Primitives)
    BY WaitingParts
  <2>2. Len(Parts(io)) \in Nat
    BY <2>1
  <2>3. CapturedAt(io, h) \subseteq 1..Len(Parts(io))
    BY CapturesAreCounted
  <2>. QED BY <2>2, <2>3
<1>4. ASSUME NEW c \in LeanIOs \X Nat
      PROVE  c[2] \in CapturedAt(ios'[c[1]], h)
               <=> \/ c[1] # s /\ c[2] \in CapturedAt(ios[c[1]], h)
                   \/ c[1] = s /\ c[2] \in CapturedAt(io, h)
  BY <1>1
<1>5. ASSUME NEW c \in LeanIOs \X Nat
      PROVE  c[1] = s /\ c[2] \in CapturedAt(io, h) <=> c \in {<<s, i>> : i \in CapturedAt(io, h)}
  OBVIOUS
<1>6. {<<s, i>> : i \in CapturedAt(io, h)} \subseteq LeanIOs \X Nat
  BY <1>3
<1>. QED
  BY <1>1, <1>2, <1>4, <1>5, <1>6 DEF Captures

\* The captures of an action are captures of all of them.
LEMMA OwnCaptures ==
  ASSUME IoTypeOK, NEW s \in LeanIOs, NEW h
  PROVE  /\ {<<s, i>> : i \in CapturedAt(ios[s], h)} \subseteq Captures(h)
         /\ {c \in Captures(h) : c[1] = s} = {<<s, i>> : i \in CapturedAt(ios[s], h)}
         /\ ios[s] \in Waiting
<1>1. ios[s] \in Waiting
  BY DEF IoTypeOK
<1>2. CapturedAt(ios[s], h) \subseteq Nat
  <2>1. Parts(ios[s]) \in Seq(Primitives)
    BY <1>1, WaitingParts
  <2>2. Len(Parts(ios[s])) \in Nat
    BY <2>1
  <2>3. CapturedAt(ios[s], h) \subseteq 1..Len(Parts(ios[s]))
    BY <1>1, CapturesAreCounted
  <2>. QED BY <2>2, <2>3
<1>. QED
  BY <1>1, <1>2 DEF Captures

\* What a count of references allows: fewer references, a higher count, and no
\* reference where the count is zero.
LEMMA Counting ==
  ASSUME NEW C, NEW rc \in Nat, NEW n \in {0, 1}, Counts(C, rc, n)
  PROVE  /\ \A D \in SUBSET C : Counts(D, rc, n) /\ Counts(D, rc, 0)
         /\ Counts(C, rc + 1, n) /\ Counts(C, rc + 1, 1)
         /\ n = 1 => rc > 0 /\ Counts(C, rc - 1, 0)
         /\ rc = 0 => C = {} /\ n = 0
         /\ C # {} => rc > 0
<1>1. Cardinality(C) \in Nat /\ IsFiniteSet(C) /\ rc >= Cardinality(C) + n
  BY FS_CardinalityType DEF Counts
<1>2. ASSUME NEW D \in SUBSET C
      PROVE  Counts(D, rc, n) /\ Counts(D, rc, 0)
  <2>1. IsFiniteSet(D) /\ Cardinality(D) <= Cardinality(C)
    BY <1>1, FS_Subset
  <2>2. Cardinality(D) \in Nat
    BY <2>1, FS_CardinalityType
  <2>. QED BY <1>1, <2>1, <2>2 DEF Counts
<1>4. Cardinality(C) = 0 <=> C = {}
  BY <1>1, FS_EmptySet
<1>5. Counts(C, rc + 1, n) /\ Counts(C, rc + 1, 1)
  BY <1>1 DEF Counts
<1>6. n = 1 => rc > 0 /\ Counts(C, rc - 1, 0)
  BY <1>1 DEF Counts
<1>7. (rc = 0 => C = {} /\ n = 0) /\ (C # {} => rc > 0)
  BY <1>1, <1>4
<1>. QED
  BY <1>2, <1>5, <1>6, <1>7

\* A reference more, counted.
LEMMA OneMore ==
  ASSUME NEW C, NEW rc \in Nat, NEW n \in {0, 1}, Counts(C, rc, n), NEW x, NEW D, D \subseteq C \cup {x}
  PROVE  Counts(D, rc + 1, n)
<1> DEFINE C2 == C \cup {x}
<1>1. Counts(C2, rc + 1, n)
  <2>1. IsFiniteSet(C) /\ Cardinality(C) \in Nat /\ rc >= Cardinality(C) + n
    BY FS_CardinalityType DEF Counts
  <2>2. IsFiniteSet(C2) /\ Cardinality(C2) = IF x \in C THEN Cardinality(C) ELSE Cardinality(C) + 1
    BY <2>1, FS_AddElement
  <2>. HIDE DEF C2
  <2>. QED BY <2>1, <2>2 DEF Counts
<1>2. rc + 1 \in Nat /\ D \in SUBSET C2
  OBVIOUS
<1>. HIDE DEF C2
<1>. QED
  BY <1>1, <1>2, Counting

\* Where no action holds a reference any count will do.
LEMMA NoneCounted ==
  ASSUME NEW rc \in Nat
  PROVE  Counts({}, rc, 0) /\ (rc > 0 => Counts({}, rc, 1))
BY FS_EmptySet DEF Counts

\* lean_inc counts one object up.
LEMMA IncCells ==
  ASSUME NEW cells \in [Files -> HandleStates], NEW h \in Files
  PROVE  /\ Inc(cells, h) \in [Files -> HandleStates]
         /\ Inc(cells, h)[h].rc = cells[h].rc + 1
         /\ \A g \in Files : g # h => Inc(cells, h)[g] = cells[g]
BY DEF Inc, HandleStates

\* lean_dec counts one object down, and closes it at zero.
LEMMA DecCells ==
  ASSUME NEW cells \in [Files -> HandleStates], NEW h \in Files, NEW n \in Nat
  PROVE  /\ Dec(cells, h, n) \in [Files -> HandleStates]
         /\ Dec(cells, h, n)[h].rc = IF cells[h].rc <= n THEN 0 ELSE cells[h].rc - n
         /\ \A g \in Files : g # h => Dec(cells, h, n)[g] = cells[g]
<1> DEFINE new == IF cells[h].rc <= n THEN Closed ELSE [mode |-> cells[h].mode, rc |-> cells[h].rc - n]
<1>1. cells[h] \in HandleStates /\ cells[h].rc \in Nat
  BY DEF HandleStates
<1>2. Dec(cells, h, n) = [cells EXCEPT ![h] = new]
  BY Zenon DEF Dec
<1>3. new.rc = IF cells[h].rc <= n THEN 0 ELSE cells[h].rc - n
  BY <1>1 DEF Closed, HandleStates
<1>4. new \in HandleStates
  BY <1>1 DEF Closed, HandleStates
<1>. HIDE DEF new
<1>. QED
  BY <1>2, <1>3, <1>4

\* Counts of references are numbers.
LEMMA RcIsNat ==
  ASSUME NEW cells \in [Files -> HandleStates], NEW h \in Files
  PROVE  cells[h].rc \in Nat
BY DEF HandleStates

\* A call that runs nothing.
LEMMA QuietKeeps ==
  ASSUME Quiet
  PROVE  StepsRunInOrder'
<1>1. Parts(NoAction) = <<>>
  BY DEF Parts, NoAction
<1>2. ran'.io = NoAction /\ ran'.done = <<>>
  BY DEF Quiet, NotRun
<1>3. Len(<<>>) = 0
  OBVIOUS
<1>. QED
  BY <1>1, <1>2, <1>3 DEF StepsRunInOrder, Parts

\* An action that captures nothing changes no count.
LEMMA NewActionKeeps ==
  ASSUME IoInv, NEW s \in LeanIOs, NewAction(s)
  PROVE  IoInv'
<1>1. PICK io \in FreePrimitives : ios' = [ios EXCEPT ![s] = io]
  BY DEF NewAction
<1>2. io \in Waiting /\ \A h : CapturedAt(io, h) = {}
  BY FreeCaptures
<1>3. ios' \in [LeanIOs -> Waiting] /\ \A h : Captures(h)' \subseteq Captures(h)
  <2>1. ios' \in [LeanIOs -> Waiting]
    BY <1>1, <1>2, Replaced DEF IoInv
  <2>2. ASSUME NEW h
        PROVE  Captures(h)' \subseteq Captures(h)
    <3>1. Captures(h)' = {c \in Captures(h) : c[1] # s} \cup {<<s, i>> : i \in CapturedAt(io, h)}
      BY <1>1, <1>2, Replaced DEF IoInv
    <3>. QED BY <1>2, <3>1
  <2>. QED BY <2>1, <2>2
<1>4. UNCHANGED <<fs, exit_code, opened, holding>> /\ Quiet
  BY DEF NewAction, Quiet
<1>5. ASSUME NEW h \in Files
      PROVE  Counted(h)'
  <2>1. opened[h].rc \in Nat /\ Counts(Captures(h), opened[h].rc, Share(h))
    BY RcIsNat DEF IoInv, IoTypeOK, Counted
  <2>0. Share(h) \in {0, 1} /\ Share(h)' = Share(h)
    BY <1>4 DEF Share
  <2>2. Counts(Captures(h)', opened[h].rc, Share(h))
    BY <1>3, <2>0, <2>1, Counting
  <2>. QED BY <1>4, <2>0, <2>2 DEF Counted
<1>. QED
  BY <1>3, <1>4, <1>5, QuietKeeps DEF IoInv, IoTypeOK

\* An action on a handle counts the reference that it holds.
LEMMA UseHandleKeeps ==
  ASSUME IoInv, NEW s \in LeanIOs, UseHandle(s)
  PROVE  IoInv'
<1>1. PICK h \in holding, do \in HandleOps : ios' = [ios EXCEPT ![s] = handle_op(do, h)] /\ opened' = Inc(opened, h)
  BY DEF UseHandle
<1>2. h \in Files /\ opened \in [Files -> HandleStates]
  BY DEF IoInv, IoTypeOK
<1> DEFINE io == handle_op(do, h)
<1>3. io \in Waiting /\ \A g : CapturedAt(io, g) = IF g = h THEN {1} ELSE {}
  BY <1>2, HandleOpCaptures
<1>. HIDE DEF io
<1>4. ios' \in [LeanIOs -> Waiting] /\ \A g : Captures(g)' = {c \in Captures(g) : c[1] # s} \cup {<<s, i>> : i \in CapturedAt(io, g)}
  BY <1>1, <1>3, Replaced DEF IoInv, io
<1>5. UNCHANGED <<fs, exit_code, holding>> /\ Quiet
  BY DEF UseHandle, Quiet
<1>6. opened' \in [Files -> HandleStates] /\ opened'[h].rc = opened[h].rc + 1
      /\ \A g \in Files : g # h => opened'[g] = opened[g]
  BY <1>1, <1>2, IncCells
<1>7. ASSUME NEW g \in Files
      PROVE  Counted(g)'
  <2>1. opened[g].rc \in Nat /\ Counts(Captures(g), opened[g].rc, Share(g))
    BY RcIsNat DEF IoInv, IoTypeOK, Counted
  <2>0. Share(g) \in {0, 1} /\ Share(g)' = Share(g)
    BY <1>5 DEF Share
  <2>2. CASE g = h
    <3>1. Captures(g)' \subseteq Captures(g) \cup {<<s, 1>>}
      BY <1>3, <1>4, <2>2
    <3>2. Counts(Captures(g)', opened[g].rc + 1, Share(g))
      BY <2>0, <2>1, <3>1, OneMore
    <3>. QED BY <1>6, <2>0, <2>2, <3>2 DEF Counted
  <2>3. CASE g # h
    <3>1. Captures(g)' \subseteq Captures(g)
      BY <1>3, <1>4, <2>3
    <3>2. Counts(Captures(g)', opened[g].rc, Share(g))
      <4>1. Captures(g)' \in SUBSET Captures(g)
        BY <3>1
      <4>. QED BY <2>0, <2>1, <4>1, Counting
    <3>. QED BY <1>6, <2>0, <2>3, <3>2 DEF Counted
  <2>. QED BY <2>2, <2>3
<1>. QED
  BY <1>4, <1>5, <1>6, <1>7, QuietKeeps DEF IoInv, IoTypeOK

\* One reference is given back.
LEMMA DroppedHandle ==
  ASSUME IoInv, NEW h \in holding, holding' = holding \ {h}, opened' = Dec(opened, h, 1),
         \A g \in Files : Captures(g)' \subseteq Captures(g)
  PROVE  opened' \in [Files -> HandleStates] /\ holding' \subseteq Files /\ \A g \in Files : Counted(g)'
<1>1. h \in Files /\ opened \in [Files -> HandleStates] /\ opened[h].rc \in Nat
  BY RcIsNat DEF IoInv, IoTypeOK
<1>2. /\ opened' \in [Files -> HandleStates]
      /\ opened'[h].rc = IF opened[h].rc <= 1 THEN 0 ELSE opened[h].rc - 1
      /\ \A g \in Files : g # h => opened'[g] = opened[g]
  BY <1>1, DecCells
<1>3. ASSUME NEW g \in Files
      PROVE  Counted(g)'
  <2>1. opened[g].rc \in Nat /\ Counts(Captures(g), opened[g].rc, Share(g)) /\ Share(g) \in {0, 1}
    BY RcIsNat DEF IoInv, IoTypeOK, Counted, Share
  <2>2. CASE g = h
    <3>1. Share(g) = 1 /\ Share(g)' = 0
      BY <2>2 DEF Share
    <3>2. opened[h].rc > 0 /\ Counts(Captures(h), opened[h].rc - 1, 0)
      BY <2>1, <2>2, <3>1, Counting
    <3>3. opened'[h].rc = opened[h].rc - 1 /\ opened[h].rc - 1 \in Nat
      BY <1>1, <1>2, <3>2
    <3> DEFINE rc == opened[h].rc - 1
    <3>. HIDE DEF rc
    <3>4. Counts(Captures(h)', rc, 0)
      <4>1. Counts(Captures(h), rc, 0) /\ rc \in Nat /\ Captures(h)' \in SUBSET Captures(h)
        BY <1>1, <3>2, <3>3 DEF rc
      <4>. QED BY <4>1, Counting
    <3>. QED BY <2>2, <3>1, <3>3, <3>4 DEF Counted, rc
  <2>3. CASE g # h
    <3>1. Share(g)' = Share(g) /\ opened'[g] = opened[g]
      BY <2>3, <1>2 DEF Share
    <3>2. Counts(Captures(g)', opened[g].rc, Share(g))
      BY <2>1, Counting
    <3>. QED BY <3>1, <3>2 DEF Counted
  <2>. QED BY <2>2, <2>3
<1>. QED
  BY <1>2, <1>3 DEF IoInv, IoTypeOK

\* `close' gives back the reference of the program.
LEMMA CloseKeeps ==
  ASSUME IoInv, NEW s \in LeanIOs, close(s)
  PROVE  IoInv'
<1>1. PICK h \in holding : holding' = holding \ {h} /\ opened' = Dec(opened, h, 1)
  BY DEF close
<1>2. ios' = [ios EXCEPT ![s] = pure] /\ UNCHANGED <<fs, exit_code>> /\ Quiet
  BY DEF close, Quiet
<1>3. pure \in Waiting /\ \A g : CapturedAt(pure, g) = {}
  BY FreeCaptures DEF FreePrimitives
<1>4. ios' \in [LeanIOs -> Waiting]
  BY <1>2, <1>3, Replaced DEF IoInv
<1>5. ASSUME NEW g \in Files
      PROVE  Captures(g)' \subseteq Captures(g)
  <2>1. Captures(g)' = {c \in Captures(g) : c[1] # s} \cup {<<s, i>> : i \in CapturedAt(pure, g)}
    BY <1>2, <1>3, Replaced DEF IoInv
  <2>. QED BY <1>3, <2>1
<1>6. opened' \in [Files -> HandleStates] /\ holding' \subseteq Files /\ \A g \in Files : Counted(g)'
  BY <1>1, <1>5, DroppedHandle
<1>. QED
  BY <1>2, <1>4, <1>6, QuietKeeps DEF IoInv, IoTypeOK

\* A dropped LeanHandle gives back the reference of the program.
LEMMA DropHandleKeeps ==
  ASSUME IoInv, NEW h \in Files, DropHandle(h)
  PROVE  IoInv'
<1>1. h \in holding /\ holding' = holding \ {h} /\ opened' = Dec(opened, h, 1)
  BY DEF DropHandle
<1>2. ios' = ios /\ UNCHANGED <<fs, exit_code>> /\ Quiet
  BY DEF DropHandle, Quiet
<1>3. \A g \in Files : Captures(g)' \subseteq Captures(g)
  BY <1>2 DEF Captures, CapturedAt, Parts
<1>4. opened' \in [Files -> HandleStates] /\ holding' \subseteq Files /\ \A g \in Files : Counted(g)'
  BY <1>1, <1>3, DroppedHandle
<1>. QED
  BY <1>2, <1>4, QuietKeeps DEF IoInv, IoTypeOK

\* The references that the dropped action held were counted apart from the others.
LEMMA DroppedCaptures ==
  ASSUME IoTypeOK, NEW s \in LeanIOs, NEW h, IsFiniteSet(Captures(h))
  PROVE  LET rest == {c \in Captures(h) : c[1] # s}
         IN  /\ IsFiniteSet(rest) /\ Cardinality(rest) \in Nat
             /\ CapturesOf(ios[s], h) \in Nat
             /\ Cardinality(Captures(h)) = Cardinality(rest) + CapturesOf(ios[s], h)
<1> DEFINE rest == {c \in Captures(h) : c[1] # s}
           own == {c \in Captures(h) : c[1] = s}
           places == CapturedAt(ios[s], h)
           f == [i \in places |-> <<s, i>>]
<1>1. own = {<<s, i>> : i \in places} /\ ios[s] \in Waiting
  BY OwnCaptures
<1>2. CapturesOf(ios[s], h) = Cardinality(places) /\ IsFiniteSet(places) /\ CapturesOf(ios[s], h) \in Nat
  BY <1>1, CapturesAreCounted
<1>3. f \in Bijection(places, own)
  <2>1. f \in [places -> own]
    BY <1>1
  <2>2. \A i, j \in places : (f[i] = f[j]) => (i = j)
    OBVIOUS
  <2>3. \A c \in own : \E i \in places : f[i] = c
    BY <1>1
  <2>. HIDE DEF f, own, places
  <2>4. f \in Injection(places, own)
    BY <2>1, <2>2 DEF Injection, IsInjective
  <2>5. f \in Surjection(places, own)
    BY <2>1, <2>3 DEF Surjection
  <2>. QED BY <2>4, <2>5 DEF Bijection
<1>4. IsFiniteSet(own) /\ Cardinality(own) = Cardinality(places)
  <2>1. ExistsBijection(places, own)
    BY <1>3 DEF ExistsBijection
  <2>. QED BY <1>2, <2>1, FS_Bijection
<1>5. IsFiniteSet(rest)
  <2>1. rest \in SUBSET Captures(h)
    OBVIOUS
  <2>. QED BY <2>1, FS_Subset
<1>6. rest \cup own = Captures(h) /\ rest \cap own = {}
  OBVIOUS
<1>. HIDE DEF rest, own, places
<1>7. Cardinality(rest \cup own) = Cardinality(rest) + Cardinality(own) - Cardinality(rest \cap own)
  BY <1>4, <1>5, FS_Union
<1>8. Cardinality(rest) \in Nat /\ Cardinality(own) \in Nat /\ Cardinality(rest \cap own) = 0
  BY <1>4, <1>5, <1>6, FS_CardinalityType, FS_EmptySet
<1>9. /\ IsFiniteSet(rest) /\ Cardinality(rest) \in Nat
      /\ CapturesOf(ios[s], h) \in Nat
      /\ Cardinality(Captures(h)) = Cardinality(rest) + CapturesOf(ios[s], h)
  <2>1. Cardinality(Captures(h)) = Cardinality(rest \cup own)
    BY <1>6
  <2>2. CapturesOf(ios[s], h) = Cardinality(own) /\ CapturesOf(ios[s], h) \in Nat
    BY <1>2, <1>4
  <2>. QED BY <1>5, <1>7, <1>8, <2>1, <2>2
<1>. QED
  BY ONLY <1>9 DEF rest

\* A dropped action gives back every reference that it captured.
LEMMA DropActionKeeps ==
  ASSUME IoInv, NEW s \in LeanIOs, DropAction(s)
  PROVE  IoInv'
<1>1. /\ ios' = [ios EXCEPT ![s] = NoAction] /\ UNCHANGED <<fs, exit_code, holding>> /\ Quiet
      /\ opened' = [h \in Files |-> IF CapturesOf(ios[s], h) = 0 THEN opened[h]
                                    ELSE Dec(opened, h, CapturesOf(ios[s], h))[h]]
  BY DEF DropAction, Quiet
<1>2. IoTypeOK /\ opened \in [Files -> HandleStates]
  BY DEF IoInv, IoTypeOK
<1>3. NoAction \in Waiting /\ \A g : CapturedAt(NoAction, g) = {}
  BY FreeCaptures
<1>4. ios' \in [LeanIOs -> Waiting]
  BY <1>1, <1>2, <1>3, Replaced
<1>5. ASSUME NEW h \in Files
      PROVE  opened'[h] \in HandleStates /\ Counted(h)'
  <2> DEFINE n == CapturesOf(ios[s], h)
             rc == opened[h].rc
             rest == {c \in Captures(h) : c[1] # s}
  <2>1. rc \in Nat /\ Counts(Captures(h), rc, Share(h)) /\ Share(h) \in {0, 1} /\ Share(h)' = Share(h)
    BY <1>1, RcIsNat DEF IoInv, IoTypeOK, Counted, Share
  <2>2. Captures(h)' = rest
    <3>1. Captures(h)' = {c \in Captures(h) : c[1] # s} \cup {<<s, i>> : i \in CapturedAt(NoAction, h)}
      BY <1>1, <1>2, <1>3, Replaced
    <3>. QED BY <1>3, <3>1
  <2>3. /\ IsFiniteSet(rest) /\ Cardinality(rest) \in Nat /\ n \in Nat
        /\ Cardinality(Captures(h)) = Cardinality(rest) + n
    BY <1>2, <2>1, DroppedCaptures DEF Counts
  <2>4. /\ Dec(opened, h, n) \in [Files -> HandleStates]
        /\ Dec(opened, h, n)[h].rc = IF rc <= n THEN 0 ELSE rc - n
    BY <1>2, <2>3, DecCells
  <2>5. opened'[h] = IF n = 0 THEN opened[h] ELSE Dec(opened, h, n)[h]
    BY <1>1
  <2>6. opened'[h] \in HandleStates
    BY <1>2, <2>4, <2>5
  <2>. HIDE DEF n, rest
  <2>7. opened'[h].rc >= rc - n
    BY <2>1, <2>3, <2>4, <2>5
  <2>8. rc >= Cardinality(rest) + n + Share(h)
    BY <2>1, <2>3 DEF Counts
  <2>9. opened'[h].rc \in Nat
    BY <2>6 DEF HandleStates
  <2>. HIDE DEF rc
  <2>10. opened'[h].rc >= Cardinality(rest) + Share(h)
    BY <2>1, <2>3, <2>7, <2>8, <2>9
  <2>11. Counts(rest, opened'[h].rc, Share(h))
    BY <2>3, <2>10 DEF Counts
  <2>. QED BY <2>1, <2>2, <2>6, <2>11 DEF Counted
<1>6. opened' \in [Files -> HandleStates]
  BY <1>1, <1>5
<1>. QED
  BY <1>1, <1>4, <1>5, <1>6, QuietKeeps DEF IoInv, IoTypeOK

\* `then' gives the references of both actions to the one it makes.
LEMMA ThenKeeps ==
  ASSUME IoInv, NEW s \in LeanIOs, NEW s2 \in LeanIOs, then(s, s2)
  PROVE  IoInv'
<1> DEFINE a == ios[s]
           b == ios[s2]
           io == [do |-> "then", first |-> a, next |-> b]
           n == Len(Parts(a))
<1>1. /\ s # s2 /\ a # NoAction /\ b # NoAction /\ Len(Parts(a)) + Len(Parts(b)) <= MaxParts
      /\ ios' = [ios EXCEPT ![s] = io, ![s2] = NoAction]
      /\ UNCHANGED <<fs, exit_code, opened, holding>> /\ Quiet
  BY DEF then, Quiet, Free
<1>2. /\ a \in Actions /\ b \in Actions /\ Parts(a) = PartsOf[a] /\ Parts(b) = PartsOf[b]
      /\ Parts(a) \in Seq(Primitives) /\ Parts(b) \in Seq(Primitives)
  <2>1. a \in Waiting /\ b \in Waiting
    BY DEF IoInv, IoTypeOK
  <2>. QED BY <1>1, <2>1, WaitingParts
<1>3. io \in Waiting /\ Parts(io) = Parts(a) \o Parts(b)
  BY <1>1, <1>2, ThenMakesActions
<1>4. NoAction \in Waiting /\ \A g : CapturedAt(NoAction, g) = {}
  BY FreeCaptures
<1>. HIDE DEF io
<1>5. /\ ios' \in [LeanIOs -> Waiting] /\ ios'[s] = io /\ ios'[s2] = NoAction
      /\ \A v \in LeanIOs : v # s /\ v # s2 => ios'[v] = ios[v]
  BY <1>1, <1>3, <1>4 DEF IoInv, IoTypeOK
<1>6. /\ n \in Nat
      /\ \A i \in DOMAIN Parts(io) : i <= n => i \in DOMAIN Parts(a) /\ Parts(io)[i] = Parts(a)[i]
      /\ \A i \in DOMAIN Parts(io) : ~(i <= n) => /\ i - n \in DOMAIN Parts(b) /\ Parts(io)[i] = Parts(b)[i - n]
                                                  /\ i - n \in Nat /\ n + (i - n) = i
  <2>1. ASSUME NEW p \in Seq(Primitives), NEW q \in Seq(Primitives), NEW i \in DOMAIN (p \o q)
        PROVE  /\ i <= Len(p) => i \in DOMAIN p /\ (p \o q)[i] = p[i]
               /\ ~(i <= Len(p)) => /\ i - Len(p) \in DOMAIN q /\ (p \o q)[i] = q[i - Len(p)]
                                    /\ i - Len(p) \in Nat /\ Len(p) + (i - Len(p)) = i
    OBVIOUS
  <2> DEFINE p == Parts(a)
             q == Parts(b)
  <2>2. p \in Seq(Primitives) /\ q \in Seq(Primitives) /\ Parts(io) = p \o q /\ n = Len(p) /\ Len(p) \in Nat
    BY <1>2, <1>3
  <2>. HIDE DEF p, q, n
  <2>3. /\ n \in Nat
        /\ \A i \in DOMAIN (p \o q) : i <= n => i \in DOMAIN p /\ (p \o q)[i] = p[i]
        /\ \A i \in DOMAIN (p \o q) : ~(i <= n) => /\ i - n \in DOMAIN q /\ (p \o q)[i] = q[i - n]
                                                  /\ i - n \in Nat /\ n + (i - n) = i
    BY <2>1, <2>2
  <2>. QED BY <2>2, <2>3 DEF p, q
<1>. HIDE DEF n
<1>7. ASSUME NEW h
      PROVE  \E f : Captures(h)' \subseteq {f[c] : c \in Captures(h)}
  <2> DEFINE f == [c \in Captures(h) |-> IF c[1] = s2 THEN <<s, n + c[2]>> ELSE c]
  <2>1. ASSUME NEW d \in Captures(h)'
        PROVE  \E c \in Captures(h) : f[c] = d
    <3>1. d \in LeanIOs \X Nat /\ d[2] \in CapturedAt(ios'[d[1]], h)
      BY DEF Captures, CapturedAt, Parts
    <3>2. CASE d[1] = s /\ d[2] <= n
      <4>1. d[2] \in DOMAIN Parts(io) /\ Parts(io)[d[2]].do \in HandleOps /\ Parts(io)[d[2]].handle = h
        BY <1>5, <3>1, <3>2 DEF CapturedAt
      <4>2. d[2] \in CapturedAt(ios[s], h)
        <5>1. d[2] \in DOMAIN Parts(a) /\ Parts(io)[d[2]] = Parts(a)[d[2]]
          BY <1>6, <3>2, <4>1
        <5>. QED BY <4>1, <5>1 DEF CapturedAt
      <4>3. d \in Captures(h)
        BY <3>1, <3>2, <4>2 DEF Captures
      <4>4. f[d] = d
        BY <1>1, <3>2, <4>3
      <4>. QED BY <4>3, <4>4
    <3>3. CASE d[1] = s /\ ~(d[2] <= n)
      <4> DEFINE c == <<s2, d[2] - n>>
      <4>1. d[2] \in DOMAIN Parts(io) /\ Parts(io)[d[2]].do \in HandleOps /\ Parts(io)[d[2]].handle = h
        BY <1>5, <3>1, <3>3 DEF CapturedAt
      <4>2. d[2] - n \in CapturedAt(ios[s2], h) /\ d[2] - n \in Nat /\ n + (d[2] - n) = d[2]
        BY <1>6, <3>3, <4>1 DEF CapturedAt
      <4>3. c \in Captures(h)
        BY <4>2 DEF Captures
      <4>4. f[c] = <<s, d[2]>>
        BY <4>2, <4>3
      <4>5. d = <<d[1], d[2]>>
        BY <3>1
      <4>. QED BY <3>3, <4>3, <4>4, <4>5
    <3>4. CASE d[1] # s
      <4>1. d[1] # s2
        BY <1>4, <1>5, <3>1
      <4>2. d \in Captures(h)
        BY <1>5, <3>1, <3>4, <4>1 DEF Captures
      <4>. QED BY <4>1, <4>2
    <3>. QED BY <3>2, <3>3, <3>4
  <2>. HIDE DEF f
  <2>2. Captures(h)' \subseteq {f[c] : c \in Captures(h)}
    BY <2>1
  <2>. QED BY <2>2
<1>8. ASSUME NEW h \in Files
      PROVE  Counted(h)'
  <2>1. opened[h].rc \in Nat /\ Counts(Captures(h), opened[h].rc, Share(h))
        /\ Share(h) \in {0, 1} /\ Share(h)' = Share(h)
    BY <1>1, RcIsNat DEF IoInv, IoTypeOK, Counted, Share
  <2>2. PICK f : Captures(h)' \subseteq {f[c] : c \in Captures(h)}
    BY <1>7
  <2>3. IsFiniteSet(Captures(h)') /\ Cardinality(Captures(h)') <= Cardinality(Captures(h))
    BY <2>1, <2>2, ImageIsSmall DEF Counts
  <2>4. Cardinality(Captures(h)') \in Nat /\ Cardinality(Captures(h)) \in Nat
    BY <2>1, <2>3, FS_CardinalityType DEF Counts
  <2>5. Counts(Captures(h)', opened[h].rc, Share(h))
    BY <2>1, <2>3, <2>4 DEF Counts
  <2>. QED BY <1>1, <2>1, <2>5 DEF Counted
<1>. QED
  BY <1>1, <1>5, <1>8, QuietKeeps DEF IoInv, IoTypeOK

\* What a run of the action of s leaves: the primitives were done in their
\* order, the references still count, and a handle that came back is new.
LEMMA OutcomeIsCounted ==
  ASSUME IoInv, NEW s \in LeanIOs, ios[s] # NoAction, NEW m \in Outcomes(s), Ran(ios[s], m)
  PROVE  /\ StepsRunInOrder'
         /\ fs' \in [Paths -> PathKinds] /\ exit_code' \in ExitCodes
         /\ m.opened \in [Files -> HandleStates]
         /\ \A h \in Files : Counts(Captures(h), m.opened[h].rc, Share(h))
         /\ m.result.value \in Files =>
              /\ m.result.ok /\ m.opened[m.result.value].rc = 1
              /\ Captures(m.result.value) = {} /\ m.result.value \notin holding
<1>1. PICK works \in 0..MaxParts : m = RunClosure[ios[s]][World(works)]
  BY DEF Outcomes
<1> DEFINE w == World(works)
           io == ios[s]
<1>2. IoTypeOK /\ io \in Actions /\ Parts(io) = PartsOf[io] /\ io.do # "nothing"
  <2>1. io \in Waiting /\ IoTypeOK
    BY DEF IoInv, IoTypeOK
  <2>. QED BY <2>1, WaitingParts
<1>3. w \in Worlds /\ w.done = <<>> /\ w.opened = opened
  <2>1. NotRun.result \in Results
    BY DEF NotRun, Results, IoValues
  <2>2. works \in Nat /\ <<>> \in Seq([io : Primitives, ok : BOOLEAN])
    BY IoAssumption
  <2>. QED BY <1>2, <2>1, <2>2 DEF World, Worlds, IoTypeOK
<1>. HIDE DEF w
<1>4. Runs(w, m, PartsOf[io])
  BY <1>1, <1>2, <1>3, ActionRuns DEF w
<1>5. m \in Worlds /\ m.done \in Seq([io : Primitives, ok : BOOLEAN]) /\ Len(m.done) \in Nat
  BY <1>4 DEF Runs, Worlds
<1>6. StepsRunInOrder'
  <2> DEFINE steps == PartsOf[io]
             n == Len(m.done)
  <2>1. Len(w.done) = 0 /\ n - 0 = n /\ \A i \in 1..n : 0 + i = i
    BY <1>3, <1>5
  <2>2. n \in 1..Len(steps)
    BY <1>4, <2>1 DEF Runs
  <2>3. /\ \A i \in 1..n : m.done[i].io = steps[i] /\ (m.done[i].ok \/ i = n)
        /\ m.result.ok = m.done[n].ok
        /\ n < Len(steps) => ~m.result.ok
    BY <1>4, <2>1 DEF Runs
  <2>4. ran'.io = io /\ ran'.done = m.done /\ ran'.result.ok = m.result.ok
    <3>1. m.result \in Results
      BY <1>5 DEF Worlds
    <3>2. m.result.ok \in BOOLEAN
      BY <3>1 DEF Results
    <3>. QED BY <3>2 DEF Ran
  <2>5. Parts(ran'.io) = steps
    BY <1>2, <2>4
  <2>6. Len(steps) \in Nat
    BY <1>2, PartsType
  <2>7. n <= Len(steps)
    <3>. HIDE DEF n, steps
    <3>. QED BY <2>2, <2>6
  <2>. HIDE DEF steps
  <2>8. StepsRunInOrder' <=>
          /\ Len(ran'.done) <= Len(Parts(ran'.io))
          /\ \A i \in 1..Len(ran'.done) : ran'.done[i].io = Parts(ran'.io)[i] /\ (ran'.done[i].ok \/ i = Len(ran'.done))
          /\ Len(ran'.done) > 0 => ran'.result.ok = ran'.done[Len(ran'.done)].ok
          /\ Len(ran'.done) < Len(Parts(ran'.io)) => ~ran'.result.ok
    BY DEF StepsRunInOrder, Parts
  <2>. QED BY <2>3, <2>4, <2>5, <2>7, <2>8
<1>7. fs' \in [Paths -> PathKinds] /\ exit_code' \in ExitCodes /\ m.opened \in [Files -> HandleStates]
  BY <1>5 DEF Ran, Worlds
<1>8. /\ \A h \in Files : opened[h].rc > 0 => m.opened[h] = opened[h]
      /\ m.result.value \in Files =>
           m.result.ok /\ opened[m.result.value].rc = 0 /\ m.opened[m.result.value].rc = 1
  BY <1>3, <1>4 DEF Runs
<1>9. ASSUME NEW h \in Files
      PROVE  /\ Counts(Captures(h), m.opened[h].rc, Share(h))
             /\ opened[h].rc = 0 => Captures(h) = {} /\ h \notin holding
  <2>1. opened[h].rc \in Nat /\ m.opened[h].rc \in Nat
        /\ Counts(Captures(h), opened[h].rc, Share(h)) /\ Share(h) \in {0, 1}
    BY <1>2, <1>7, RcIsNat DEF IoInv, IoTypeOK, Counted, Share
  <2>2. opened[h].rc = 0 => Captures(h) = {} /\ Share(h) = 0
    BY <2>1, Counting
  <2>3. CASE opened[h].rc = 0
    BY <2>1, <2>2, <2>3, NoneCounted DEF Share
  <2>4. CASE opened[h].rc # 0
    BY <1>8, <2>1, <2>4
  <2>. QED BY <2>3, <2>4
<1>. QED
  BY <1>6, <1>7, <1>8, <1>9

\* A run takes the action away; a handle that came back is the program's.
LEMMA RunKeeps ==
  ASSUME IoInv, NEW s \in LeanIOs, run(s)
  PROVE  IoInv'
<1>1. PICK m \in Outcomes(s) :
        /\ Ran(ios[s], m)
        /\ opened' = IF m.result.value \in Files THEN Dec(Inc(m.opened, m.result.value), m.result.value, 1)
                     ELSE m.opened
        /\ holding' = IF m.result.value \in Files THEN holding \cup {m.result.value} ELSE holding
  BY DEF run
<1> DEFINE v == m.result.value
<1>2. ios[s] # NoAction /\ ios' = [ios EXCEPT ![s] = NoAction] /\ IoTypeOK
  BY DEF run, Free, IoInv
<1>3. /\ StepsRunInOrder'
      /\ fs' \in [Paths -> PathKinds] /\ exit_code' \in ExitCodes
      /\ m.opened \in [Files -> HandleStates]
      /\ \A h \in Files : Counts(Captures(h), m.opened[h].rc, Share(h))
      /\ v \in Files => m.opened[v].rc = 1 /\ Captures(v) = {}
  BY <1>1, <1>2, OutcomeIsCounted
<1>4. ios' \in [LeanIOs -> Waiting] /\ \A h : Captures(h)' \in SUBSET Captures(h)
  <2>1. NoAction \in Waiting /\ \A h : CapturedAt(NoAction, h) = {}
    BY FreeCaptures
  <2>2. ios' \in [LeanIOs -> Waiting]
    BY <1>2, <2>1, Replaced
  <2>3. ASSUME NEW h
        PROVE  Captures(h)' \in SUBSET Captures(h)
    <3>1. Captures(h)' = {c \in Captures(h) : c[1] # s} \cup {<<s, i>> : i \in CapturedAt(NoAction, h)}
      BY <1>2, <2>1, Replaced
    <3>. QED BY <2>1, <3>1
  <2>. QED BY <2>2, <2>3
<1>5. v \in Files => /\ opened' \in [Files -> HandleStates] /\ opened'[v].rc = 1
                     /\ \A g \in Files : g # v => opened'[g] = m.opened[g]
  <2>1. SUFFICES ASSUME v \in Files
                 PROVE  /\ opened' \in [Files -> HandleStates] /\ opened'[v].rc = 1
                        /\ \A g \in Files : g # v => opened'[g] = m.opened[g]
    OBVIOUS
  <2> DEFINE cells == Inc(m.opened, v)
  <2>2. /\ cells \in [Files -> HandleStates] /\ cells[v].rc = 2
        /\ \A g \in Files : g # v => cells[g] = m.opened[g]
    BY <1>3, <2>1, IncCells
  <2>3. opened' = Dec(cells, v, 1)
    BY <1>1, <2>1
  <2>. HIDE DEF cells, v
  <2>. QED BY <2>1, <2>2, <2>3, DecCells
<1>. HIDE DEF v
<1>6. holding' \subseteq Files /\ opened' \in [Files -> HandleStates]
  BY <1>1, <1>2, <1>3, <1>5 DEF IoTypeOK, v
<1>7. ASSUME NEW h \in Files
      PROVE  Counted(h)'
  <2>1. m.opened[h].rc \in Nat /\ Share(h) \in {0, 1} /\ Counts(Captures(h)', m.opened[h].rc, Share(h))
    <3>1. m.opened[h].rc \in Nat /\ Share(h) \in {0, 1}
      BY <1>3, RcIsNat DEF Share
    <3>. QED BY <1>3, <1>4, <3>1, Counting
  <2>2. CASE h = v
    <3>1. Captures(h)' = {} /\ opened'[h].rc = 1
      BY <1>3, <1>4, <1>5, <2>2
    <3>2. Share(h)' = 1
      BY <1>1, <2>2 DEF Share, v
    <3>3. Counts({}, 1, 1)
      BY NoneCounted
    <3>. QED BY <3>1, <3>2, <3>3 DEF Counted
  <2>3. CASE h # v
    <3>1. opened'[h] = m.opened[h]
      BY <1>1, <1>5, <2>3 DEF v
    <3>2. Share(h)' = Share(h)
      BY <1>1, <2>3 DEF Share, v
    <3>. QED BY <2>1, <3>1, <3>2 DEF Counted
  <2>. QED BY <2>2, <2>3
<1>. QED
  BY <1>3, <1>4, <1>6, <1>7 DEF IoInv, IoTypeOK

\* After a run that the program keeps no handle of: a handle that came back
\* has one reference or none, and at most one new action holds that one.
Passes(s, m, io) ==
  /\ s \in LeanIOs /\ ios[s] # NoAction /\ m \in Outcomes(s) /\ Ran(ios[s], m)
  /\ holding' = holding /\ io \in Waiting /\ ios' = [ios EXCEPT ![s] = io]
  /\ opened' \in [Files -> HandleStates]
  /\ \A h \in Files : h # m.result.value => opened'[h] = m.opened[h] /\ CapturedAt(io, h) = {}
  /\ m.result.value \in Files =>
       /\ CapturedAt(io, m.result.value) \subseteq {1}
       /\ CapturedAt(io, m.result.value) # {} => opened'[m.result.value].rc = 1

\* Such a run keeps every reference counted.
LEMMA PassedOn ==
  ASSUME IoInv, NEW s, NEW m, NEW io, Passes(s, m, io)
  PROVE  IoInv'
<1>. USE DEF Passes
<1> DEFINE v == m.result.value
<1>1. /\ StepsRunInOrder'
      /\ fs' \in [Paths -> PathKinds] /\ exit_code' \in ExitCodes
      /\ m.opened \in [Files -> HandleStates]
      /\ \A h \in Files : Counts(Captures(h), m.opened[h].rc, Share(h))
      /\ v \in Files => Captures(v) = {} /\ v \notin holding
  BY OutcomeIsCounted
<1>2. IoTypeOK
  BY DEF IoInv
<1>3. ios' \in [LeanIOs -> Waiting]
      /\ \A h : Captures(h)' = {c \in Captures(h) : c[1] # s} \cup {<<s, i>> : i \in CapturedAt(io, h)}
  BY <1>2, Replaced
<1>. HIDE DEF v
<1>4. ASSUME NEW h \in Files
      PROVE  Counted(h)'
  <2>1. m.opened[h].rc \in Nat /\ opened'[h].rc \in Nat /\ Share(h) \in {0, 1} /\ Share(h)' = Share(h)
    BY <1>1, RcIsNat DEF Share
  <2>2. CASE h # v
    <3>1. Captures(h)' \in SUBSET Captures(h) /\ opened'[h] = m.opened[h]
      BY <1>3, <2>2 DEF v
    <3>2. Counts(Captures(h)', m.opened[h].rc, Share(h))
      BY <1>1, <2>1, <3>1, Counting
    <3>. QED BY <2>1, <3>1, <3>2 DEF Counted
  <2>3. CASE h = v /\ CapturedAt(io, h) = {}
    <3>1. Captures(h)' = {} /\ Share(h) = 0
      BY <1>1, <1>3, <2>3 DEF Share
    <3>2. Counts({}, opened'[h].rc, 0)
      BY <2>1, NoneCounted
    <3>. QED BY <2>1, <3>1, <3>2 DEF Counted
  <2>4. CASE h = v /\ CapturedAt(io, h) # {}
    <3>1. Captures(h)' \subseteq {} \cup {<<s, 1>>} /\ Share(h) = 0 /\ opened'[h].rc = 1
      BY <1>1, <1>3, <2>4 DEF Share, v
    <3>3. Counts(Captures(h)', 1, 0)
      <4>1. Counts({<<s, 1>>}, 1, 0)
        <5> DEFINE x == <<s, 1>>
        <5>. HIDE DEF x
        <5>1. IsFiniteSet({x}) /\ Cardinality({x}) = 1
          BY FS_Singleton
        <5>. QED BY <5>1 DEF Counts, x
      <4>2. Captures(h)' \in SUBSET {<<s, 1>>}
        BY <3>1
      <4>. QED BY <4>1, <4>2, Counting
    <3>. QED BY <2>1, <3>1, <3>3 DEF Counted
  <2>. QED BY <2>2, <2>3, <2>4
<1>. QED
  BY <1>1, <1>2, <1>3, <1>4 DEF IoInv, IoTypeOK

\* The reference of a handle that came back, once it is given back.
LEMMA GivenBack ==
  ASSUME NEW cells \in [Files -> HandleStates], NEW v
  PROVE  LET left == IF v \in Files THEN Dec(cells, v, 1) ELSE cells
         IN  left \in [Files -> HandleStates] /\ \A h \in Files : h # v => left[h] = cells[h]
BY DecCells

\* `map' gives back the handle that its function took.
LEMMA MapKeeps ==
  ASSUME IoInv, NEW s \in LeanIOs, map(s)
  PROVE  IoInv'
<1>1. PICK m \in Outcomes(s) :
        /\ Ran(ios[s], m)
        /\ opened' = IF m.result.value \in Files THEN Dec(m.opened, m.result.value, 1) ELSE m.opened
        /\ \E io \in {NoAction} \cup (IF m.result.ok THEN {pure} ELSE {}) : ios' = [ios EXCEPT ![s] = io]
  BY DEF map
<1>2. PICK io \in {NoAction, pure} : ios' = [ios EXCEPT ![s] = io]
  BY <1>1
<1>3. ios[s] # NoAction /\ holding' = holding
  BY DEF map, Free
<1>4. io \in Waiting /\ \A h : CapturedAt(io, h) = {}
  BY FreeCaptures DEF FreePrimitives
<1>5. m.opened \in [Files -> HandleStates]
  BY <1>1, <1>3, OutcomeIsCounted
<1>6. opened' \in [Files -> HandleStates] /\ \A h \in Files : h # m.result.value => opened'[h] = m.opened[h]
  BY <1>1, <1>5, GivenBack
<1>7. /\ \A h \in Files : h # m.result.value => opened'[h] = m.opened[h] /\ CapturedAt(io, h) = {}
      /\ CapturedAt(io, m.result.value) = {}
  BY <1>4, <1>6
<1>8. Passes(s, m, io)
  BY <1>1, <1>2, <1>3, <1>4, <1>6, <1>7 DEF Passes
<1>. QED
  BY <1>8, PassedOn

\* `bind' gives a handle that came back to the next action, or gives it back.
LEMMA BindKeeps ==
  ASSUME IoInv, NEW s \in LeanIOs, bind(s)
  PROVE  IoInv'
<1>1. PICK m \in Outcomes(s) :
        /\ Ran(ios[s], m)
        /\ \/ /\ m.result.value \in Files
              /\ \E do \in HandleOps : ios' = [ios EXCEPT ![s] = handle_op(do, m.result.value)]
              /\ opened' = Dec(Inc(m.opened, m.result.value), m.result.value, 1)
           \/ /\ m.result.value \notin Files /\ m.result.ok
              /\ \E io \in FreePrimitives : ios' = [ios EXCEPT ![s] = io]
              /\ opened' = m.opened
           \/ /\ ios' = [ios EXCEPT ![s] = NoAction]
              /\ opened' = IF m.result.value \in Files THEN Dec(m.opened, m.result.value, 1) ELSE m.opened
  BY DEF bind
<1> DEFINE v == m.result.value
<1>2. ios[s] # NoAction /\ holding' = holding
  BY DEF bind, Free
<1>3. m.opened \in [Files -> HandleStates] /\ (v \in Files => m.opened[v].rc = 1)
  BY <1>1, <1>2, OutcomeIsCounted
<1>4. CASE /\ v \in Files
           /\ \E do \in HandleOps : ios' = [ios EXCEPT ![s] = handle_op(do, v)]
           /\ opened' = Dec(Inc(m.opened, v), v, 1)
  <2>1. PICK do \in HandleOps : ios' = [ios EXCEPT ![s] = handle_op(do, v)]
    BY <1>4
  <2> DEFINE io == handle_op(do, v)
             cells == Inc(m.opened, v)
  <2>2. io \in Waiting /\ \A h : CapturedAt(io, h) = IF h = v THEN {1} ELSE {}
    BY <1>4, HandleOpCaptures
  <2>3. /\ cells \in [Files -> HandleStates] /\ cells[v].rc = 2
        /\ \A g \in Files : g # v => cells[g] = m.opened[g]
    BY <1>3, <1>4, IncCells
  <2>4. /\ opened' \in [Files -> HandleStates] /\ opened'[v].rc = 1
        /\ \A g \in Files : g # v => opened'[g] = m.opened[g]
    <3>1. opened' = Dec(cells, v, 1)
      BY <1>4
    <3>. HIDE DEF cells, v
    <3>. QED BY <1>4, <2>3, <3>1, DecCells
  <2>5. ios' = [ios EXCEPT ![s] = io]
    BY <2>1
  <2>. HIDE DEF io
  <2>6. /\ \A h \in Files : h # v => opened'[h] = m.opened[h] /\ CapturedAt(io, h) = {}
        /\ CapturedAt(io, v) \subseteq {1}
    BY <2>2, <2>4
  <2>9. Passes(s, m, io)
    BY <1>1, <1>2, <2>2, <2>4, <2>5, <2>6, <1>4 DEF Passes
  <2>. QED BY <2>9, PassedOn
<1>5. CASE /\ v \notin Files
           /\ \E io \in FreePrimitives : ios' = [ios EXCEPT ![s] = io]
           /\ opened' = m.opened
  <2>1. PICK io \in FreePrimitives : ios' = [ios EXCEPT ![s] = io]
    BY <1>5
  <2>2. io \in Waiting /\ \A h : CapturedAt(io, h) = {}
    BY FreeCaptures
  <2>3. /\ \A h \in Files : h # v => opened'[h] = m.opened[h] /\ CapturedAt(io, h) = {}
        /\ CapturedAt(io, v) = {} /\ opened' \in [Files -> HandleStates]
    BY <1>3, <1>5, <2>2
  <2>9. Passes(s, m, io)
    BY <1>1, <1>2, <2>1, <2>2, <2>3, <1>5 DEF Passes
  <2>. QED BY <2>9, PassedOn
<1>6. CASE /\ ios' = [ios EXCEPT ![s] = NoAction]
           /\ opened' = IF v \in Files THEN Dec(m.opened, v, 1) ELSE m.opened
  <2>1. NoAction \in Waiting /\ \A h : CapturedAt(NoAction, h) = {}
    BY FreeCaptures
  <2>2. opened' \in [Files -> HandleStates] /\ \A h \in Files : h # v => opened'[h] = m.opened[h]
    BY <1>3, <1>6, GivenBack
  <2>3. /\ \A h \in Files : h # v => opened'[h] = m.opened[h] /\ CapturedAt(NoAction, h) = {}
        /\ CapturedAt(NoAction, v) = {}
    BY <2>1, <2>2
  <2>9. Passes(s, m, NoAction)
    BY <1>1, <1>2, <1>6, <2>1, <2>2, <2>3 DEF Passes
  <2>. QED BY <2>9, PassedOn
<1>. QED
  BY <1>1, <1>4, <1>5, <1>6

\* The calls of std::fs touch no handle and no action.
LEMMA FsCallKeeps ==
  ASSUME IoInv, FsCall
  PROVE  IoInv'
<1>1. PICK p \in Paths, q \in Paths : write_file(p) \/ remove_file(p) \/ create_dir(p) \/ remove_dir(p) \/ rename(p, q)
  BY DEF FsCall
<1>2. UNCHANGED <<opened, exit_code, holding, ios>> /\ ran' = NotRun
  BY DEF FsCall
<1>3. fs' \in [Paths -> PathKinds]
  <2>1. fs \in [Paths -> PathKinds]
    BY DEF IoInv, IoTypeOK
  <2>. QED BY <1>1, <2>1 DEF write_file, remove_file, create_dir, remove_dir, rename, PathKinds
<1>4. \A h \in Files : Counted(h)'
  BY <1>2 DEF IoInv, Counted, Captures, CapturedAt, Parts, Share
<1>5. StepsRunInOrder'
  <2>1. ran'.io = NoAction /\ ran'.done = <<>> /\ Len(<<>>) = 0 /\ Parts(NoAction) = <<>>
    BY <1>2 DEF NotRun, Parts, NoAction
  <2>. QED BY <2>1 DEF StepsRunInOrder, Parts
<1>. QED
  BY <1>2, <1>3, <1>4, <1>5 DEF IoInv, IoTypeOK

\* A reference that counts keeps its file open.
LEMMA CountedHandlesAreOpen ==
  ASSUME IoInv
  PROVE  HandlesAreOpen
<1>1. ASSUME NEW h \in Files
      PROVE  opened[h].rc \in Nat /\ Counts(Captures(h), opened[h].rc, Share(h)) /\ Share(h) \in {0, 1}
  BY RcIsNat DEF IoInv, IoTypeOK, Counted, Share
<1>2. ASSUME NEW h \in holding
      PROVE  opened[h].rc > 0
  <2>1. h \in Files /\ Share(h) = 1
    BY DEF IoInv, IoTypeOK, Share
  <2>2. opened[h].rc \in Nat /\ Counts(Captures(h), opened[h].rc, Share(h)) /\ Share(h) \in {0, 1}
    BY <1>1, <2>1
  <2> DEFINE rc == opened[h].rc
  <2>3. rc \in Nat /\ Counts(Captures(h), rc, 1)
    BY <2>1, <2>2
  <2>. HIDE DEF rc
  <2>4. rc > 0
    BY <2>3, Counting
  <2>. QED BY <2>4 DEF rc
<1>3. ASSUME NEW s \in LeanIOs, NEW h \in Files, CapturesOf(ios[s], h) > 0
      PROVE  opened[h].rc > 0
  <2>1. ios[s] \in Waiting /\ {<<s, i>> : i \in CapturedAt(ios[s], h)} \subseteq Captures(h)
    BY OwnCaptures DEF IoInv
  <2>2. CapturesOf(ios[s], h) = Cardinality(CapturedAt(ios[s], h))
    BY <2>1, CapturesAreCounted
  <2>3. CapturedAt(ios[s], h) # {}
    BY <1>3, <2>2, FS_EmptySet
  <2>4. Captures(h) # {}
    BY <2>1, <2>3
  <2>5. opened[h].rc \in Nat /\ Counts(Captures(h), opened[h].rc, Share(h)) /\ Share(h) \in {0, 1}
    BY <1>1
  <2> DEFINE rc == opened[h].rc
             n == Share(h)
  <2>6. rc \in Nat /\ Counts(Captures(h), rc, n) /\ n \in {0, 1}
    BY <2>5
  <2>. HIDE DEF rc, n
  <2>7. rc > 0
    BY <2>4, <2>6, Counting
  <2>. QED BY <2>7 DEF rc
<1>. QED
  BY <1>2, <1>3 DEF HandlesAreOpen

\* Every action that is run performs the primitives it was composed of in their
\* order up to the first that fails, and meets each handle that it captured
\* while its file is open: whatever was closed, dropped, composed or bound
\* before, for any paths, handles and variables and actions of any size.
THEOREM ActionsAlwaysRunAsComposed == IoSpec => []ActionsRunAsComposed
<1>1. IoInit => IoInv
  <2>1. SUFFICES ASSUME IoInit PROVE IoInv
    OBVIOUS
  <2>2. Closed \in HandleStates
    BY DEF Closed, HandleStates
  <2>3. NoAction \in Waiting /\ \A h : CapturedAt(NoAction, h) = {}
    BY FreeCaptures
  <2>4. IoTypeOK
    BY <2>1, <2>2, <2>3 DEF IoInit, IoTypeOK, ExitCodes
  <2>5. ASSUME NEW h \in Files
        PROVE  Counted(h)
    <3>1. Captures(h) = {}
      BY <2>1, <2>3 DEF IoInit, Captures
    <3>2. opened[h].rc = 0 /\ Share(h) = 0
      BY <2>1 DEF IoInit, Closed, Share
    <3>. QED BY <3>1, <3>2, NoneCounted DEF Counted
  <2>6. StepsRunInOrder
    <3>1. ran.io = NoAction /\ ran.done = <<>> /\ Len(<<>>) = 0 /\ Parts(NoAction) = <<>>
      BY <2>1 DEF IoInit, NotRun, Parts, NoAction
    <3>. QED BY <3>1 DEF StepsRunInOrder
  <2>. QED BY <2>4, <2>5, <2>6 DEF IoInv
<1>2. IoInv /\ [IoNext]_ioVars => IoInv'
  <2>1. SUFFICES ASSUME IoInv, [IoNext]_ioVars PROVE IoInv'
    OBVIOUS
  <2>2. CASE UNCHANGED ioVars
    BY <2>1, <2>2 DEF IoInv, IoTypeOK, Counted, Captures, CapturedAt, Share, StepsRunInOrder, Parts, ioVars
  <2>3. ASSUME NEW s \in LeanIOs, NewAction(s) \/ UseHandle(s) \/ close(s) \/ DropAction(s)
        PROVE  IoInv'
    BY <2>1, <2>3, NewActionKeeps, UseHandleKeeps, CloseKeeps, DropActionKeeps
  <2>4. ASSUME NEW s \in LeanIOs, run(s) \/ map(s) \/ bind(s)
        PROVE  IoInv'
    BY <2>1, <2>4, RunKeeps, MapKeeps, BindKeeps
  <2>5. ASSUME NEW s \in LeanIOs, NEW s2 \in LeanIOs, then(s, s2)
        PROVE  IoInv'
    BY <2>1, <2>5, ThenKeeps
  <2>6. ASSUME NEW h \in Files, DropHandle(h)
        PROVE  IoInv'
    BY <2>1, <2>6, DropHandleKeeps
  <2>7. CASE FsCall
    BY <2>1, <2>7, FsCallKeeps
  <2>. QED BY <2>1, <2>2, <2>3, <2>4, <2>5, <2>6, <2>7 DEF IoNext
<1>3. IoInv => ActionsRunAsComposed
  BY CountedHandlesAreOpen DEF ActionsRunAsComposed, IoInv
<1>. QED
  BY <1>1, <1>2, <1>3, PTL DEF IoSpec

-----------------------------------------------------------------------------
\* What a list of positions up to n says.
Lists(p, K, n) ==
  /\ p \in Seq(1..n) /\ Len(p) <= n
  /\ \A i, j \in 1..Len(p) : i < j => p[i] < p[j]
  /\ \A i \in 1..Len(p) : p[i] \in K /\ p[i] >= i
  /\ \A k \in K \cap 1..n : \E i \in 1..Len(p) : p[i] = k
  /\ \A i \in 1..Len(p) : 1..p[i] \subseteq K => p[i] = i
  /\ \A i \in 1..Len(p) : p[i] = i => \A j \in 1..i : p[j] = j
  /\ 1..n \subseteq K => Len(p) = n
  /\ Len(p) = n => \A j \in 1..n : p[j] = j

\* A position more.
LEMMA ListsMore ==
  ASSUME NEW K, NEW n \in Nat, NEW p, Lists(p, K, n)
  PROVE  /\ n + 1 \in K => Lists(Append(p, n + 1), K, n + 1)
         /\ n + 1 \notin K => Lists(p, K, n + 1)
<1> DEFINE q == Append(p, n + 1)
           m == Len(p)
<1>1. /\ p \in Seq(1..n) /\ m <= n /\ m \in Nat
      /\ p \in Seq(1..(n + 1)) /\ q \in Seq(1..(n + 1))
  <2>1. p \in Seq(1..n) /\ m <= n
    BY DEF Lists
  <2>2. 1..n \subseteq 1..(n + 1) /\ n + 1 \in 1..(n + 1)
    OBVIOUS
  <2>3. p \in Seq(1..(n + 1))
    BY <2>1, <2>2
  <2>. QED BY <2>1, <2>2, <2>3
<1>2. \A i \in 1..m : p[i] \in 1..n
  BY <1>1
<1>3. /\ \A i, j \in 1..m : i < j => p[i] < p[j]
      /\ \A i \in 1..m : p[i] \in K /\ p[i] >= i
      /\ \A k \in K \cap 1..n : \E i \in 1..m : p[i] = k
      /\ \A i \in 1..m : 1..p[i] \subseteq K => p[i] = i
      /\ \A i \in 1..m : p[i] = i => \A j \in 1..i : p[j] = j
      /\ 1..n \subseteq K => m = n
      /\ m = n => \A j \in 1..n : p[j] = j
  BY DEF Lists
<1>4. ASSUME n + 1 \notin K
      PROVE  Lists(p, K, n + 1)
  <2>1. ~(1..(n + 1) \subseteq K) /\ K \cap 1..(n + 1) = K \cap 1..n
    BY <1>4
  <2>2. m # n + 1 /\ m <= n + 1
    BY <1>1
  <2>. HIDE DEF m
  <2>. QED BY <1>1, <1>3, <2>1, <2>2 DEF Lists, m
<1>5. ASSUME n + 1 \in K
      PROVE  Lists(q, K, n + 1)
  <2>1. Len(q) = m + 1 /\ q[m + 1] = n + 1 /\ \A i \in 1..m : q[i] = p[i]
    BY <1>1
  <2>. HIDE DEF m, q
  <2>2. /\ m + 1 <= n + 1
        /\ \A i \in 1..(m + 1) : i \in 1..m \/ i = m + 1
    BY <1>1
  <2>3. \A i, j \in 1..(m + 1) : i < j => q[i] < q[j]
    <3>1. ASSUME NEW i \in 1..(m + 1), NEW j \in 1..(m + 1), i < j
          PROVE  q[i] < q[j]
      <4>1. i \in 1..m /\ q[i] = p[i] /\ p[i] \in 1..n
        BY <1>1, <1>2, <2>1, <3>1
      <4>2. CASE j \in 1..m
        BY <1>3, <2>1, <3>1, <4>1, <4>2
      <4>3. CASE j = m + 1
        BY <2>1, <4>1, <4>3
      <4>. QED BY <2>2, <4>2, <4>3
    <3>. QED BY <3>1
  <2>4. \A i \in 1..(m + 1) : q[i] \in K /\ q[i] >= i
    BY <1>1, <1>3, <1>5, <2>1, <2>2
  <2>5. \A k \in K \cap 1..(n + 1) : \E i \in 1..(m + 1) : q[i] = k
    <3>1. ASSUME NEW k \in K \cap 1..(n + 1)
          PROVE  \E i \in 1..(m + 1) : q[i] = k
      <4>1. CASE k = n + 1
        BY <1>1, <2>1, <4>1
      <4>2. CASE k \in 1..n
        <5>1. PICK i \in 1..m : p[i] = k
          BY <1>3, <4>2
        <5>. QED BY <1>1, <2>1, <5>1
      <4>. QED BY <4>1, <4>2
    <3>. QED BY <3>1
  <2>6. 1..(n + 1) \subseteq K => m + 1 = n + 1
    BY <1>3
  <2>7. \A i \in 1..(m + 1) : 1..q[i] \subseteq K => q[i] = i
    BY <1>3, <2>1, <2>2, <2>6
  <2>8. m = n => \A j \in 1..(n + 1) : q[j] = j
    BY <1>3, <2>1, <2>2
  <2>9. \A i \in 1..(m + 1) : q[i] = i => \A j \in 1..i : q[j] = j
    <3>1. ASSUME NEW i \in 1..(m + 1), q[i] = i, NEW j \in 1..i
          PROVE  q[j] = j
      <4>1. CASE i \in 1..m
        <5>1. j \in 1..m
          BY <1>1, <4>1
        <5>. QED BY <1>3, <2>1, <3>1, <4>1, <5>1
      <4>2. CASE i = m + 1
        BY <1>1, <2>1, <2>8, <3>1, <4>2
      <4>. QED BY <2>2, <4>1, <4>2
    <3>. QED BY <3>1
  <2>10. m + 1 = n + 1 => \A j \in 1..(n + 1) : q[j] = j
    BY <1>1, <2>8
  <2>. QED BY <1>1, <2>1, <2>2, <2>3, <2>4, <2>5, <2>6, <2>7, <2>9, <2>10 DEF Lists
<1>. QED
  BY <1>4, <1>5

\* The positions up to n that are in K, in their order.
LEMMA AscendingLists ==
  ASSUME NEW K, NEW n \in Nat
  PROVE  Lists(Ascending(K, n), K, n)
<1> DEFINE Next2(g, k) == IF k = 0 THEN <<>> ELSE IF k \in K THEN Append(g[k - 1], k) ELSE g[k - 1]
           Built(g, d) == g = [k \in 0..d |-> Next2(g, k)]
           S == {d \in Nat : \E g : Built(g, d)}
<1>1. 0 \in S
  <2>1. Built([k \in 0..0 |-> <<>>], 0)
    OBVIOUS
  <2>. QED BY <2>1
<1>2. ASSUME NEW d \in Nat, d \in S
      PROVE  d + 1 \in S
  <2>1. PICK g : Built(g, d)
    BY <1>2
  <2> DEFINE h == [k \in 0..(d + 1) |-> IF k = d + 1 THEN IF k \in K THEN Append(g[d], k) ELSE g[d] ELSE g[k]]
  <2>2. ASSUME NEW k \in 0..(d + 1)
        PROVE  h[k] = Next2(h, k)
    <3>1. CASE k = d + 1
      BY <3>1
    <3>2. CASE k \in 0..d
      <4>1. g[k] = Next2(g, k)
        BY <2>1, <3>2
      <4>2. k # 0 => k - 1 \in 0..d
        BY <3>2
      <4>3. h[k] = g[k] /\ (k # 0 => h[k - 1] = g[k - 1])
        BY <3>2, <4>2
      <4>. QED BY <4>1, <4>3
    <3>. QED BY <3>1, <3>2
  <2>3. Built(h, d + 1)
    <3> DEFINE r == [k \in 0..(d + 1) |-> Next2(h, k)]
    <3>1. \A k \in 0..(d + 1) : h[k] = r[k]
      BY <2>2
    <3>2. h = [k \in 0..(d + 1) |-> h[k]] /\ r = [k \in 0..(d + 1) |-> r[k]]
      OBVIOUS
    <3>. QED BY <3>1, <3>2
  <2>. HIDE DEF Built, h
  <2>. QED BY <2>3
<1>3. n \in S
  <2> HIDE DEF S
  <2>1. Nat \subseteq S
    BY <1>1, <1>2, NumbersByInduction
  <2>. QED BY <2>1
<1> DEFINE upTo == CHOOSE g : Built(g, n)
<1>4. Built(upTo, n)
  BY <1>3
<1>5. Ascending(K, n) = upTo[n]
  BY Zenon DEF Ascending
<1>. HIDE DEF upTo
<1>6. /\ upTo[0] = <<>>
      /\ \A k \in Nat : k < n => upTo[k + 1] = IF k + 1 \in K THEN Append(upTo[k], k + 1) ELSE upTo[k]
  <2>1. \A k \in 0..n : upTo[k] = Next2(upTo, k)
    BY <1>4
  <2>2. upTo[0] = <<>>
    BY <2>1
  <2>3. ASSUME NEW k \in Nat, k < n
        PROVE  upTo[k + 1] = IF k + 1 \in K THEN Append(upTo[k], k + 1) ELSE upTo[k]
    <3>1. k + 1 \in 0..n /\ k + 1 # 0 /\ (k + 1) - 1 = k
      BY <2>3
    <3>. QED BY <2>1, <3>1
  <2>. QED BY <2>2, <2>3
<1> DEFINE T == {k \in Nat : Lists(upTo[k], K, k)}
<1>7. 0 \in T
  <2>1. Lists(<<>>, K, 0)
    BY DEF Lists
  <2>. QED BY <1>6, <2>1
<1>8. ASSUME NEW k \in Nat, k < n, k \in T
      PROVE  k + 1 \in T
  <2>1. upTo[k + 1] = IF k + 1 \in K THEN Append(upTo[k], k + 1) ELSE upTo[k]
    BY <1>6, <1>8
  <2>2. Lists(upTo[k], K, k)
    BY <1>8
  <2>3. Lists(upTo[k + 1], K, k + 1)
    BY <2>1, <2>2, ListsMore
  <2>. QED BY <2>3
<1>9. \A k \in 0..n : k \in T
  <2> HIDE DEF T
  <2>. QED BY <1>7, <1>8, RangeByInduction
<1>10. n \in T
  <2> HIDE DEF T
  <2>. QED BY <1>9
<1>. QED
  BY <1>5, <1>10

-----------------------------------------------------------------------------
\* The fields of a declaration, and those that cross
KeptFields(i) == {j \in DOMAIN Fields(i) : ~Marked(Fields(i)[j], "skip")}
Crossed(i) == Ascending(KeptFields(i), Len(Fields(i)))
Named(i) == \A j \in DOMAIN Fields(i) : Fields(i)[j].name # ""
Unnamed(i) == \A j \in DOMAIN Fields(i) : Fields(i)[j].name = ""

\* The fields of a variant have their positions; all of them have a name of
\* their own or none has one.
LEMMA FieldsAre ==
  ASSUME decl \in Declarations, NEW i \in DOMAIN decl.variants
  PROVE  /\ DOMAIN Fields(i) = 1..Len(Fields(i)) /\ Len(Fields(i)) \in Nat
         /\ DOMAIN decl.variants[i].fields = DOMAIN Fields(i)
         /\ \A j \in DOMAIN Fields(i) : Fields(i)[j].index = j - 1
         /\ Named(i) \/ Unnamed(i)
         /\ \A j, k \in DOMAIN Fields(i) :
              Fields(i)[j].name # "" /\ Fields(i)[j].name = Fields(i)[k].name => j = k
         /\ decl.variants[i].tag \in Nat \cup {NoTag} /\ TagOf(decl.variants, i) \in Nat
         /\ IsStruct => i = 1 /\ DOMAIN decl.variants = {1}
         /\ decl.transparent \in BOOLEAN
<1> DEFINE v == decl.variants[i]
           f == v.fields
           FieldSet == [name : STRING, attrs : SUBSET FieldAttributes]
           Variants == [tag : Nat \cup {NoTag}, fields : Seq(FieldSet)]
<1>1. /\ decl.transparent \in BOOLEAN
      /\ decl.variants \in Seq(Variants)
      /\ decl.kind = "struct" => Len(decl.variants) = 1
      /\ \A w \in Range(decl.variants) : \A j, k \in DOMAIN w.fields :
           /\ w.fields[j].name = "" <=> w.fields[k].name = ""
           /\ w.fields[j].name # "" /\ w.fields[j].name = w.fields[k].name => j = k
  BY DeclarationsAssumption
<1>2. /\ v \in Variants /\ i \in 1..Len(decl.variants) /\ v \in Range(decl.variants)
      /\ DOMAIN decl.variants = 1..Len(decl.variants) /\ Len(decl.variants) \in Nat
  <2> DEFINE vs == decl.variants
  <2>1. vs \in Seq(Variants) /\ i \in DOMAIN vs
    BY <1>1
  <2>. HIDE DEF Variants, vs
  <2>2. /\ vs[i] \in Variants /\ i \in 1..Len(vs) /\ vs[i] \in Range(vs)
        /\ DOMAIN vs = 1..Len(vs) /\ Len(vs) \in Nat
    BY <2>1 DEF Range
  <2>. QED BY <2>2 DEF vs
<1>3. /\ v.tag \in Nat \cup {NoTag} /\ f \in Seq(FieldSet)
      /\ \A j, k \in DOMAIN f : /\ f[j].name = "" <=> f[k].name = ""
                                /\ f[j].name # "" /\ f[j].name = f[k].name => j = k
  BY <1>1, <1>2
<1>4. TagOf(decl.variants, i) \in Nat
  <2> DEFINE l == Len(decl.variants)
  <2>3. v.tag \in Nat \cup {NoTag}
    BY <1>3
  <2>4. i \in 1..l /\ l \in Nat
    BY <1>2
  <2>. HIDE DEF l
  <2>1. v.tag \in Nat \cup {NoTag} /\ i - 1 \in Nat
    BY <2>3, <2>4
  <2>. HIDE DEF v
  <2>2. TagOf(decl.variants, i) = IF v.tag = NoTag THEN i - 1 ELSE v.tag
    BY DEF TagOf, v
  <2>. QED BY <2>1, <2>2
<1>5. IsStruct => i = 1 /\ DOMAIN decl.variants = {1}
  <2>1. IsStruct => Len(decl.variants) = 1
    BY <1>1 DEF IsStruct
  <2>2. IsStruct => i \in 1..1 /\ DOMAIN decl.variants = 1..1
    BY <1>2, <2>1
  <2>. QED BY <2>2
<1>. HIDE DEF f, FieldSet
<1>6. Fields(i) = [j \in DOMAIN f |-> [name |-> f[j].name, attrs |-> f[j].attrs, index |-> j - 1]]
  BY DEF Fields, extract_fields, f
<1>7. DOMAIN f = 1..Len(f) /\ Len(f) \in Nat
  <2>1. f \in Seq(FieldSet)
    BY <1>3
  <2>. QED BY ONLY <2>1
<1>8. DOMAIN Fields(i) = 1..Len(f) /\ Len(Fields(i)) = Len(f)
  BY <1>6, <1>7
<1>9. \A j \in DOMAIN Fields(i) : Fields(i)[j].index = j - 1 /\ Fields(i)[j].name = f[j].name
  BY <1>6, <1>7, <1>8
<1>10. Named(i) \/ Unnamed(i)
  BY <1>3, <1>7, <1>8, <1>9 DEF Named, Unnamed
<1>11. \A j, k \in DOMAIN Fields(i) : Fields(i)[j].name # "" /\ Fields(i)[j].name = Fields(i)[k].name => j = k
  BY <1>3, <1>7, <1>8, <1>9
<1>. QED
  BY <1>1, <1>3, <1>4, <1>5, <1>7, <1>8, <1>9, <1>10, <1>11 DEF f

\* The fields that cross are those that are kept, in their order, with
\* positions of their own.
LEMMA CrossingIs ==
  ASSUME decl \in Declarations, NEW i \in DOMAIN decl.variants
  PROVE  LET places == Crossed(i) IN
         /\ Lists(places, KeptFields(i), Len(Fields(i))) /\ Len(places) \in Nat
         /\ DOMAIN Crossing(i) = 1..Len(places) /\ Len(Crossing(i)) = Len(places)
         /\ \A k \in 1..Len(places) :
              /\ places[k] \in KeptFields(i)
              /\ Crossing(i)[k].index = k - 1
              /\ Crossing(i)[k].name = Fields(i)[places[k]].name
              /\ Crossing(i)[k].attrs = Fields(i)[places[k]].attrs
         /\ ~IsStruct => \A k \in 1..Len(places) : places[k] = k
<1> DEFINE places == Crossed(i)
           n == Len(Fields(i))
<1>1. n \in Nat /\ DOMAIN Fields(i) = 1..n /\ \A j \in 1..n : Fields(i)[j].index = j - 1
  BY FieldsAre
<1>2. Lists(places, KeptFields(i), n)
  BY <1>1, AscendingLists DEF Crossed
<1>3. places \in Seq(1..n) /\ Len(places) \in Nat /\ DOMAIN places = 1..Len(places) /\ \A k \in 1..Len(places) : places[k] \in 1..n /\ places[k] \in KeptFields(i)
  <2>1. places \in Seq(1..n) /\ \A k \in 1..Len(places) : places[k] \in KeptFields(i)
    BY <1>2 DEF Lists
  <2>. HIDE DEF places
  <2>. QED BY <2>1
<1>4. CASE IsStruct
  <2>1. KeptFields(i) = {j \in DOMAIN Fields(i) : "skip" \notin Fields(i)[j].attrs}
    BY <1>4 DEF KeptFields, Marked
  <2>2. Active(Fields(i)) = places
    BY <2>1 DEF Active, Crossed
  <2>3. Crossing(i) = [k \in DOMAIN places |-> [Fields(i)[places[k]] EXCEPT !.index = k - 1]]
    BY <1>4, <2>2 DEF Crossing, active_fields
  <2>. HIDE DEF places
  <2>4. DOMAIN Crossing(i) = 1..Len(places) /\ Len(Crossing(i)) = Len(places)
    BY <1>3, <2>3
  <2>5. ASSUME NEW k \in 1..Len(places)
        PROVE  /\ Crossing(i)[k].index = k - 1
               /\ Crossing(i)[k].name = Fields(i)[places[k]].name
               /\ Crossing(i)[k].attrs = Fields(i)[places[k]].attrs
    <3> DEFINE g == Fields(i)[places[k]]
    <3>1. Crossing(i)[k] = [g EXCEPT !.index = k - 1]
      BY <1>3, <2>3
    <3>2. g = [name |-> g.name, attrs |-> g.attrs, index |-> g.index]
      <4>1. places[k] \in DOMAIN Fields(i)
        BY <1>1, <1>3
      <4>. QED BY <4>1 DEF Fields, extract_fields
    <3>. HIDE DEF g
    <3>3. [g EXCEPT !.index = k - 1].index = k - 1 /\ [g EXCEPT !.index = k - 1].name = g.name
          /\ [g EXCEPT !.index = k - 1].attrs = g.attrs
      BY <3>2
    <3>. QED BY <3>1, <3>3 DEF g
  <2>. QED BY <1>2, <1>3, <1>4, <2>4, <2>5 DEF places
<1>5. CASE ~IsStruct
  <2>1. KeptFields(i) = 1..n
    BY <1>1, <1>5 DEF KeptFields, Marked
  <2>2. Crossing(i) = Fields(i)
    BY <1>5 DEF Crossing
  <2>3. Len(places) = n /\ \A k \in 1..n : places[k] = k
    BY <1>2, <2>1 DEF Lists
  <2>. HIDE DEF places
  <2>. QED BY <1>1, <1>2, <1>3, <1>5, <2>1, <2>2, <2>3 DEF places
<1>. QED
  BY <1>4, <1>5

\* What self.<name> or self.<index> selects for the field at k.
LEMMA Selects ==
  ASSUME decl \in Declarations, NEW i \in DOMAIN decl.variants, NEW k \in 1..Len(Crossed(i))
  PROVE  /\ field_name(Crossing(i)[k], Fields(i)) \in DOMAIN Fields(i)
         /\ (Named(i) \/ Crossed(i)[k] = k) => field_name(Crossing(i)[k], Fields(i)) = Crossed(i)[k]
<1> DEFINE places == Crossed(i)
           f == Crossing(i)[k]
<1>1. /\ places[k] \in DOMAIN Fields(i) /\ f.index = k - 1 /\ f.name = Fields(i)[places[k]].name
      /\ Lists(places, KeptFields(i), Len(Fields(i))) /\ Len(places) \in Nat
  BY CrossingIs DEF KeptFields
<1>2. /\ DOMAIN Fields(i) = 1..Len(Fields(i)) /\ Len(Fields(i)) \in Nat /\ (Named(i) \/ Unnamed(i))
      /\ \A j, l \in DOMAIN Fields(i) :
              Fields(i)[j].name # "" /\ Fields(i)[j].name = Fields(i)[l].name => j = l
  BY FieldsAre
<1>3. CASE Named(i)
  <2>1. f.name # ""
    BY <1>1, <1>3 DEF Named
  <2>2. field_name(f, Fields(i)) = CHOOSE j \in DOMAIN Fields(i) : Fields(i)[j].name = f.name
    BY <2>1 DEF field_name
  <2>3. (CHOOSE j \in DOMAIN Fields(i) : Fields(i)[j].name = f.name) = places[k]
    BY <1>1, <1>2, <2>1
  <2>. QED BY <1>1, <2>2, <2>3
<1>4. CASE Unnamed(i)
  <2>1. f.name = ""
    BY <1>1, <1>4 DEF Unnamed
  <2>2. field_name(f, Fields(i)) = f.index + 1
    BY <2>1 DEF field_name
  <2>3. f.index + 1 = k
    BY <1>1
  <2>4. k \in DOMAIN Fields(i)
    <3>1. Len(places) <= Len(Fields(i))
      BY <1>1 DEF Lists
    <3> DEFINE m == Len(places)
               n == Len(Fields(i))
    <3>2. k \in 1..m /\ m <= n
      BY <3>1
    <3>3. m \in Nat /\ n \in Nat
      BY <1>1, <1>2
    <3>4. DOMAIN Fields(i) = 1..n
      BY <1>2
    <3>. HIDE DEF m, n
    <3>5. k \in 1..n
      BY <3>2, <3>3
    <3>. QED BY <3>4, <3>5
  <2>5. Named(i) => FALSE
    BY <1>1, <1>4 DEF Named, Unnamed
  <2>. QED BY <2>2, <2>3, <2>4, <2>5
<1>. QED
  BY <1>2, <1>3, <1>4

\* The fields that cross, each at the position that it is selected from.
InOrder(i) == \A k \in 1..Len(Crossed(i)) : field_name(Crossing(i)[k], Fields(i)) = Crossed(i)[k]

\* A skipped field is behind those that cross.
LEMMA SkipsLastIsInOrder ==
  ASSUME decl \in Declarations, NEW i \in DOMAIN decl.variants, SkipsLast
  PROVE  InOrder(i)
<1> DEFINE places == Crossed(i)
           n == Len(Fields(i))
<1>1. /\ DOMAIN Fields(i) = 1..n /\ n \in Nat /\ (Named(i) \/ Unnamed(i))
      /\ DOMAIN decl.variants[i].fields = DOMAIN Fields(i)
  BY FieldsAre
<1>2. /\ Lists(places, KeptFields(i), n) /\ Len(places) \in Nat
      /\ \A k \in 1..Len(places) : places[k] \in KeptFields(i)
      /\ ~IsStruct => \A k \in 1..Len(places) : places[k] = k
  BY CrossingIs
<1>3. ASSUME NEW k \in 1..Len(places)
      PROVE  Named(i) \/ places[k] = k
  <2>1. CASE Named(i)
    BY <2>1
  <2>2. CASE ~IsStruct
    BY <1>2, <2>2
  <2>3. CASE Unnamed(i) /\ IsStruct
    <3>1. places[k] \in 1..n
      BY <1>1, <1>2 DEF KeptFields
    <3>2. \A j \in 1..n : Fields(i)[j].name = decl.variants[i].fields[j].name /\ Fields(i)[j].attrs = decl.variants[i].fields[j].attrs
      BY <1>1 DEF Fields, extract_fields
    <3>3. "skip" \notin decl.variants[i].fields[places[k]].attrs
      BY <1>2, <2>3, <3>1, <3>2 DEF KeptFields, Marked
    <3>4. ASSUME NEW j \in 1..places[k]
          PROVE  j \in KeptFields(i)
      <4>1. j \in 1..n /\ (j = places[k] \/ j < places[k])
        BY <1>1, <3>1
      <4>2. decl.variants[i].fields[j].name = ""
        BY <1>1, <2>3, <3>2, <4>1 DEF Unnamed
      <4>3. "skip" \notin decl.variants[i].fields[j].attrs
        BY <1>1, <2>3, <3>1, <3>3, <4>1, <4>2 DEF SkipsLast
      <4>. QED BY <1>1, <3>2, <4>1, <4>3 DEF KeptFields, Marked
    <3>5. 1..places[k] \subseteq KeptFields(i)
      BY <3>4
    <3>. QED BY <1>2, <3>5 DEF Lists
  <2>. QED BY <1>1, <2>1, <2>2, <2>3
<1>4. ASSUME NEW k \in 1..Len(places)
      PROVE  field_name(Crossing(i)[k], Fields(i)) = places[k]
  BY <1>3, Selects
<1>. QED
  BY <1>4 DEF InOrder

\* rustc takes a from_lean only when every field that crosses is in order, and
\* the variable of every field that is kept is that of one that crosses.
LEMMA CompilesIsInOrder ==
  ASSUME decl \in Declarations, NEW i \in DOMAIN decl.variants, Compiles, ~decl.transparent, "FromLean" \in derives
  PROVE  /\ InOrder(i)
         /\ \A k \in 1..Len(Crossed(i)) : field_var_name(Crossing(i)[k]) = field_var_name(Fields(i)[Crossed(i)[k]])
         /\ \A k, l \in 1..Len(Crossed(i)) : field_var_name(Crossing(i)[k]) = field_var_name(Crossing(i)[l]) => k = l
<1> DEFINE places == Crossed(i)
           n == Len(Fields(i))
           m == Len(places)
<1>1. /\ DOMAIN Fields(i) = 1..n /\ n \in Nat /\ (Named(i) \/ Unnamed(i))
      /\ \A j \in 1..n : Fields(i)[j].index = j - 1
      /\ \A j, k \in 1..n : Fields(i)[j].name # "" /\ Fields(i)[j].name = Fields(i)[k].name => j = k
  BY FieldsAre
<1>2. /\ Lists(places, KeptFields(i), n) /\ m \in Nat
      /\ DOMAIN Crossing(i) = 1..m
      /\ \A k \in 1..m : /\ places[k] \in KeptFields(i)
                         /\ Crossing(i)[k].index = k - 1
                         /\ Crossing(i)[k].name = Fields(i)[places[k]].name
  BY CrossingIs
<1>3. \A k \in 1..m : places[k] \in 1..n
  BY <1>1, <1>2 DEF KeptFields
<1>4. /\ \A j, k \in 1..m : j < k => places[j] < places[k]
      /\ \A k \in 1..m : places[k] >= k /\ (places[k] = k => \A j \in 1..k : places[j] = j)
  BY <1>2 DEF Lists
<1>. HIDE DEF places, n, m
<1>5. CASE Named(i)
  <2>1. \A k \in 1..m : field_name(Crossing(i)[k], Fields(i)) = places[k]
    BY <1>5, Selects DEF places, m
  <2>2. \A k \in 1..m : Crossing(i)[k].name # "" /\ Fields(i)[places[k]].name # ""
    <3>1. \A j \in 1..n : Fields(i)[j].name # ""
      BY <1>1, <1>5 DEF Named
    <3>. QED BY <1>2, <1>3, <3>1
  <2>3. \A k \in 1..m : field_var_name(Crossing(i)[k]) = <<"name", Fields(i)[places[k]].name>>
                     /\ field_var_name(Fields(i)[places[k]]) = <<"name", Fields(i)[places[k]].name>>
    BY <1>2, <2>2 DEF field_var_name
  <2>4. ASSUME NEW k \in 1..m, NEW l \in 1..m, <<"name", Fields(i)[places[k]].name>> = <<"name", Fields(i)[places[l]].name>>
        PROVE  k = l
    <3>1. Fields(i)[places[k]].name = Fields(i)[places[l]].name
      BY <2>4
    <3>2. places[k] = places[l]
      BY <1>1, <1>3, <2>2, <3>1
    <3>. QED BY <1>2, <1>3, <1>4, <3>2
  <2>. QED BY <2>1, <2>3, <2>4 DEF InOrder, places, m
<1>6. CASE Unnamed(i)
  <2>1. \A k \in 1..m : field_var_name(Crossing(i)[k]) = <<"index", k - 1>>
    BY <1>1, <1>2, <1>3, <1>6 DEF field_var_name, Unnamed
  <2>2. \A j \in 1..n : field_var_name(Fields(i)[j]) = <<"index", j - 1>>
    BY <1>1, <1>6 DEF field_var_name, Unnamed
  <2>3. \A k \in 1..m : places[k] = k
    <3>1. SUFFICES ASSUME m # 0 PROVE places[m] = m
      BY <1>2, <1>4
    <3>2. m \in 1..m
      BY <1>2, <3>1
    <3>3. places[m] \in DOMAIN Fields(i) /\ ~Marked(Fields(i)[places[m]], "skip")
      BY <1>2, <3>2 DEF KeptFields
    <3>4. generate_construction(i)[places[m]] = <<"index", places[m] - 1>>
      BY <1>1, <2>2, <3>3 DEF generate_construction
    <3>5. <<"index", places[m] - 1>> \in Range(generate_construction(i)) \ {Defaulted}
      <4>1. <<"index", places[m] - 1>> \in Range(generate_construction(i))
        BY <3>3, <3>4 DEF generate_construction, Range
      <4>2. <<"index", places[m] - 1>> # Defaulted
        BY DEF Defaulted
      <4>. QED BY <4>1, <4>2
    <3>6. PICK k \in 1..m : field_var_name(Crossing(i)[k]) = <<"index", places[m] - 1>>
      BY <1>2, <3>5 DEF Compiles
    <3>7. <<"index", k - 1>> = <<"index", places[m] - 1>>
      BY <2>1, <3>6
    <3>8. k - 1 = places[m] - 1
      BY <3>7
    <3>9. k = places[m]
      BY <1>3, <3>2, <3>8
    <3>. QED BY <1>2, <1>4, <3>2, <3>9
  <2>4. \A k \in 1..m : field_name(Crossing(i)[k], Fields(i)) = places[k]
    BY <2>3, Selects DEF places, m
  <2>5. \A k \in 1..m : field_var_name(Fields(i)[places[k]]) = <<"index", k - 1>>
    BY <1>3, <2>2, <2>3
  <2>6. ASSUME NEW k \in 1..m, NEW l \in 1..m, <<"index", k - 1>> = <<"index", l - 1>>
        PROVE  k = l
    <3>1. k - 1 = l - 1
      BY <2>6
    <3>. QED BY <1>2, <3>1
  <2>. QED BY <2>1, <2>4, <2>5, <2>6 DEF InOrder, places, m
<1>. QED
  BY <1>1, <1>5, <1>6

-----------------------------------------------------------------------------
\* The field that is sent k-th, and what the object then holds for it.
Selected(k) == value.fields[field_name(Crossing(value.variant)[k], Fields(value.variant))]
Kid(k) == IF Marked(Crossing(value.variant)[k], "with") THEN Custom(Selected(k)) ELSE Converted(Selected(k))

\* There is a value to convert.
HasValue ==
  /\ "IntoLean" \in derives
  /\ value.variant \in DOMAIN decl.variants
  /\ value.fields \in [DOMAIN decl.variants[value.variant].fields -> Payloads]

\* The first n fields of the object are set, none of them to a value that does
\* not convert.
Filled(n) ==
  LET m == Len(Crossed(value.variant)) IN
  /\ object = [tag |-> TagOf(decl.variants, value.variant) % TagSize,
               kids |-> [k \in 1..m |-> IF k <= n THEN Kid(k) ELSE Unset]]
  /\ \A k \in 1..m : k <= n => Selected(k) \notin Unfit

\* The object is one that into_lean made of the value.
SentByRust ==
  /\ HasValue
  /\ decl.transparent => object = Converted(value.fields[1])
  /\ ~decl.transparent => Filled(Len(Crossed(value.variant)))

\* The object is of a variant, or of one that the enum does not know.
PassedByLean ==
  ~decl.transparent =>
    \E i \in DOMAIN decl.variants :
      /\ Len(object.kids) = Len(Crossing(i))
      /\ \/ object.tag = TagOf(decl.variants, i)
         \/ ~IsStruct /\ object.tag \notin {TagOf(decl.variants, j) : j \in DOMAIN decl.variants}

\* The variables before the field hold the fields of the value.
Extracted ==
  LET i == value.variant IN
  /\ field \in 1..Len(Crossed(i)) + 1
  /\ \A k \in 1..Len(Crossed(i)) : k < field =>
       /\ field_var_name(Crossing(i)[k]) \in DOMAIN locals
       /\ locals[field_var_name(Crossing(i)[k])] = Selected(k)

\* The header of an object says which variant it is of.
ToldApart == TagsDiffer /\ TagsFit

\* What is true of every declaration at every step of the conversions.
DeriveInv ==
  /\ decl \in Declarations /\ derives \subseteq Traits
  /\ step \notin {"source", "rejected"} => analyze_declaration(decl) /\ Compiles
  /\ step \in {"source", "rejected", "derived"} => value = <<>> /\ field = 1
  /\ step = "into_inner" => HasValue /\ decl.transparent /\ field = 1
  /\ step = "into" => /\ HasValue /\ ~decl.transparent
                      /\ field \in 1..Len(Crossed(value.variant)) + 1 /\ Filled(field - 1)
  /\ step = "converted" => field = 1 /\ (SentByRust \/ (value = <<>> /\ PassedByLean))
  /\ step = "from" => /\ ~decl.transparent /\ "FromLean" \in derives /\ Arms # {} /\ field \in Nat \ {0}
                      /\ \/ SentByRust /\ (ToldApart => Extracted)
                         \/ value = <<>> /\ PassedByLean
  /\ DeriveRoundTrips

\* The conversions leave the declaration alone.
LEMMA DeclarationStays ==
  ASSUME decl' = decl, derives' = derives
  PROVE  /\ \A i : Crossing(i)' = Crossing(i) /\ Fields(i)' = Fields(i) /\ Crossed(i)' = Crossed(i)
         /\ Compiles' = Compiles /\ TagsDiffer' = TagsDiffer /\ TagsFit' = TagsFit /\ SkipsLast' = SkipsLast
         /\ IsStruct' = IsStruct /\ ToldApart' = ToldApart /\ \A f, a : Marked(f, a)' = Marked(f, a)
         /\ \A i : generate_construction(i)' = generate_construction(i)
<1>1. \A i : Fields(i)' = Fields(i)
  BY DEF Fields
<1>2. IsStruct' = IsStruct /\ \A f, a : Marked(f, a)' = Marked(f, a)
  BY DEF IsStruct, Marked
<1>3. \A i : Crossing(i)' = Crossing(i) /\ Crossed(i)' = Crossed(i) /\ generate_construction(i)' = generate_construction(i)
  BY DEF Fields, IsStruct, Marked, Crossing, Crossed, KeptFields, generate_construction
<1>4. Compiles' = Compiles
  BY DEF Compiles, Fields, IsStruct, Marked, Crossing, generate_construction
<1>5. TagsDiffer' = TagsDiffer /\ TagsFit' = TagsFit /\ SkipsLast' = SkipsLast /\ ToldApart' = ToldApart
  BY DEF TagsDiffer, TagsFit, SkipsLast, ToldApart, IsStruct
<1>. QED
  BY <1>1, <1>2, <1>3, <1>4, <1>5

\* What the object of a value holds is what Sent says.
LEMMA SentIs ==
  ASSUME decl \in Declarations, HasValue
  PROVE  LET places == Crossed(value.variant) IN
         Sent(value.variant, value.fields) = [k \in 1..Len(places) |-> value.fields[places[k]]]
<1> DEFINE i == value.variant
           n == Len(Fields(i))
           p == value.fields
<1>1. i \in DOMAIN decl.variants /\ DOMAIN p = DOMAIN Fields(i) /\ DOMAIN Fields(i) = 1..n /\ n \in Nat
  BY FieldsAre DEF HasValue
<1>2. Len(p) = n
  <2>1. p = [j \in 1..n |-> p[j]]
    BY <1>1 DEF HasValue
  <2>. HIDE DEF p, n
  <2>. QED BY <1>1, <2>1
<1>3. {j \in DOMAIN p : ~Marked(Fields(i)[j], "skip")} = KeptFields(i)
  BY <1>1 DEF KeptFields
<1>4. Ascending({j \in DOMAIN p : ~Marked(Fields(i)[j], "skip")}, Len(p)) = Crossed(i)
  BY <1>2, <1>3 DEF Crossed
<1>5. DOMAIN Crossed(i) = 1..Len(Crossed(i))
  <2>1. Crossed(i) \in Seq(1..n)
    BY <1>1, CrossingIs DEF Lists
  <2>. QED BY <2>1
<1>. QED
  BY <1>4, <1>5 DEF Sent

\* The arm that from_lean takes for the object of a value.
LEMMA ArmIs ==
  ASSUME decl \in Declarations, HasValue, TagsDiffer, TagsFit, object.tag = TagOf(decl.variants, value.variant) % TagSize
  PROVE  Arms = {value.variant} /\ Arm = value.variant
<1> DEFINE i == value.variant
<1>1. i \in DOMAIN decl.variants /\ \A j \in DOMAIN decl.variants : TagOf(decl.variants, j) \in Nat
  BY FieldsAre DEF HasValue
<1>2. TagSize \in Nat \ {0}
  BY DeriveAssumption
<1>3. \A j \in DOMAIN decl.variants : TagOf(decl.variants, j) % TagSize = TagOf(decl.variants, j)
  <2>1. ASSUME NEW t \in Nat, t < TagSize
        PROVE  t % TagSize = t
    BY <1>2, <2>1
  <2>. QED BY <1>1, <2>1 DEF TagsFit
<1>4. Arms = {i}
  <2>1. CASE IsStruct
    BY <1>1, <2>1, FieldsAre DEF Arms
  <2>2. CASE ~IsStruct
    <3>1. Arms = {j \in DOMAIN decl.variants : TagOf(decl.variants, j) = object.tag}
      BY <2>2 DEF Arms
    <3>. QED BY <1>1, <1>3, <3>1 DEF TagsDiffer
  <2>. QED BY <2>1, <2>2
<1>5. Arm = i
  <2>1. i \in Nat
    <3>1. decl.variants \in Seq([tag : Nat \cup {NoTag}, fields : Seq([name : STRING, attrs : SUBSET FieldAttributes])])
      BY DeclarationsAssumption
    <3> DEFINE V == [tag : Nat \cup {NoTag}, fields : Seq([name : STRING, attrs : SUBSET FieldAttributes])]
    <3>2. decl.variants \in Seq(V)
      BY <3>1
    <3>. HIDE DEF V
    <3>. QED BY <1>1, <3>2
  <2>. QED BY <1>4, <2>1 DEF Arm
<1>. QED
  BY <1>4, <1>5

\* The arm for an object that Lean passed has the fields of the object.
LEMMA PassedArm ==
  ASSUME decl \in Declarations, PassedByLean, ~decl.transparent, Arms # {}, TagsDiffer
  PROVE  Arm \in Arms /\ Len(object.kids) = Len(Crossing(Arm))
<1>1. PICK i \in DOMAIN decl.variants :
        /\ Len(object.kids) = Len(Crossing(i))
        /\ \/ object.tag = TagOf(decl.variants, i)
           \/ ~IsStruct /\ object.tag \notin {TagOf(decl.variants, j) : j \in DOMAIN decl.variants}
  BY DEF PassedByLean
<1>2. Arms = {i}
  <2>1. CASE IsStruct
    BY <1>1, <2>1, FieldsAre DEF Arms
  <2>2. CASE ~IsStruct
    <3>1. Arms = {j \in DOMAIN decl.variants : TagOf(decl.variants, j) = object.tag}
      BY <2>2 DEF Arms
    <3>2. object.tag = TagOf(decl.variants, i)
      BY <1>1, <3>1
    <3>. QED BY <1>1, <3>1, <3>2 DEF TagsDiffer
  <2>. QED BY <2>1, <2>2
<1>3. i \in Nat
  <2> DEFINE V == [tag : Nat \cup {NoTag}, fields : Seq([name : STRING, attrs : SUBSET FieldAttributes])]
  <2>1. decl.variants \in Seq(V)
    BY DeclarationsAssumption
  <2>. HIDE DEF V
  <2>. QED BY <1>1, <2>1
<1>4. Arm = i
  BY <1>2, <1>3 DEF Arm
<1>. QED
  BY <1>1, <1>2, <1>4

\* The user converts a value: nothing is set yet.
LEMMA IntoLeanKeeps ==
  ASSUME DeriveInv, NEW i \in DOMAIN decl.variants,
         NEW p \in [DOMAIN decl.variants[i].fields -> Payloads], IntoLean(i, p)
  PROVE  DeriveInv'
<1>1. /\ decl' = decl /\ derives' = derives /\ field' = 1 /\ decl \in Declarations
      /\ value' = [variant |-> i, fields |-> p] /\ "IntoLean" \in derives
      /\ step' = IF decl.transparent THEN "into_inner" ELSE "into"
      /\ analyze_declaration(decl) /\ Compiles
  BY DEF DeriveInv, IntoLean
<1>2. value'.variant = i /\ value'.fields = p /\ HasValue'
  BY <1>1 DEF HasValue
<1>3. ASSUME ~decl.transparent
      PROVE  1 \in 1..Len(Crossed(i)) + 1 /\ Filled(0)'
  <2> DEFINE m == Len(Crossed(i))
  <2>1. m \in Nat /\ Len(Crossing(i)) = m
    BY <1>1, CrossingIs
  <2>2. object' = [tag |-> TagOf(decl.variants, i) % TagSize, kids |-> [k \in 1..m |-> Unset]]
    BY <1>3, <2>1 DEF IntoLean, lean_alloc_ctor
  <2>3. Crossed(value.variant)' = Crossed(i)
    BY <1>1, <1>2, DeclarationStays
  <2>. HIDE DEF m
  <2>4. \A k \in 1..m : ~(k <= 0)
    BY <2>1
  <2>5. /\ object' = [tag |-> TagOf(decl'.variants, value'.variant) % TagSize,
                      kids |-> [k \in 1..m |-> IF k <= 0 THEN Kid(k)' ELSE Unset]]
        /\ \A k \in 1..m : k <= 0 => Selected(k)' \notin Unfit
    <3>1. [k \in 1..m |-> IF k <= 0 THEN Kid(k)' ELSE Unset] = [k \in 1..m |-> Unset]
      BY <2>4
    <3>. QED BY <1>1, <1>2, <2>2, <2>4, <3>1
  <2>6. Len(Crossed(value.variant))' = m
    BY <2>3 DEF m
  <2>7. Filled(0)'
    BY <2>5, <2>6 DEF Filled
  <2>. QED BY <2>1, <2>7 DEF m
<1>4. DeriveRoundTrips'
  BY <1>1 DEF DeriveRoundTrips
<1>5. Compiles' /\ analyze_declaration(decl)' /\ Crossed(value.variant)' = Crossed(i)
  BY <1>1, <1>2, DeclarationStays DEF analyze_declaration, validate_container_attrs
<1>6. decl.transparent \in BOOLEAN
  BY <1>1, FieldsAre
<1>7. CASE decl.transparent
  BY <1>1, <1>2, <1>4, <1>5, <1>7 DEF DeriveInv
<1>8. CASE ~decl.transparent
  <2>1. field' \in 1..Len(Crossed(value.variant))' + 1
    BY <1>1, <1>3, <1>5, <1>8
  <2>2. Filled(field - 1)'
    BY <1>1, <1>3, <1>8
  <2>. QED BY <1>1, <1>2, <1>4, <1>5, <1>8, <2>1, <2>2 DEF DeriveInv
<1>. QED
  BY <1>6, <1>7, <1>8

\* What is derived compiles, and its attributes were accepted.
LEMMA ExpandKeeps ==
  ASSUME DeriveInv, Expand
  PROVE  DeriveInv'
<1>1. /\ decl' = decl /\ derives' = derives /\ value' = value /\ field' = field /\ step = "source"
      /\ step' = IF analyze_declaration(decl) /\ Compiles THEN "derived" ELSE "rejected"
  BY DEF Expand
<1>2. Compiles' = Compiles /\ analyze_declaration(decl)' = analyze_declaration(decl)
  BY <1>1, DeclarationStays DEF analyze_declaration, validate_container_attrs
<1>3. DeriveRoundTrips'
  BY <1>1 DEF DeriveRoundTrips
<1>. QED
  BY <1>1, <1>2, <1>3 DEF DeriveInv

\* A transparent struct has one field.
LEMMA InnerIs ==
  ASSUME DeriveInv, HasValue, decl.transparent, step \notin {"source", "rejected"}
  PROVE  value.variant = 1 /\ DOMAIN value.fields = 1..1
<1>1. validate_container_attrs(decl) /\ decl \in Declarations
  BY DEF DeriveInv, analyze_declaration
<1>2. IsStruct /\ Len(decl.variants[1].fields) = 1 /\ value.variant = 1
  BY <1>1, FieldsAre DEF validate_container_attrs, IsStruct, HasValue
<1>3. DOMAIN decl.variants[1].fields = DOMAIN Fields(1) /\ DOMAIN Fields(1) = 1..Len(Fields(1))
  BY <1>1, <1>2, FieldsAre DEF HasValue
<1>4. Len(Fields(1)) = 1
  <2> DEFINE f == decl.variants[1].fields
  <2>1. Fields(1) = [j \in DOMAIN f |-> [name |-> f[j].name, attrs |-> f[j].attrs, index |-> j - 1]]
    BY DEF Fields, extract_fields
  <2>2. DOMAIN f = 1..1
    <3>1. Len(f) = 1
      BY <1>2
    <3>2. f \in Seq([name : STRING, attrs : SUBSET FieldAttributes])
      <4> DEFINE F == Seq([name : STRING, attrs : SUBSET FieldAttributes])
                 V == [tag : Nat \cup {NoTag}, fields : F]
      <4>1. decl.variants \in Seq(V) /\ 1 \in DOMAIN decl.variants
        BY <1>1, <1>2, DeclarationsAssumption DEF HasValue
      <4>2. decl.variants[1] \in V
        <5>. HIDE DEF V
        <5>. QED BY <4>1
      <4>. QED BY <4>2
    <3> DEFINE S == [name : STRING, attrs : SUBSET FieldAttributes]
    <3>3. f \in Seq(S)
      BY <3>2
    <3>. HIDE DEF f, S
    <3>. QED BY <3>1, <3>3
  <2>. HIDE DEF f
  <2>. QED BY <2>1, <2>2
<1>. QED
  BY <1>2, <1>3, <1>4 DEF HasValue

\* A transparent struct is sent as its field.
LEMMA IntoInnerKeeps ==
  ASSUME DeriveInv, IntoInner
  PROVE  DeriveInv'
<1>1. /\ decl' = decl /\ derives' = derives /\ value' = value /\ field' = field
      /\ decl \in Declarations /\ derives \subseteq Traits /\ HasValue /\ decl.transparent /\ field = 1
      /\ analyze_declaration(decl) /\ Compiles
      /\ IF value.fields[1] \in Unfit THEN step' = "failed" ELSE step' = "converted" /\ object' = Converted(value.fields[1])
  BY DEF DeriveInv, IntoInner
<1>2. Compiles' = Compiles /\ analyze_declaration(decl)' = analyze_declaration(decl) /\ HasValue'
  BY <1>1, DeclarationStays DEF analyze_declaration, validate_container_attrs, HasValue
<1>3. CASE value.fields[1] \in Unfit
  <2>1. DOMAIN value.fields = 1..1
    BY <1>1, InnerIs DEF IntoInner
  <2>2. value.fields[1] \in Range(value.fields)
    BY <2>1 DEF Range
  <2>3. DeriveRoundTrips'
    BY <1>1, <1>3, <2>2 DEF DeriveRoundTrips
  <2>. QED BY <1>1, <1>2, <1>3, <2>3 DEF DeriveInv
<1>4. CASE value.fields[1] \notin Unfit
  <2>1. step' = "converted" /\ object' = Converted(value.fields[1])
    BY <1>1, <1>4
  <2>2. SentByRust'
    BY <1>1, <1>2, <2>1 DEF SentByRust
  <2>3. DeriveRoundTrips'
    BY <1>1, <2>1 DEF DeriveRoundTrips
  <2>. QED BY <1>1, <1>2, <2>1, <2>2, <2>3 DEF DeriveInv
<1>. QED
  BY <1>3, <1>4

\* Every field is set where from_lean will read it.
LEMMA SetFieldKeeps ==
  ASSUME DeriveInv, SetField
  PROVE  DeriveInv'
<1> DEFINE i == value.variant
           m == Len(Crossed(i))
           f == Crossing(i)[field]
           v == Selected(field)
<1>1. /\ decl' = decl /\ derives' = derives /\ value' = value /\ locals' = locals
      /\ decl \in Declarations /\ derives \subseteq Traits /\ HasValue /\ ~decl.transparent
      /\ field \in 1..m + 1 /\ Filled(field - 1)
      /\ analyze_declaration(decl) /\ Compiles
      /\ step = "into" /\ field <= Len(Crossing(i))
      /\ IF v \in Unfit THEN step' = "failed" /\ UNCHANGED <<object, field>>
         ELSE /\ object' = [object EXCEPT !.kids[f.index + 1] = IF Marked(f, "with") THEN Custom(v) ELSE Converted(v)]
              /\ field' = field + 1
              /\ step' = step
  BY DEF DeriveInv, SetField, Selected
<1>2. Compiles' = Compiles /\ analyze_declaration(decl)' = analyze_declaration(decl) /\ HasValue'
  BY <1>1, DeclarationStays DEF analyze_declaration, validate_container_attrs, HasValue
<1>3. /\ i \in DOMAIN decl.variants /\ m \in Nat /\ Len(Crossing(i)) = m
      /\ \A k \in 1..m : Crossing(i)[k].index = k - 1
      /\ DOMAIN value.fields = DOMAIN Fields(i)
  BY <1>1, CrossingIs, FieldsAre DEF HasValue
<1>. HIDE DEF m
<1>4. field \in 1..m /\ field + 1 \in 1..m + 1 /\ (field + 1) - 1 = field /\ f.index + 1 = field
  BY <1>1, <1>3
<1>5. CASE v \in Unfit
  <2>1. field_name(f, Fields(i)) \in DOMAIN value.fields
    BY <1>1, <1>3, <1>4, Selects DEF m
  <2>2. v \in Range(value.fields)
    BY <2>1 DEF Selected, Range
  <2>3. DeriveRoundTrips'
    BY <1>1, <1>5, <2>2 DEF DeriveRoundTrips
  <2>. QED BY <1>1, <1>2, <1>5, <2>3 DEF DeriveInv
<1>6. CASE v \notin Unfit
  <2>1. object' = [object EXCEPT !.kids[field] = Kid(field)] /\ field' = field + 1 /\ step' = "into"
    BY <1>1, <1>4, <1>6 DEF Kid
  <2>2. /\ object = [tag |-> TagOf(decl.variants, i) % TagSize,
                     kids |-> [k \in 1..m |-> IF k <= field - 1 THEN Kid(k) ELSE Unset]]
        /\ \A k \in 1..m : k <= field - 1 => Selected(k) \notin Unfit
    BY <1>1 DEF Filled, m
  <2> DEFINE before == [k \in 1..m |-> IF k <= field - 1 THEN Kid(k) ELSE Unset]
             after == [k \in 1..m |-> IF k <= field THEN Kid(k) ELSE Unset]
  <2>3. [before EXCEPT ![field] = Kid(field)] = after
    <3>1. \A k \in 1..m : k # field => (k <= field - 1 <=> k <= field)
      BY <1>4
    <3>2. \A k \in 1..m : [before EXCEPT ![field] = Kid(field)][k] = after[k]
      BY <1>4, <3>1
    <3>. QED BY <3>2
  <2>4. object' = [tag |-> TagOf(decl.variants, i) % TagSize, kids |-> after]
    <3>. HIDE DEF before, after
    <3>1. object = [tag |-> TagOf(decl.variants, i) % TagSize, kids |-> before]
      BY <2>2 DEF before
    <3>. QED BY <2>1, <2>3, <3>1
  <2>5. \A k \in 1..m : k <= field => Selected(k) \notin Unfit
    BY <1>4, <1>6, <2>2
  <2>6. \A k : Kid(k)' = Kid(k) /\ Selected(k)' = Selected(k)
    BY <1>1, DeclarationStays DEF Kid, Selected
  <2>7. Len(Crossed(value.variant))' = m
    BY <1>1, DeclarationStays DEF m
  <2>8. Filled(field - 1)'
    <3>1. field' - 1 = field
      BY <1>4, <2>1
    <3>2. /\ object' = [tag |-> TagOf(decl'.variants, value'.variant) % TagSize,
                        kids |-> [k \in 1..m |-> IF k <= field THEN Kid(k)' ELSE Unset]]
          /\ \A k \in 1..m : k <= field => Selected(k)' \notin Unfit
      BY <1>1, <2>4, <2>5, <2>6
    <3>3. Filled(field - 1)' <=>
            /\ object' = [tag |-> TagOf(decl'.variants, value'.variant) % TagSize,
                          kids |-> [k \in 1..m |-> IF k <= field' - 1 THEN Kid(k)' ELSE Unset]]
            /\ \A k \in 1..m : k <= field' - 1 => Selected(k)' \notin Unfit
      BY <2>7 DEF Filled
    <3>. QED BY <3>1, <3>2, <3>3
  <2>9. DeriveRoundTrips'
    BY <2>1 DEF DeriveRoundTrips
  <2>10. field' \in 1..Len(Crossed(value.variant))' + 1
    BY <1>4, <2>1, <2>7
  <2>. QED BY <1>1, <1>2, <2>1, <2>8, <2>9, <2>10 DEF DeriveInv
<1>. QED
  BY <1>5, <1>6

\* A constructor that is full is what Sent says.
LEMMA ReturnObjectKeeps ==
  ASSUME DeriveInv, ReturnObject
  PROVE  DeriveInv'
<1> DEFINE i == value.variant
           m == Len(Crossed(i))
<1>1. /\ decl' = decl /\ derives' = derives /\ value' = value /\ object' = object /\ field' = 1
      /\ decl \in Declarations /\ derives \subseteq Traits /\ HasValue /\ ~decl.transparent
      /\ field \in 1..m + 1 /\ Filled(field - 1)
      /\ analyze_declaration(decl) /\ Compiles
      /\ step' = "converted" /\ field > Len(Crossing(i))
  BY DEF DeriveInv, ReturnObject
<1>2. Compiles' = Compiles /\ analyze_declaration(decl)' = analyze_declaration(decl) /\ HasValue'
  BY <1>1, DeclarationStays DEF analyze_declaration, validate_container_attrs, HasValue
<1>3. i \in DOMAIN decl.variants /\ m \in Nat /\ Len(Crossing(i)) = m
  BY <1>1, CrossingIs DEF HasValue
<1>4. Filled(m)
  <2>. HIDE DEF m
  <2>1. field - 1 = m
    BY <1>1, <1>3
  <2>. QED BY <1>1, <2>1
<1>5. SentByRust'
  <2>1. \A k : Kid(k)' = Kid(k) /\ Selected(k)' = Selected(k)
    BY <1>1, DeclarationStays DEF Kid, Selected
  <2>2. Len(Crossed(value.variant))' = m
    BY <1>1, DeclarationStays
  <2>3. Filled(Len(Crossed(value.variant)))'
    BY <1>1, <1>4, <2>1, <2>2 DEF Filled
  <2>. QED BY <1>1, <1>2, <2>3 DEF SentByRust
<1>6. SkipsLast => /\ Unset \notin Range(object.kids)
                   /\ [j \in DOMAIN object.kids |-> object.kids[j][2]] = Sent(i, value.fields)
  <2>1. SUFFICES ASSUME SkipsLast
                 PROVE  /\ Unset \notin Range(object.kids)
                        /\ [j \in DOMAIN object.kids |-> object.kids[j][2]] = Sent(i, value.fields)
    OBVIOUS
  <2>2. object.kids = [k \in 1..m |-> Kid(k)]
    <3>1. object.kids = [k \in 1..m |-> IF k <= m THEN Kid(k) ELSE Unset]
      BY <1>4 DEF Filled
    <3>. HIDE DEF m
    <3>2. \A k \in 1..m : k <= m
      BY <1>3
    <3>. QED BY <3>1, <3>2
  <2>3. \A k \in 1..m : Kid(k)[2] = Selected(k) /\ Kid(k) # Unset
    BY DEF Kid, Custom, Converted, Unset
  <2>4. \A k \in 1..m : Selected(k) = value.fields[Crossed(i)[k]]
    BY <1>1, <1>3, <2>1, SkipsLastIsInOrder DEF InOrder, Selected
  <2>5. Sent(i, value.fields) = [k \in 1..m |-> value.fields[Crossed(i)[k]]]
    BY <1>1, SentIs
  <2>6. Unset \notin Range(object.kids)
    BY <2>2, <2>3 DEF Range
  <2>. HIDE DEF m
  <2>. QED BY <2>2, <2>3, <2>4, <2>5, <2>6
<1>7. DeriveRoundTrips'
  <2>1. SkipsLast' = SkipsLast /\ Sent(value.variant, value.fields)' = Sent(i, value.fields)
    BY <1>1, DeclarationStays DEF Sent, Fields, Marked, IsStruct
  <2>. QED BY <1>1, <1>6, <2>1 DEF DeriveRoundTrips
<1>. QED
  BY <1>1, <1>2, <1>5, <1>7 DEF DeriveInv

\* Lean passes an object of a variant, or one that no variant has the tag of.
LEMMA LeanPassesKeeps ==
  ASSUME DeriveInv, NEW tag, NEW kids, LeanPasses(tag, kids)
  PROVE  DeriveInv'
<1>1. /\ decl' = decl /\ derives' = derives /\ value' = value /\ field' = field
      /\ decl \in Declarations /\ derives \subseteq Traits /\ value = <<>> /\ field = 1
      /\ analyze_declaration(decl) /\ Compiles /\ step' = "converted"
      /\ object' = [tag |-> tag, kids |-> kids]
  BY DEF DeriveInv, LeanPasses
<1>2. Compiles' = Compiles /\ analyze_declaration(decl)' = analyze_declaration(decl)
  BY <1>1, DeclarationStays DEF analyze_declaration, validate_container_attrs
<1>3. PassedByLean'
  <2>1. PICK i \in DOMAIN decl.variants :
          /\ Len(kids) = Len(Crossing(i))
          /\ tag = TagOf(decl.variants, i) \/ (~IsStruct /\ tag \notin {TagOf(decl.variants, j) : j \in DOMAIN decl.variants})
    BY DEF LeanPasses
  <2>2. object'.tag = tag /\ object'.kids = kids
    BY <1>1
  <2>. QED BY <1>1, <2>1, <2>2, DeclarationStays DEF PassedByLean
<1>4. DeriveRoundTrips'
  BY <1>1 DEF DeriveRoundTrips
<1>. QED
  BY <1>1, <1>2, <1>3, <1>4 DEF DeriveInv

\* Lean passes the field of a transparent struct.
LEMMA LeanPassesInnerKeeps ==
  ASSUME DeriveInv, NEW content, LeanPassesInner(content)
  PROVE  DeriveInv'
<1>1. /\ decl' = decl /\ derives' = derives /\ value' = value /\ field' = field
      /\ decl \in Declarations /\ derives \subseteq Traits /\ value = <<>> /\ field = 1
      /\ analyze_declaration(decl) /\ Compiles /\ step' = "converted" /\ decl.transparent
  BY DEF DeriveInv, LeanPassesInner
<1>2. Compiles' = Compiles /\ analyze_declaration(decl)' = analyze_declaration(decl) /\ PassedByLean'
  BY <1>1, DeclarationStays DEF analyze_declaration, validate_container_attrs, PassedByLean
<1>3. DeriveRoundTrips'
  BY <1>1 DEF DeriveRoundTrips
<1>. QED
  BY <1>1, <1>2, <1>3 DEF DeriveInv

\* from_lean finds the arm of the value, when the variants are told apart.
LEMMA FromLeanKeeps ==
  ASSUME DeriveInv, FromLean
  PROVE  DeriveInv'
<1>1. /\ decl' = decl /\ derives' = derives /\ value' = value /\ object' = object /\ field' = 1
      /\ decl \in Declarations /\ derives \subseteq Traits /\ step = "converted"
      /\ SentByRust \/ (value = <<>> /\ PassedByLean)
      /\ analyze_declaration(decl) /\ Compiles /\ "FromLean" \in derives
  BY DEF DeriveInv, FromLean
<1>2. Compiles' = Compiles /\ analyze_declaration(decl)' = analyze_declaration(decl) /\ ToldApart' = ToldApart
  BY <1>1, DeclarationStays DEF analyze_declaration, validate_container_attrs
<1>3. CASE decl.transparent /\ object[1] = "plain"
  <2>1. step' = "rebuilt" /\ locals' = Rebuilt(1, <<object[2]>>)
    BY <1>3 DEF FromLean
  <2>2. ASSUME value # <<>>
        PROVE  locals' = Rebuilt(value.variant, Kept(value.variant, value.fields))
    <3>1. HasValue /\ object = Converted(value.fields[1])
      BY <1>1, <1>3, <2>2 DEF SentByRust
    <3>2. value.variant = 1 /\ DOMAIN value.fields = 1..1
      BY <1>1, <1>3, <3>1, InnerIs
    <3>3. Kept(1, value.fields) = [j \in 1..1 |-> value.fields[j]]
      BY <1>3, <3>2 DEF Kept
    <3>4. object[2] = value.fields[1]
      BY <3>1 DEF Converted
    <3>5. <<object[2]>> = [j \in 1..1 |-> value.fields[j]]
      BY <3>4
    <3>. QED BY <2>1, <3>2, <3>3, <3>5
  <2>3. Kept(value.variant, value.fields)' = Kept(value.variant, value.fields)
    BY <1>1, DeclarationStays DEF Kept, Fields, Marked, IsStruct
  <2>4. DeriveRoundTrips'
    BY <1>1, <2>1, <2>2, <2>3 DEF DeriveRoundTrips, Rebuilt
  <2>. QED BY <1>1, <1>2, <2>1, <2>4 DEF DeriveInv
<1>4. CASE decl.transparent /\ object[1] # "plain"
  <2>1. step' = "failed"
    BY <1>4 DEF FromLean
  <2>2. value = <<>>
    <3>1. SentByRust => object[1] = "plain"
      BY <1>4 DEF SentByRust, Converted
    <3>. QED BY <1>1, <1>4, <3>1
  <2>3. DeriveRoundTrips'
    BY <1>1, <2>1, <2>2 DEF DeriveRoundTrips
  <2>. QED BY <1>1, <1>2, <2>1, <2>3 DEF DeriveInv
<1>5. CASE ~decl.transparent /\ Arms = {}
  <2>1. step' = "failed"
    BY <1>5 DEF FromLean
  <2>2. value # <<>> => ~ToldApart
    <3>1. SUFFICES ASSUME value # <<>>, ToldApart PROVE FALSE
      OBVIOUS
    <3>2. HasValue /\ object.tag = TagOf(decl.variants, value.variant) % TagSize
      BY <1>1, <1>5, <3>1 DEF SentByRust, Filled
    <3>3. Arms = {value.variant}
      BY <1>1, <3>1, <3>2, ArmIs DEF ToldApart
    <3>. QED BY <1>5, <3>3
  <2>3. DeriveRoundTrips'
    BY <1>1, <1>2, <2>1, <2>2 DEF DeriveRoundTrips, ToldApart
  <2>. QED BY <1>1, <1>2, <2>1, <2>3 DEF DeriveInv
<1>6. CASE ~decl.transparent /\ Arms # {}
  <2>1. step' = "from"
    BY <1>6 DEF FromLean
  <2>2. Arms' = Arms
    BY <1>1 DEF Arms, IsStruct
  <2>3. \A k : Kid(k)' = Kid(k) /\ Selected(k)' = Selected(k)
    BY <1>1, DeclarationStays DEF Kid, Selected
  <2>4. Len(Crossed(value.variant))' = Len(Crossed(value.variant))
    BY <1>1, DeclarationStays
  <2>5. SentByRust => SentByRust' /\ (ToldApart => Extracted)'
    <3>1. SUFFICES ASSUME SentByRust PROVE SentByRust' /\ Extracted'
      OBVIOUS
    <3>2. HasValue' /\ Filled(Len(Crossed(value.variant)))'
      BY <1>1, <1>6, <2>3, <2>4, <3>1 DEF SentByRust, HasValue, Filled
    <3> DEFINE m == Len(Crossed(value.variant))
    <3>3. m \in Nat
      BY <1>1, <3>1, CrossingIs DEF SentByRust, HasValue
    <3>4. Len(Crossed(value.variant))' = m
      BY <2>4
    <3>. HIDE DEF m
    <3>5. 1 \in 1..m + 1 /\ \A k \in 1..m : ~(k < 1)
      BY <3>3
    <3>6. Extracted'
      BY <1>1, <3>4, <3>5 DEF Extracted
    <3>. QED BY <1>1, <1>6, <3>2, <3>6 DEF SentByRust
  <2>6. PassedByLean => PassedByLean'
    BY <1>1, DeclarationStays DEF PassedByLean
  <2>7. DeriveRoundTrips'
    BY <2>1 DEF DeriveRoundTrips
  <2>. QED BY <1>1, <1>2, <1>6, <2>1, <2>2, <2>5, <2>6, <2>7 DEF DeriveInv
<1>7. decl.transparent \in BOOLEAN
  BY <1>1, DeclarationsAssumption
<1>. QED
  BY <1>3, <1>4, <1>5, <1>6, <1>7

\* What an iteration of generate_field_extractions does, when it works on the
\* object of a value: the field of the value comes back.
LEMMA FieldComesBack ==
  ASSUME DeriveInv, GetField, SentByRust, ToldApart, Extracted
  PROVE  step' = "from" /\ Extracted' /\ field' = field + 1
<1> DEFINE i == value.variant
           m == Len(Crossed(i))
           f == Crossing(i)[field]
           x == field_var_name(f)
           kid == object.kids[f.index + 1]
<1>1. /\ decl' = decl /\ derives' = derives /\ value' = value /\ object' = object
      /\ decl \in Declarations /\ HasValue /\ ~decl.transparent /\ Compiles /\ derives = Traits
      /\ "FromLean" \in derives /\ step = "from"
  BY DEF DeriveInv, GetField, SentByRust, HasValue, Traits
<1>2. /\ object = [tag |-> TagOf(decl.variants, i) % TagSize,
                   kids |-> [k \in 1..m |-> IF k <= m THEN Kid(k) ELSE Unset]]
  BY <1>1 DEF SentByRust, Filled
<1>3. Arm = i
  BY <1>1, <1>2, ArmIs DEF ToldApart
<1>4. /\ i \in DOMAIN decl.variants /\ m \in Nat /\ Len(Crossing(i)) = m /\ DOMAIN Crossing(i) = 1..m
      /\ \A k \in 1..m : Crossing(i)[k].index = k - 1
  BY <1>1, CrossingIs DEF HasValue
<1>5. field \in 1..m + 1 /\ field <= m
  BY <1>3, <1>4 DEF GetField, Extracted
<1>6. /\ field \in 1..m /\ field + 1 \in 1..m + 1 /\ f.index + 1 = field /\ f.index = field - 1
      /\ \A k \in 1..m : k < field + 1 => k < field \/ k = field
  <2>. HIDE DEF m
  <2>1. field \in 1..m
    BY <1>4, <1>5
  <2>. QED BY <1>4, <2>1
<1>7. kid = Kid(field) /\ Len(object.kids) = m
  <2>. HIDE DEF m
  <2>1. object.kids = [k \in 1..m |-> IF k <= m THEN Kid(k) ELSE Unset]
    BY <1>2
  <2>2. object.kids[field] = Kid(field)
    BY <1>5, <1>6, <2>1
  <2>. QED BY <1>4, <1>6, <2>1, <2>2
<1>8. ~Marked(f, "with")
  BY <1>1, <1>4, <1>6 DEF Compiles
<1>9. kid = Converted(Selected(field)) /\ kid[1] = "plain" /\ kid[2] = Selected(field) /\ Reads(f, kid)
  BY <1>7, <1>8 DEF Kid, Converted, Reads
<1>10. f.index < Len(object.kids) /\ ~(f.index >= Len(object.kids))
  <2>. HIDE DEF m
  <2>1. field - 1 < m /\ ~(field - 1 >= m)
    BY <1>4, <1>6
  <2>. QED BY <1>6, <1>7, <2>1
<1>11. /\ locals' = [y \in DOMAIN locals \cup {x} |-> IF y = x THEN kid[2] ELSE locals[y]]
       /\ field' = field + 1 /\ step' = step
  BY <1>3, <1>9, <1>10 DEF GetField
<1>12. ASSUME NEW k \in 1..m, k < field + 1
       PROVE  field_var_name(Crossing(i)[k]) \in DOMAIN locals'
              /\ locals'[field_var_name(Crossing(i)[k])] = Selected(k)
  <2>1. CASE k = field
    BY <1>9, <1>11, <2>1
  <2>2. CASE k < field
    <3> DEFINE y == field_var_name(Crossing(i)[k])
    <3>1. y # x
      <4>1. k # field
        BY <1>6, <2>2
      <4>. QED BY <1>1, <1>4, <1>6, <4>1, CompilesIsInOrder
    <3>2. y \in DOMAIN locals /\ locals[y] = Selected(k)
      BY <2>2 DEF Extracted
    <3>. HIDE DEF y, x
    <3>3. y \in DOMAIN locals' /\ locals'[y] = locals[y]
      BY <1>11, <3>1, <3>2
    <3>. QED BY <3>2, <3>3 DEF y
  <2>. QED BY <1>6, <1>12, <2>1, <2>2
<1>13. /\ \A k : Selected(k)' = Selected(k) /\ Crossing(value.variant)' = Crossing(i)
       /\ Len(Crossed(value.variant))' = m
  BY <1>1, DeclarationStays DEF Selected
<1>. HIDE DEF m
<1>14. Extracted'
  BY <1>1, <1>6, <1>11, <1>12, <1>13 DEF Extracted
<1>. QED
  BY <1>1, <1>11, <1>14

\* The iterations read no field that the object does not have.
LEMMA GetFieldKeeps ==
  ASSUME DeriveInv, GetField
  PROVE  DeriveInv'
<1>1. /\ decl' = decl /\ derives' = derives /\ value' = value /\ object' = object
      /\ decl \in Declarations /\ derives \subseteq Traits /\ step = "from" /\ ~decl.transparent
      /\ Arms # {} /\ field \in Nat \ {0} /\ field <= Len(Crossing(Arm))
      /\ \/ SentByRust /\ (ToldApart => Extracted)
         \/ value = <<>> /\ PassedByLean
      /\ analyze_declaration(decl) /\ Compiles /\ "FromLean" \in derives
  BY DEF DeriveInv, GetField
<1>2. Compiles' = Compiles /\ analyze_declaration(decl)' = analyze_declaration(decl) /\ ToldApart' = ToldApart
      /\ TagsDiffer' = TagsDiffer /\ TagsFit' = TagsFit
  BY <1>1, DeclarationStays DEF analyze_declaration, validate_container_attrs
<1>3. /\ step' \in {"from", "failed", "out_of_bounds"}
      /\ step' = "from" => field' = field + 1
      /\ step' = "out_of_bounds" => Crossing(Arm)[field].index >= Len(object.kids)
  BY <1>1 DEF GetField
<1>4. SentByRust => SentByRust'
  <2>1. \A k : Kid(k)' = Kid(k) /\ Selected(k)' = Selected(k)
    BY <1>1, DeclarationStays DEF Kid, Selected
  <2>2. Len(Crossed(value.variant))' = Len(Crossed(value.variant))
    BY <1>1, DeclarationStays
  <2>. QED BY <1>1, <2>1, <2>2 DEF SentByRust, HasValue, Filled
<1>5. PassedByLean => PassedByLean'
  BY <1>1, DeclarationStays DEF PassedByLean
<1>6. Arms' = Arms
  BY <1>1 DEF Arms, IsStruct
<1>7. CASE SentByRust /\ ToldApart /\ Extracted
  <2>1. step' = "from" /\ Extracted' /\ field' = field + 1
    BY <1>7, FieldComesBack
  <2>. QED BY <1>1, <1>2, <1>4, <1>6, <1>7, <2>1 DEF DeriveInv, DeriveRoundTrips
<1>8. CASE SentByRust /\ ~ToldApart
  <2>1. DeriveRoundTrips'
    BY <1>1, <1>2, <1>3, <1>8 DEF DeriveRoundTrips, ToldApart
  <2>. QED BY <1>1, <1>2, <1>3, <1>4, <1>6, <1>8, <2>1 DEF DeriveInv
<1>9. CASE value = <<>> /\ PassedByLean
  <2>1. step' = "out_of_bounds" => ~TagsDiffer
    <3>1. SUFFICES ASSUME TagsDiffer PROVE ~(Crossing(Arm)[field].index >= Len(object.kids))
      BY <1>3
    <3>2. Arm \in DOMAIN decl.variants
      <4>1. Arms \subseteq DOMAIN decl.variants
        BY DEF Arms
      <4>2. Arm \in Arms
        BY <1>1, <1>9, <3>1, PassedArm
      <4>. QED BY <4>1, <4>2
    <3> DEFINE m == Len(Crossing(Arm))
    <3>3. m \in Nat /\ \A k \in 1..m : Crossing(Arm)[k].index = k - 1
      BY <1>1, <3>2, CrossingIs
    <3>4. Len(object.kids) = m
      BY <1>1, <1>9, <3>1, PassedArm
    <3>5. field <= m
      BY <1>1
    <3>. HIDE DEF m
    <3>6. field \in 1..m /\ field - 1 < m
      BY <1>1, <3>3, <3>5
    <3>7. Crossing(Arm)[field].index = field - 1
      BY <3>3, <3>6
    <3>. QED BY <1>1, <3>3, <3>4, <3>6, <3>7
  <2>2. DeriveRoundTrips'
    BY <1>1, <1>2, <1>3, <1>9, <2>1 DEF DeriveRoundTrips
  <2>. QED BY <1>1, <1>2, <1>3, <1>5, <1>6, <1>9, <2>2 DEF DeriveInv
<1>. QED
  BY <1>1, <1>7, <1>8, <1>9

\* from_lean constructs the value that was sent, the skipped fields at their
\* defaults: every variable holds the field of its own name.
LEMMA ConstructKeeps ==
  ASSUME DeriveInv, Construct
  PROVE  DeriveInv'
<1> DEFINE i == value.variant
           m == Len(Crossed(i))
<1>1. /\ decl' = decl /\ derives' = derives /\ value' = value /\ step' = "rebuilt"
      /\ decl \in Declarations /\ derives \subseteq Traits /\ step = "from" /\ ~decl.transparent
      /\ field > Len(Crossing(Arm))
      /\ \/ SentByRust /\ (ToldApart => Extracted)
         \/ value = <<>> /\ PassedByLean
      /\ analyze_declaration(decl) /\ Compiles /\ "FromLean" \in derives
      /\ locals' = Rebuilt(Arm, [j \in DOMAIN Fields(Arm) |->
           IF generate_construction(Arm)[j] = Defaulted THEN Default ELSE locals[generate_construction(Arm)[j]]])
  BY DEF DeriveInv, Construct
<1>2. Compiles' = Compiles /\ analyze_declaration(decl)' = analyze_declaration(decl) /\ ToldApart' = ToldApart
      /\ TagsDiffer' = TagsDiffer /\ TagsFit' = TagsFit
      /\ Kept(value.variant, value.fields)' = Kept(i, value.fields)
  BY <1>1, DeclarationStays DEF analyze_declaration, validate_container_attrs, Kept
<1>3. ASSUME SentByRust, ToldApart, Extracted
      PROVE  locals' = Rebuilt(i, Kept(i, value.fields))
  <2>1. HasValue /\ i \in DOMAIN decl.variants
    BY <1>3 DEF SentByRust, HasValue
  <2>2. Arm = i
    <3>1. object.tag = TagOf(decl.variants, i) % TagSize
      BY <1>1, <1>3 DEF SentByRust, Filled
    <3>. QED BY <1>1, <1>3, <2>1, <3>1, ArmIs DEF ToldApart
  <2>3. m \in Nat /\ Len(Crossing(i)) = m /\ Lists(Crossed(i), KeptFields(i), Len(Fields(i)))
    BY <1>1, <2>1, CrossingIs
  <2>4. DOMAIN value.fields = DOMAIN Fields(i) /\ DOMAIN Fields(i) = 1..Len(Fields(i))
    BY <1>1, <2>1, FieldsAre DEF HasValue
  <2>5. \A k \in 1..m : k < field
    <3>1. field > m /\ field \in 1..m + 1
      BY <1>1, <1>3, <2>2, <2>3 DEF Extracted
    <3>. HIDE DEF m
    <3>. QED BY <2>3, <3>1
  <2>6. ASSUME NEW j \in DOMAIN Fields(i)
        PROVE  (IF generate_construction(i)[j] = Defaulted THEN Default ELSE locals[generate_construction(i)[j]])
               = IF Marked(Fields(i)[j], "skip") THEN Default ELSE value.fields[j]
    <3>1. CASE Marked(Fields(i)[j], "skip")
      BY <3>1 DEF generate_construction
    <3>2. CASE ~Marked(Fields(i)[j], "skip")
      <4>1. PICK k \in 1..m : Crossed(i)[k] = j
        <5>1. j \in KeptFields(i) /\ j \in 1..Len(Fields(i))
          BY <2>4, <3>2 DEF KeptFields
        <5>. QED BY <2>3, <5>1 DEF Lists
      <4>2. generate_construction(i)[j] = field_var_name(Fields(i)[j])
        BY <3>2 DEF generate_construction
      <4>3. generate_construction(i)[j] = field_var_name(Crossing(i)[k]) /\ field_name(Crossing(i)[k], Fields(i)) = j
        BY <1>1, <2>1, <4>1, <4>2, CompilesIsInOrder DEF InOrder
      <4>4. generate_construction(i)[j] # Defaulted
        <5>1. field_var_name(Fields(i)[j])[1] \in {"index", "name"}
          BY DEF field_var_name
        <5>2. Defaulted[1] = "default"
          BY DEF Defaulted
        <5>. QED BY <4>2, <5>1, <5>2
      <4>5. locals[field_var_name(Crossing(i)[k])] = Selected(k)
        BY <1>3, <2>5 DEF Extracted
      <4>. QED BY <3>2, <4>3, <4>4, <4>5 DEF Selected
    <3>. QED BY <3>1, <3>2
  <2>7. Kept(i, value.fields) = [j \in DOMAIN Fields(i) |-> IF Marked(Fields(i)[j], "skip") THEN Default ELSE value.fields[j]]
    BY <1>1, <2>4 DEF Kept
  <2>. QED BY <1>1, <2>2, <2>6, <2>7
<1>4. DeriveRoundTrips'
  <2>1. value # <<>> /\ TagsDiffer /\ TagsFit => SentByRust /\ ToldApart /\ Extracted
    BY <1>1 DEF ToldApart
  <2>2. Rebuilt(value.variant, Kept(value.variant, value.fields))' = Rebuilt(i, Kept(i, value.fields))
    BY <1>1, <1>2 DEF Rebuilt
  <2>. QED BY <1>1, <1>2, <1>3, <2>1, <2>2 DEF DeriveRoundTrips
<1>. QED
  BY <1>1, <1>2, <1>4 DEF DeriveInv

\* What the derives promise, for every declaration: a value that into_lean
\* sends comes back from from_lean with its skipped fields at their defaults,
\* no hole is left in the object, and nothing is read behind its end, unless
\* tags are equal or too wide, or a tuple skips a field before others.
THEOREM DerivesAlwaysRoundTrip == DeriveSpec => []DeriveRoundTrips
<1>1. DeriveInit => DeriveInv
  <2>1. SUFFICES ASSUME DeriveInit PROVE DeriveInv
    OBVIOUS
  <2>2. DeriveRoundTrips
    BY <2>1 DEF DeriveInit, DeriveRoundTrips
  <2>. QED BY <2>1, <2>2 DEF DeriveInit, DeriveInv
<1>2. DeriveInv /\ [DeriveNext]_deriveVars => DeriveInv'
  <2>1. SUFFICES ASSUME DeriveInv, [DeriveNext]_deriveVars PROVE DeriveInv'
    OBVIOUS
  <2>2. CASE Expand
    BY <2>1, <2>2, ExpandKeeps
  <2>3. ASSUME NEW i \in DOMAIN decl.variants, NEW p \in [DOMAIN decl.variants[i].fields -> Payloads], IntoLean(i, p)
        PROVE  DeriveInv'
    BY <2>1, <2>3, IntoLeanKeeps
  <2>4. CASE IntoInner
    BY <2>1, <2>4, IntoInnerKeeps
  <2>5. CASE SetField
    BY <2>1, <2>5, SetFieldKeeps
  <2>6. CASE ReturnObject
    BY <2>1, <2>6, ReturnObjectKeeps
  <2>7. ASSUME NEW tag, NEW kids, LeanPasses(tag, kids)
        PROVE  DeriveInv'
    BY <2>1, <2>7, LeanPassesKeeps
  <2>8. ASSUME NEW content, LeanPassesInner(content)
        PROVE  DeriveInv'
    BY <2>1, <2>8, LeanPassesInnerKeeps
  <2>9. CASE FromLean
    BY <2>1, <2>9, FromLeanKeeps
  <2>10. CASE GetField
    BY <2>1, <2>10, GetFieldKeeps
  <2>11. CASE Construct
    BY <2>1, <2>11, ConstructKeeps
  <2>12. CASE UNCHANGED deriveVars
    <3>1. /\ decl' = decl /\ derives' = derives /\ step' = step /\ value' = value
          /\ object' = object /\ field' = field /\ locals' = locals
      BY <2>12 DEF deriveVars
    <3>2. /\ \A k : Selected(k)' = Selected(k) /\ Kid(k)' = Kid(k)
          /\ \A v, p : Sent(v, p)' = Sent(v, p) /\ Kept(v, p)' = Kept(v, p)
          /\ Arms' = Arms /\ HasValue' = HasValue /\ PassedByLean' = PassedByLean
          /\ analyze_declaration(decl)' = analyze_declaration(decl)
      <4>1. \A k : Selected(k)' = Selected(k) /\ Kid(k)' = Kid(k)
        BY <3>1, DeclarationStays DEF Kid, Selected
      <4>2. \A v, p : Sent(v, p)' = Sent(v, p) /\ Kept(v, p)' = Kept(v, p)
        BY <3>1 DEF Sent, Kept, Fields, Marked, IsStruct
      <4>3. Arms' = Arms /\ HasValue' = HasValue /\ PassedByLean' = PassedByLean
        BY <3>1, DeclarationStays DEF Arms, IsStruct, HasValue, PassedByLean
      <4>4. analyze_declaration(decl)' = analyze_declaration(decl)
        BY <3>1 DEF analyze_declaration, validate_container_attrs
      <4>. QED BY <4>1, <4>2, <4>3, <4>4
    <3>3. \A n : Filled(n)' = Filled(n)
      BY <3>1, <3>2, DeclarationStays DEF Filled
    <3>4. Extracted' = Extracted
      BY <3>1, <3>2, DeclarationStays DEF Extracted
    <3>. QED BY <2>1, <3>1, <3>2, <3>3, <3>4, DeclarationStays DEF DeriveInv, DeriveRoundTrips, SentByRust
  <2>. QED
    BY <2>1, <2>2, <2>3, <2>4, <2>5, <2>6, <2>7, <2>8, <2>9, <2>10, <2>11, <2>12 DEF DeriveNext
<1>3. DeriveInv => DeriveRoundTrips
  BY DEF DeriveInv
<1>. QED
  BY <1>1, <1>2, <1>3, PTL DEF DeriveSpec
=============================================================================
