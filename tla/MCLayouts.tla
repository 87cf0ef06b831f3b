----------------------------- MODULE MCLayouts ------------------------------
(* Layouts for TLC: the versions that differ in a layout, and Lean libraries  *)
(* that export no default instance, all or some of them.                      *)
EXTENDS Layouts

AllDefaults ==
  {"FileMap", "Options", "Syntax", "NameGenerator", "DeclNameGenerator", "TraceState", "Core.Cache", "MessageLog",
   "InfoState", "Meta.Context", "LocalContext", "Meta.State", "MetavarContext", "Meta.Cache", "Diagnostics",
   "PersistentArray", "PersistentHashMap", "NameSet", "Scope"}
SomeExports ==
  {{}, AllDefaults, {"LocalContext", "Meta.State", "FileMap", "NameGenerator", "PersistentArray"}}

LayoutsSpec == LayoutsInit /\ [][LayoutsNext]_layoutVars
=============================================================================
