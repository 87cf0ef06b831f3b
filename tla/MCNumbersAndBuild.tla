------------------------- MODULE MCNumbersAndBuild --------------------------
(* Numbers and BuildConfig for TLC, side by side: a behaviour either computes *)
(* or builds.  The builds begin on a host with two installations, of which    *)
(* lake finds one and elan and the PATH the other, and with a configuration   *)
(* file that nothing points to.                                               *)
EXTENDS MCNumbers, BuildConfig

CONSTANTS h1, h2

V(major, minor) == [major |-> major, minor |-> minor]
SomeVersions == {V(3, 1), V(4, 0), V(4, 1)}

Installation(parts, version, allocator) ==
  [parts |-> parts, version |-> version, allocator |-> allocator]
AllParts == {"include", "config.h", "lib", "libleanshared", "lean"}

SomeInstallations ==
  {Installation(AllParts, V(4, 0), "system"), Installation(AllParts, V(4, 1), "small"),
   Installation(AllParts \ {"include", "config.h"}, V(4, 1), "small")}

Text(version) ==
  [lean_home |-> h1, lean_lib_dir |-> h1, lean_include_dir |-> h1, version |-> version,
   shared |-> TRUE, allocator |-> "mimalloc", pointer_width |-> "none"]
Without(text, key) == [k \in DOMAIN text \ {key} |-> text[k]]

SomeTexts == {Text(V(4, 0)), Without(Text(V(4, 1)), "allocator"), Without(Text(V(4, 1)), "version")}

Host ==
  /\ disk = (h1 :> Installation(AllParts, V(4, 0), "system") @@ h2 :> Installation(AllParts, V(4, 1), "small"))
  /\ file = Text(V(4, 0))
  /\ tools = [lake |-> h1, elan |-> h2, path |-> h2]

NumbersAndBuildInit == Init /\ BuildInit /\ Host

NumbersAndBuildNext ==
  \/ changes = 0 /\ out["leo3-ffi"] = NeverBuilt /\ Next /\ UNCHANGED buildVars
  \/ Init /\ BuildNext /\ UNCHANGED vars

NumbersAndBuildSpec == NumbersAndBuildInit /\ [][NumbersAndBuildNext]_<<vars, buildVars>>
=============================================================================
