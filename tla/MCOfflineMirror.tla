-------------------------- MODULE MCOfflineMirror --------------------------
(***************************************************************************)
(* Model checking of OfflineMirror.  The runtime needs a library that is   *)
(* not on every list; a newer application needs both.  The checkout's      *)
(* runtime is older than the published one and needs the settings too,     *)
(* which the checkout has in the version that is published.                *)
(***************************************************************************)
EXTENDS OfflineMirror

Names == {"app", "lib", "runtime", "settings"}
Locals2 == {"runtime", "settings"}
PublishedVersions == [p \in Names |-> CASE p = "app" -> {1, 2} [] p = "runtime" -> {2} [] OTHER -> {1}]
LocalVersions == [p \in Locals2 |-> 1]
Needs == [f \in Names \X {1, 2} |->
            CASE f = <<"app", 2>> -> {"lib", "runtime"}
              [] f = <<"runtime", 1>> -> {"lib", "settings"}
              [] f = <<"runtime", 2>> -> {"lib"}
              [] OTHER -> {}]
BothLists == {[mirror |-> Names, target |-> Names \ {"lib"}],
              [mirror |-> Names \ {"lib"}, target |-> Locals2]}
=============================================================================
