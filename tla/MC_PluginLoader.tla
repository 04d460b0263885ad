--------------------------- MODULE MC_PluginLoader ---------------------------
(* Five plugins: a bundled At-Startup plugin a whose two bundled           *)
(* dependencies b and c share the on-disk dependency d (a diamond that     *)
(* only resolves after the rescan), and an on-disk plugin e whose          *)
(* X-Builder-ABI "3.3" does not match IDE_VERSION_S "3.32.0".             *)
EXTENDS PluginLoader, TLC

CONSTANTS a, b, c, d, e

MCPlugins == {a, b, c, d, e}
MCDeps == (a :> <<b, c>>) @@ (b :> <<d>>) @@ (c :> <<d>>)
            @@ (d :> << >>) @@ (e :> << >>)
MCBuiltin == {a, b, c}
MCAtStartup == {a}
MCVersion == <<"3", ".", "3", "2", ".", "0">>
MCAbi == (a :> NULL) @@ (b :> NULL) @@ (c :> NULL)
           @@ (d :> <<"3", ".", "3", "2">>) @@ (e :> <<"3", ".", "3">>)
MCPluginList == <<a, b, c, d, e>>
=============================================================================
