CONSTANTS
  a = a
  b = b
  c = c
  d = d
  e = e
  Missing = Missing
  NULL = NULL
  SinglePlugin = NULL
  Plugins <- MCPlugins
  Deps <- MCDeps
  Builtin <- MCBuiltin
  AtStartup <- MCAtStartup
  Abi <- MCAbi
  Version <- MCVersion
  PluginList <- MCPluginList
SPECIFICATION Spec
INVARIANT
  LoadedPassedAbiCheck
