---------------------------- MODULE PluginRegistry ----------------------------
(***************************************************************************)
(* The plugin manager of the abrt daemon (src/src/Daemon/PluginManager.cpp)*)
(* : the start-up scan LoadPlugins, the lazy and cached LoadPlugin, the    *)
(* typed accessors used by triage, cron and bus methods, UnLoadPlugin      *)
(* (bus UnRegisterPlugin) and the shutdown loop UnLoadPlugins, and         *)
(* SetPluginSettings.                                                      *)
(*                                                                         *)
(* A plugin library on disk is a record of what dlopen/dlsym find and of   *)
(* how its Init and SetSettings behave; settings are abstracted to where   *)
(* they came from (the .conf file, or a bus client). Plugin instances are  *)
(* numbered in creation order so that re-creation is visible.              *)
(***************************************************************************)
EXTENDS Integers, FiniteSets

CONSTANTS
  Names,             \* plugin names the daemon may be asked for
  Kerneloops,        \* the name whose .conf the Kerneloops* plugins share
  KerneloopsFamily,  \* names starting with "Kerneloops"
  EnabledConfs,      \* .conf files (by name) that say Enabled = yes
  Lib,               \* [Names -> library record], see LibRecords
  MaxInstances,      \* bound on plugin instances created (plugin_new calls)
  None               \* no instance / no settings / no info

MaxPluginType == 3   \* MAX_PLUGIN_TYPE: Analyzer, Action, Reporter, Database

LibRecords ==
  [present: BOOLEAN,        \* dlopen of libNAME.so succeeds
   symbols: BOOLEAN,        \* plugin_info and plugin_new are exported
   magic: BOOLEAN,          \* m_nMagicNumber = PLUGINS_MAGIC_NUMBER
   type: -1..MaxPluginType + 1,
   initThrows: BOOLEAN,     \* CPlugin::Init throws CABRTException
   setThrows: BOOLEAN]      \* CPlugin::SetSettings throws CABRTException

ASSUME /\ Kerneloops \in KerneloopsFamily /\ KerneloopsFamily \subseteq Names
       /\ EnabledConfs \subseteq Names /\ \A n \in Names : Lib[n] \in LibRecords
       /\ MaxInstances \in Nat /\ None \notin Nat

Instances == 1..MaxInstances

VARIABLES
  phase,          \* loading (LoadPlugins), running, shutdown (UnLoadPlugins), done
  toScan,         \* LoadPlugins: library files not yet visited
  mapPlugins,     \* m_mapPlugins: [Names -> instance or None]
  loadedModules,  \* m_mapLoadedModules: [Names -> module's type or None]
  pluginInfo,     \* m_map_plugin_info[name]["Enabled"]: "yes", "no" or None
  pluginSettings, \* m_map_plugin_settings[name]: "conf" or None
  instSettings,   \* settings held by each instance: "conf", "client" or None
  inited,         \* instances whose Init ran and whose DeInit has not
  created,        \* plugin instances created so far
  dead            \* the daemon died in error_msg_and_die

vars == <<phase, toScan, mapPlugins, loadedModules, pluginInfo,
          pluginSettings, instSettings, inited, created, dead>>

-----------------------------------------------------------------------------
(* The .conf LoadPlugin reads: Kerneloops{,Scanner,Reporter} share one.    *)
ConfName(n) == IF n \in KerneloopsFamily THEN Kerneloops ELSE n

(* Mutant: the type check off by one (type 4 accepted).                     *)
TypeRejectedOffByOne(t) == t < 0 \/ t > MaxPluginType + 1

(* LoadPlugin's compatibility test on the declared type.                   *)
TypeRejected(t) == t < 0 \/ t > MaxPluginType

(* The CLoadedModule constructor: LOADSYM of plugin_info and plugin_new,   *)
(* where a missing symbol is error_msg_and_die ("All errors are fatal").   *)
SymbolMissing(lib) == ~lib.symbols

(* LoadPlugin past the cache lookup: the .conf is (re)read into            *)
(* m_map_plugin_settings; with enabled_only and no Enabled = yes the info  *)
(* records "no"; a missing library, a wrong magic number or type is an     *)
(* error; a missing symbol kills the daemon (LOADSYM); an Init or          *)
(* SetSettings that throws deletes the new instance; otherwise the plugin  *)
(* is registered in the three maps.                                        *)
LoadPluginFresh(n, enabledOnly) ==
  LET lib == Lib[n]
      i   == created + 1
  IN
  /\ ~dead
  /\ pluginSettings' = [pluginSettings EXCEPT ![n] = "conf"]
  /\ IF enabledOnly /\ ConfName(n) \notin EnabledConfs
     THEN /\ pluginInfo' = [pluginInfo EXCEPT ![n] = "no"]
          /\ UNCHANGED <<mapPlugins, loadedModules, instSettings, inited,
                         created, dead>>
     ELSE IF ~lib.present \/ (~SymbolMissing(lib) /\ (~lib.magic \/ TypeRejected(lib.type)))
     THEN UNCHANGED <<mapPlugins, loadedModules, pluginInfo, instSettings,
                      inited, created, dead>>
     ELSE IF SymbolMissing(lib)
     THEN /\ dead' = TRUE
          /\ UNCHANGED <<mapPlugins, loadedModules, pluginInfo, instSettings,
                         inited, created>>
     ELSE /\ created < MaxInstances
          /\ created' = i
          /\ IF lib.initThrows \/ lib.setThrows
             THEN /\ inited' = IF lib.initThrows THEN inited ELSE inited \cup {i}
                  /\ UNCHANGED <<mapPlugins, loadedModules, pluginInfo,
                                 instSettings>>
             ELSE /\ inited' = inited \cup {i}
                  /\ instSettings' = [instSettings EXCEPT ![i] = "conf"]
                  /\ pluginInfo' = [pluginInfo EXCEPT ![n] = "yes"]
                  /\ loadedModules' = [loadedModules EXCEPT ![n] = lib.type]
                  /\ mapPlugins' = [mapPlugins EXCEPT ![n] = i]
          /\ UNCHANGED dead

(* Mutant: LoadPlugin without the m_mapPlugins lookup.                     *)
LoadPluginNoCache(n, enabledOnly) == LoadPluginFresh(n, enabledOnly)

(* CPluginManager::LoadPlugin(name, enabled_only): a cached plugin is      *)
(* returned as is.                                                         *)
LoadPlugin(n, enabledOnly) ==
  \/ /\ ~dead
     /\ mapPlugins[n] # None
     /\ UNCHANGED <<mapPlugins, loadedModules, pluginInfo, pluginSettings,
                    instSettings, inited, created, dead>>
  \/ /\ mapPlugins[n] = None
     /\ LoadPluginFresh(n, enabledOnly)

(* Mutant: UnLoadPlugin that erases the module but not the plugin entry.   *)
UnLoadPluginKeepPlugin(n) ==
  /\ ~dead
  /\ IF loadedModules[n] # None
     THEN /\ inited' = inited \ {mapPlugins[n]}
          /\ loadedModules' = [loadedModules EXCEPT ![n] = None]
     ELSE UNCHANGED <<inited, loadedModules>>
  /\ UNCHANGED <<mapPlugins, pluginInfo, pluginSettings, instSettings, created,
                 dead>>

(* Mutant: UnLoadPlugin that deletes the instance without DeInit.          *)
UnLoadPluginNoDeInit(n) ==
  /\ ~dead
  /\ IF loadedModules[n] # None
     THEN /\ mapPlugins' = [mapPlugins EXCEPT ![n] = None]
          /\ loadedModules' = [loadedModules EXCEPT ![n] = None]
     ELSE UNCHANGED <<mapPlugins, loadedModules>>
  /\ UNCHANGED <<inited, pluginInfo, pluginSettings, instSettings, created,
                 dead>>

(* CPluginManager::UnLoadPlugin: DeInit and delete the plugin, close the   *)
(* module; m_map_plugin_info and m_map_plugin_settings are left as they    *)
(* are. An unknown name is a no-op.                                        *)
UnLoadPlugin(n) ==
  /\ ~dead
  /\ IF loadedModules[n] # None
     THEN /\ inited' = inited \ {mapPlugins[n]}
          /\ mapPlugins' = [mapPlugins EXCEPT ![n] = None]
          /\ loadedModules' = [loadedModules EXCEPT ![n] = None]
     ELSE UNCHANGED <<inited, mapPlugins, loadedModules>>
  /\ UNCHANGED <<pluginInfo, pluginSettings, instSettings, created, dead>>

-----------------------------------------------------------------------------
(* Operations.                                                             *)

(* LoadPlugins: one regular file libNAME.so of PLUGINS_LIB_DIR, loaded    *)
(* with enabled_only.                                                      *)
LoadPluginsStep(n) ==
  /\ phase = "loading"
  /\ n \in toScan
  /\ toScan' = toScan \ {n}
  /\ LoadPlugin(n, TRUE)
  /\ UNCHANGED phase

LoadPluginsDone ==
  /\ phase = "loading"
  /\ toScan = {}
  /\ ~dead
  /\ phase' = "running"
  /\ UNCHANGED <<toScan, mapPlugins, loadedModules, pluginInfo, pluginSettings,
                 instSettings, inited, created, dead>>

(* GetAnalyzer / GetReporter / GetAction / GetDatabase / GetPluginType:   *)
(* LoadPlugin(name) without enabled_only, then a type check that changes   *)
(* nothing.                                                                *)
GetTyped(n) ==
  /\ phase = "running"
  /\ LoadPlugin(n, FALSE)
  /\ UNCHANGED <<phase, toScan>>

(* Bus UnRegisterPlugin (UnRegisterPluginDBUS, built with                  *)
(* PLUGIN_DYNAMIC_LOAD_UNLOAD).                                            *)
UnRegister(n) ==
  /\ phase = "running"
  /\ UnLoadPlugin(n)
  /\ UNCHANGED <<phase, toScan>>

(* SetPluginSettings: only a loaded plugin takes the client's settings.    *)
SetPluginSettings(n) ==
  /\ phase = "running"
  /\ ~dead
  /\ loadedModules[n] # None
  /\ mapPlugins[n] # None
  /\ instSettings' = [instSettings EXCEPT ![mapPlugins[n]] = "client"]
  /\ UNCHANGED <<phase, toScan, mapPlugins, loadedModules, pluginInfo,
                 pluginSettings, inited, created, dead>>

(* Termination: main()'s cleanup calls UnLoadPlugins.                      *)
StartShutdown ==
  /\ phase = "running"
  /\ ~dead
  /\ phase' = "shutdown"
  /\ UNCHANGED <<toScan, mapPlugins, loadedModules, pluginInfo, pluginSettings,
                 instSettings, inited, created, dead>>

(* UnLoadPlugins: unload the first loaded module until none is left.       *)
UnLoadPluginsStep ==
  /\ phase = "shutdown"
  /\ \E n \in Names : loadedModules[n] # None /\ UnLoadPlugin(n)
  /\ UNCHANGED <<phase, toScan>>

UnLoadPluginsDone ==
  /\ phase = "shutdown"
  /\ \A n \in Names : loadedModules[n] = None
  /\ phase' = "done"
  /\ UNCHANGED <<toScan, mapPlugins, loadedModules, pluginInfo, pluginSettings,
                 instSettings, inited, created, dead>>

-----------------------------------------------------------------------------
Init ==
  /\ phase = "loading"
  /\ toScan = {n \in Names : Lib[n].present}
  /\ mapPlugins = [n \in Names |-> None]
  /\ loadedModules = [n \in Names |-> None]
  /\ pluginInfo = [n \in Names |-> None]
  /\ pluginSettings = [n \in Names |-> None]
  /\ instSettings = [i \in Instances |-> None]
  /\ inited = {}
  /\ created = 0
  /\ dead = FALSE

(* The daemon's own steps: start-up scan and shutdown.                     *)
DaemonSteps ==
  \/ \E n \in Names : LoadPluginsStep(n)
  \/ LoadPluginsDone \/ UnLoadPluginsStep \/ UnLoadPluginsDone

(* Requests from triage, cron, bus clients, and the termination signal.    *)
Requests ==
  \/ \E n \in Names : GetTyped(n) \/ UnRegister(n) \/ SetPluginSettings(n)
  \/ StartShutdown

Next == DaemonSteps \/ Requests

Spec == Init /\ [][Next]_vars /\ WF_vars(DaemonSteps)

-----------------------------------------------------------------------------
(* Properties.                                                             *)

TypeOK ==
  /\ phase \in {"loading", "running", "shutdown", "done"}
  /\ toScan \subseteq Names
  /\ mapPlugins \in [Names -> Instances \cup {None}]
  /\ loadedModules \in [Names -> 0..MaxPluginType \cup {None}]
  /\ pluginInfo \in [Names -> {"yes", "no", None}]
  /\ pluginSettings \in [Names -> {"conf", None}]
  /\ instSettings \in [Instances -> {"conf", "client", None}]
  /\ inited \subseteq Instances
  /\ created \in 0..MaxInstances
  /\ dead \in BOOLEAN

(* m_mapPlugins and m_mapLoadedModules hold the same names: the typed     *)
(* accessors index m_mapLoadedModules[pName] after LoadPlugin returned a   *)
(* plugin, and UnLoadPlugins loops until m_mapLoadedModules is empty.      *)
MapsAgree ==
  \A n \in Names : (mapPlugins[n] # None) <=> (loadedModules[n] # None)

(* A plugin stays the same instance for as long as it is loaded: a second *)
(* LoadPlugin of a loaded name never creates (and Inits) another one.      *)
LoadedInstanceStable ==
  [][\A n \in Names :
       mapPlugins[n] # None /\ mapPlugins'[n] # None
         => mapPlugins'[n] = mapPlugins[n]]_vars

(* Every instance whose Init ran is registered until its DeInit, so that  *)
(* UnLoadPlugins at exit undoes what Init did (core_pattern, ...).         *)
InitedAreRegistered ==
  \A i \in inited : \E n \in Names : mapPlugins[n] = i
=============================================================================
