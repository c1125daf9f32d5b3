--------------------------- MODULE PluginLoading ----------------------------
(***************************************************************************)
(* discover_blocks() in a long-running process: threads that each generate *)
(* from plugins directories of their own import those directories' modules *)
(* under one synthetic package in sys.modules, and put the scopes their    *)
(* plugins declare into one process-wide table that routing reads later.   *)
(* The directories may be checked out again at any time.                   *)
(***************************************************************************)
EXTENDS Naturals, FiniteSets

CONSTANTS
    Run,          \* the threads that call generate()
    Dir,          \* plugins directories
    Name,         \* module names
    Offers,       \* Offers[d]: the modules in directory d
    Private,      \* underscored names: imported only by their siblings
    Siblings,     \* Siblings[n]: the modules that module n imports
    Broken,       \* the sources whose import raises
    Kind,         \* resource kinds
    Scope,        \* SCOPES: the scopes a kind may be declared to have
    AnyScope,     \* what ScopeProviders may return
    Declares,     \* Declares[d][n]: what n's ScopeProviders declare
    Settings,     \* the processes the threads may run in
    Free,         \* nobody holds the lock
    None          \* not in sys.modules

\* plugins: the plugins directories a call may be given; versions: how often a
\* directory is checked out again; calls: how often a thread calls generate();
\* overlap: may calls overlap?
Setting == [plugins : [Run -> SUBSET SUBSET Dir], versions : [Dir -> Nat],
            calls : Nat, overlap : BOOLEAN]

ASSUME PluginAssumption ==
    /\ \A s \in Settings : s \in Setting
    /\ Offers \in [Dir -> SUBSET Name]
    /\ Private \subseteq Name
    /\ Broken \subseteq [name : Name, dir : Dir, version : Nat]
    /\ Siblings \in [Name -> SUBSET Name]
    /\ Declares \in [Dir -> [Name -> SUBSET (Kind \X AnyScope)]]
    /\ Scope \subseteq AnyScope
    /\ Free \notin Run
    /\ \A dirs \in SUBSET Dir : None # dirs
    /\ None \notin [dir : Dir, version : Nat]

VARIABLES
    setting,    \* the process, which stays
    lock,       \* _PLUGIN_LOAD_LOCK: who holds it
    package,    \* the __path__ of the synthetic package in sys.modules
    modules,    \* modules[n]: the imported source of module n in sys.modules
    dontWrite,  \* sys.dont_write_bytecode
    scopes,     \* _declared_scopes
    source,     \* source[d]: the version of directory d on disk
    pc,         \* pc[r]: where run r is
    dirs,       \* dirs[r]: the plugins directories of r's call
    calls,      \* calls[r]: how often r has called generate()
    began,      \* began[r]: what was on disk when the call began
    write,      \* write[r]: write_bytecode, as r found it
    todo,       \* todo[r]: the plugins r has yet to import
    loaded,     \* loaded[r]: the modules r's blocks and providers are built from
    routed      \* routed[r]: the scope r took each kind for

shared == <<lock, package, modules, dontWrite, scopes, source>>
request == <<setting, dirs, calls, began>>
vars == <<setting, lock, package, modules, dontWrite, scopes, source, pc, dirs,
          calls, began, write, todo, loaded, routed>>

Module == [name : Name, dir : Dir, version : Nat]
Steps == {"idle", "wait", "register", "flag", "load", "restore", "declare",
          "update", "route", "failing", "failed"}
Resting == {"idle", "failed"}

\* The plugins of directories D: modules that are not private.
PluginsOf(D) == UNION {Offers[d] : d \in D} \ Private

\* Two plugins directories offer one plugin.
Shadowed(r) == \E c, d \in dirs[r] :
                   c # d /\ (Offers[c] \cap Offers[d]) \ Private # {}

\* What a set of modules declares, whether it is free of contradictions, and
\* whether it names known scopes only.
Declared(mods) == UNION {Declares[m.dir][m.name] : m \in mods}
Agree(decl) == \A a, b \in decl : a[1] = b[1] => a[2] = b[2]
Valid(decl) == \A a \in decl : a[2] \in Scope

\* The scopes a table gives kind k: none, or the declared one.
ScopeIn(table, k) == {e[2] : e \in {f \in table : f[1] = k}}

Goto(r, step) == pc' = [pc EXCEPT ![r] = step]

Init ==
    /\ setting \in Settings
    /\ lock = Free
    /\ package = None
    /\ modules = [n \in Name |-> None]
    /\ dontWrite = FALSE
    /\ scopes = {}
    /\ source = [d \in Dir |-> 0]
    /\ pc = [r \in Run |-> "idle"]
    /\ dirs = [r \in Run |-> {}]
    /\ calls = [r \in Run |-> 0]
    /\ began = [r \in Run |-> source]
    /\ write = [r \in Run |-> FALSE]
    /\ todo = [r \in Run |-> {}]
    /\ loaded = [r \in Run |-> {}]
    /\ routed = [r \in Run |-> {}]

\* A directory is checked out again.
Checkout(d) ==
    /\ source[d] < setting.versions[d]
    /\ source' = [source EXCEPT ![d] = @ + 1]
    /\ UNCHANGED <<lock, package, modules, dontWrite, scopes, pc, request,
                   write, todo, loaded, routed>>

\* discover_blocks; without any plugins directory there is nothing to load.
Call(r) ==
    /\ pc[r] \in Resting
    /\ calls[r] < setting.calls
    /\ setting.overlap \/ \A q \in Run : pc[q] \in Resting
    /\ \E given \in setting.plugins[r] :
          /\ dirs' = [dirs EXCEPT ![r] = given]
          /\ todo' = [todo EXCEPT ![r] = PluginsOf(given)]
          /\ Goto(r, IF given = {} THEN "declare" ELSE "wait")
    /\ calls' = [calls EXCEPT ![r] = @ + 1]
    /\ began' = [began EXCEPT ![r] = source]
    /\ loaded' = [loaded EXCEPT ![r] = {}]
    /\ routed' = [routed EXCEPT ![r] = {}]
    /\ UNCHANGED <<shared, setting, write>>
-----------------------------------------------------------------------------
(* _load_plugins. *)

\* Mutant of Acquire: loads are not serialized.
Acquire_Anytime(r) ==
    /\ pc[r] = "wait"
    /\ lock' = r
    /\ Goto(r, "register")
    /\ UNCHANGED <<package, modules, dontWrite, scopes, source, request,
                   write, todo, loaded, routed>>

Acquire(r) ==
    /\ pc[r] = "wait"
    /\ lock = Free
    /\ lock' = r
    /\ Goto(r, "register")
    /\ UNCHANGED <<package, modules, dontWrite, scopes, source, request,
                   write, todo, loaded, routed>>

\* Mutant of Register: only the plugins the run is about to import are dropped.
Register_KeepsOthers(r) ==
    /\ pc[r] = "register"
    /\ modules' = [n \in Name |-> IF n \in todo[r] THEN None ELSE modules[n]]
    /\ package' = dirs[r]
    /\ Goto(r, "flag")
    /\ UNCHANGED <<lock, dontWrite, scopes, source, request, write, todo,
                   loaded, routed>>

\* _register_plugins_package: whatever earlier calls imported is dropped.
Register(r) ==
    /\ pc[r] = "register"
    /\ modules' = [n \in Name |-> None]
    /\ package' = dirs[r]
    /\ Goto(r, "flag")
    /\ UNCHANGED <<lock, dontWrite, scopes, source, request, write, todo,
                   loaded, routed>>

\* Remember whether bytecode is written, and turn that off.
SetFlag(r) ==
    /\ pc[r] = "flag"
    /\ write' = [write EXCEPT ![r] = ~dontWrite]
    /\ dontWrite' = TRUE
    /\ Goto(r, IF Shadowed(r) THEN "failing" ELSE "load")
    /\ UNCHANGED <<lock, package, modules, scopes, source, request, todo,
                   loaded, routed>>

\* The modules an import of n brings in, where the package finds them, and
\* whether they can be imported from there.
Needed(n) == {n} \cup Siblings[n]
Found(n) == package # None /\ \E d \in package : n \in Offers[d]
Fresh(n) == LET d == CHOOSE d \in package : n \in Offers[d]
            IN  [dir |-> d, version |-> source[d]]
Sound(n) == /\ Found(n)
            /\ [name |-> n, dir |-> Fresh(n).dir, version |-> Fresh(n).version]
                   \notin Broken
Importable(n) == \A m \in Needed(n) : modules[m] # None \/ Sound(m)
AfterImport(names) ==
    [m \in Name |-> IF m \in names /\ modules[m] = None THEN Fresh(m)
                    ELSE modules[m]]

Import(r, n) ==
    /\ pc[r] = "load"
    /\ n \in todo[r]
    /\ Importable(n)
    /\ modules' = AfterImport(Needed(n))
    /\ loaded' = [loaded EXCEPT ![r] = @ \cup
           {[name |-> m, dir |-> modules'[m].dir, version |-> modules'[m].version] :
                m \in Needed(n)}]
    /\ todo' = [todo EXCEPT ![r] = @ \ {n}]
    /\ UNCHANGED <<lock, package, dontWrite, scopes, source, pc, request,
                   write, routed>>

\* Mutant of ImportFails: a plugin that cannot be imported is skipped.
ImportFails_Skips(r, n) ==
    /\ pc[r] = "load"
    /\ n \in todo[r]
    /\ ~Importable(n)
    /\ todo' = [todo EXCEPT ![r] = @ \ {n}]
    /\ UNCHANGED <<shared, pc, request, write, loaded, routed>>

\* An import raises; the siblings imported before that stay in sys.modules.
ImportFails(r, n) ==
    /\ pc[r] = "load"
    /\ n \in todo[r]
    /\ ~Importable(n)
    /\ \E before \in SUBSET {m \in Siblings[n] : Sound(m)} :
           modules' = AfterImport(before)
    /\ Goto(r, "failing")
    /\ UNCHANGED <<lock, package, dontWrite, scopes, source, request, write,
                   todo, loaded, routed>>

AllLoaded(r) ==
    /\ pc[r] = "load"
    /\ todo[r] = {}
    /\ Goto(r, "restore")
    /\ UNCHANGED <<shared, request, write, todo, loaded, routed>>

\* Mutant of Restore: no finally, a failed import leaves flag and lock alone.
Restore_OnlyOnSuccess(r) ==
    /\ pc[r] \in {"restore", "failing"}
    /\ IF pc[r] = "restore"
       THEN dontWrite' = (dontWrite /\ ~write[r]) /\ lock' = Free
       ELSE UNCHANGED <<dontWrite, lock>>
    /\ Goto(r, IF pc[r] = "restore" THEN "declare" ELSE "failed")
    /\ UNCHANGED <<package, modules, scopes, source, request, write, todo,
                   loaded, routed>>

\* Mutant of Restore: a failed import frees the lock but leaves the flag set.
Restore_KeepsFlag(r) ==
    /\ pc[r] \in {"restore", "failing"}
    /\ lock' = Free
    /\ dontWrite' = (dontWrite /\ (~write[r] \/ pc[r] = "failing"))
    /\ Goto(r, IF pc[r] = "restore" THEN "declare" ELSE "failed")
    /\ UNCHANGED <<package, modules, scopes, source, request, write, todo,
                   loaded, routed>>

\* The finally clause, and leaving the lock's with block.
Restore(r) ==
    /\ pc[r] \in {"restore", "failing"}
    /\ dontWrite' = (dontWrite /\ ~write[r])
    /\ lock' = Free
    /\ Goto(r, IF pc[r] = "restore" THEN "declare" ELSE "failed")
    /\ UNCHANGED <<package, modules, scopes, source, request, write, todo,
                   loaded, routed>>

\* forget_plugin_modules, which any caller may call at any time.
Forget ==
    /\ package # None
    /\ package' = None
    /\ modules' = [n \in Name |-> None]
    /\ UNCHANGED <<lock, dontWrite, scopes, source, pc, request, write,
                   todo, loaded, routed>>
-----------------------------------------------------------------------------
(* Declaring scopes, and reading them while manifests are written. *)

\* Mutant of ClearScopes: what earlier runs declared is merged, not replaced.
ClearScopes_Merges(r) ==
    /\ pc[r] = "declare"
    /\ Agree(Declared(loaded[r])) /\ Valid(Declared(loaded[r]))
    /\ Goto(r, "update")
    /\ UNCHANGED <<shared, request, write, todo, loaded, routed>>

\* _collect_scopes merges what the providers declare; declare_scopes validates
\* it and begins to replace the table.
ClearScopes(r) ==
    /\ pc[r] = "declare"
    /\ Agree(Declared(loaded[r])) /\ Valid(Declared(loaded[r]))
    /\ scopes' = {}
    /\ Goto(r, "update")
    /\ UNCHANGED <<lock, package, modules, dontWrite, source, request, write,
                   todo, loaded, routed>>

\* Two providers disagree, or one names an unknown scope: the table stays.
ScopesRejected(r) ==
    /\ pc[r] = "declare"
    /\ ~Agree(Declared(loaded[r])) \/ ~Valid(Declared(loaded[r]))
    /\ Goto(r, "failed")
    /\ UNCHANGED <<shared, request, write, todo, loaded, routed>>

\* ... and its update().
UpdateScopes(r) ==
    /\ pc[r] = "update"
    /\ scopes' = scopes \cup Declared(loaded[r])
    /\ Goto(r, "route")
    /\ UNCHANGED <<lock, package, modules, dontWrite, source, request, write,
                   todo, loaded, routed>>

\* is_cluster_scoped looks up an object no CRD describes.
Route(r, k) ==
    /\ pc[r] = "route"
    /\ routed' = [routed EXCEPT ![r] = @ \cup {<<k, ScopeIn(scopes, k)>>}]
    /\ UNCHANGED <<shared, pc, request, write, todo, loaded>>

\* The call returns, or raises because of its blocks or its configs.
Return(r) ==
    /\ pc[r] = "route"
    /\ \E end \in Resting : Goto(r, end)
    /\ UNCHANGED <<shared, request, write, todo, loaded, routed>>
-----------------------------------------------------------------------------
Step(r) ==
    \/ Acquire(r) \/ Register(r) \/ SetFlag(r)
    \/ \E n \in Name : Import(r, n) \/ ImportFails(r, n)
    \/ AllLoaded(r) \/ Restore(r)
    \/ ClearScopes(r) \/ ScopesRejected(r) \/ UpdateScopes(r) \/ Return(r)

Next ==
    \/ \E r \in Run : Call(r) \/ Step(r) \/ \E k \in Kind : Route(r, k)
    \/ \E d \in Dir : Checkout(d)
    \/ Forget

\* A thread that is in a call goes on with it.
Spec == Init /\ [][Next]_vars /\ \A r \in Run : WF_vars(Step(r))
-----------------------------------------------------------------------------
TypeOK ==
    /\ setting \in Settings
    /\ lock \in Run \cup {Free}
    /\ package \in {None} \cup SUBSET Dir
    /\ modules \in [Name -> {None} \cup [dir : Dir, version : Nat]]
    /\ dontWrite \in BOOLEAN
    /\ scopes \subseteq Kind \X Scope
    /\ source \in [Dir -> Nat]
    /\ pc \in [Run -> Steps]
    /\ dirs \in [Run -> SUBSET Dir]
    /\ calls \in [Run -> Nat]
    /\ began \in [Run -> [Dir -> Nat]]
    /\ write \in [Run -> BOOLEAN]
    /\ todo \in [Run -> SUBSET Name]
    /\ loaded \in [Run -> SUBSET Module]
    /\ routed \in [Run -> SUBSET (Kind \X SUBSET Scope)]

\* "Concurrent generation from two config directories cannot interleave one
\* load with another": a run's blocks and scope providers, and the helpers they
\* import, come from its own plugins directories, whatever other threads load,
\* forget or check out meanwhile.
OwnPluginsOnly ==
    \A r \in Run : \A m \in loaded[r] :
        m.dir \in dirs[r] /\ m.name \in Offers[m.dir]

\* "Replaced module source takes effect": no run is built from source older
\* than what was on disk when its call began, not even a helper module.
NoStalePlugins ==
    \A r \in Run : \A m \in loaded[r] : m.version >= began[r][m.dir]

\* A run that gets past discovery has every one of its plugins.
NoPluginMissing ==
    \A r \in Run : pc[r] \in {"declare", "update", "route"} =>
        \A n \in PluginsOf(dirs[r]) : \E m \in loaded[r] : m.name = n

\* "No __pycache__ is written for plugin modules": a module enters sys.modules
\* only while writing bytecode is off.
NoBytecodeWritten ==
    [][\A n \in Name : (modules[n] = None /\ modules'[n] # None) => dontWrite]_vars

\* ... and when no load is under way the flag is as the process set it.
FlagIsRestored == lock = Free => ~dontWrite

\* "The resource scopes in force are exactly those this run's plugins declare":
\* every kind is routed by what the run's own providers say.
RoutedByOwnScopes ==
    \A r \in Run : \A x \in routed[r] :
        x[2] = ScopeIn(Declared(loaded[r]), x[1])

\* The same where calls do not overlap: nothing an earlier call declared is left
\* in the table, and a call whose plugins or scopes are refused routes nothing.
AloneRoutedByOwnScopes == ~setting.overlap => RoutedByOwnScopes

\* A call that waits for the lock gets through discovery or fails: a plugin that
\* cannot be imported blocks no later load.
EveryLoadEnds ==
    \A r \in Run : pc[r] = "wait" ~> pc[r] \in {"declare", "failed"}
=============================================================================
