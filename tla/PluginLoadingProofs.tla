------------------------ MODULE PluginLoadingProofs -------------------------
(***************************************************************************)
(* Plugin loading for any number of threads, plugins directories, modules, *)
(* checkouts and calls: what the lock, the flag and the purge of the       *)
(* synthetic package guarantee to every run, and what the process-wide     *)
(* table of scopes guarantees to runs that do not overlap.                 *)
(***************************************************************************)
EXTENDS PluginLoading, TLAPS

Source == [dir : Dir, version : Nat]

\* A table about to be updated was found valid.
ScopesOK == \A r \in Run : pc[r] = "update" => Valid(Declared(loaded[r]))
TypeInv == TypeOK /\ ScopesOK

\* Who is in _load_plugins' with block, and who has turned bytecode off.
Holding == {"register", "flag", "load", "restore", "failing"}
Quiet == {"load", "restore", "failing"}

LockInv == \A r \in Run : pc[r] \in Holding <=> lock = r

\* The flag is set while a load is at work, by the one at work.
FlagInv ==
    /\ dontWrite => \E r \in Run : pc[r] \in Quiet
    /\ \A r \in Run : pc[r] \in Quiet => dontWrite /\ write[r]

\* Checkouts only go forward.
SourceInv == \A r \in Run : \A d \in Dir : began[r][d] <= source[d]

\* What is in sys.modules while r loads: nothing but r's own current modules.
OwnAndCurrent(r, n, s) ==
    s.dir \in dirs[r] /\ n \in Offers[s.dir] /\ s.version >= began[r][s.dir]
PurgeInv ==
    \A r \in Run : pc[r] \in {"flag", "load"} =>
        /\ package \in {None, dirs[r]}
        /\ \A n \in Name : modules[n] # None => OwnAndCurrent(r, n, modules[n])

\* A plugin is loaded or still to do, and nothing is to do past the load.
TodoInv ==
    \A r \in Run :
        /\ \A n \in PluginsOf(dirs[r]) :
              n \in todo[r] \/ \E m \in loaded[r] : m.name = n
        /\ pc[r] \in {"restore", "declare", "update", "route"} => todo[r] = {}

LoadInv == /\ TypeInv /\ LockInv /\ FlagInv /\ SourceInv /\ PurgeInv
           /\ TodoInv /\ OwnPluginsOnly /\ NoStalePlugins

USE PluginAssumption
-----------------------------------------------------------------------------
(* What an import finds. *)

LEMMA FreshModule ==
    ASSUME TypeOK, NEW n \in Name, Found(n)
    PROVE  /\ Fresh(n) \in Source
           /\ Fresh(n).dir \in package /\ n \in Offers[Fresh(n).dir]
           /\ Fresh(n).version = source[Fresh(n).dir]
           /\ package # None
<1> DEFINE d == CHOOSE x \in package : n \in Offers[x]
<1>1. package # None /\ package \subseteq Dir
  BY DEF Found, TypeOK
<1>2. d \in package /\ n \in Offers[d]
  BY DEF Found
<1>3. d \in Dir /\ source[d] \in Nat
  BY <1>1, <1>2 DEF TypeOK
<1>4. Fresh(n) = [dir |-> d, version |-> source[d]]
  BY DEF Fresh
<1> HIDE DEF d
<1> QED BY <1>1, <1>2, <1>3, <1>4 DEF Source

LEMMA ImportedModules ==
    ASSUME TypeOK, NEW names \in SUBSET Name,
           \A m \in names : modules[m] # None \/ Sound(m)
    PROVE  /\ AfterImport(names) \in [Name -> {None} \cup Source]
           /\ \A m \in names : AfterImport(names)[m] \in Source
<1>1. \A m \in Name : modules[m] \in {None} \cup Source
  BY DEF TypeOK, Source
<1>2. \A m \in names : modules[m] = None => Fresh(m) \in Source
  BY FreshModule DEF Sound
<1> QED BY <1>1, <1>2 DEF AfterImport

\* Whatever is imported while r loads is r's own and current.
LEMMA ImportedAreOwn ==
    ASSUME TypeOK, SourceInv, PurgeInv, NEW r \in Run, pc[r] = "load",
           NEW names \in SUBSET Name,
           \A m \in names : modules[m] # None \/ Sound(m)
    PROVE  \A m \in Name : AfterImport(names)[m] # None =>
               OwnAndCurrent(r, m, AfterImport(names)[m])
<1> SUFFICES ASSUME NEW m \in Name, AfterImport(names)[m] # None
             PROVE  OwnAndCurrent(r, m, AfterImport(names)[m])
  OBVIOUS
<1>1. CASE m \in names /\ modules[m] = None
  <2>1. AfterImport(names)[m] = Fresh(m) /\ Found(m)
    BY <1>1 DEF AfterImport, Sound
  <2>2. Fresh(m).dir \in dirs[r] /\ Fresh(m) \in Source
    BY <2>1, FreshModule DEF PurgeInv
  <2>3. Fresh(m).version >= began[r][Fresh(m).dir]
    <3> DEFINE d == Fresh(m).dir
    <3>1. d \in Dir /\ Fresh(m).version = source[d]
      BY <2>1, FreshModule DEF Source
    <3>2. began[r][d] <= source[d] /\ began[r][d] \in Nat /\ source[d] \in Nat
      BY <3>1 DEF SourceInv, TypeOK
    <3> QED BY <3>1, <3>2
  <2> QED BY <2>1, <2>2, <2>3, FreshModule DEF OwnAndCurrent
<1>2. CASE ~(m \in names /\ modules[m] = None)
  BY <1>2 DEF AfterImport, PurgeInv
<1> QED BY <1>1, <1>2

LEMMA NeededNames == ASSUME NEW n \in Name PROVE Needed(n) \in SUBSET Name /\ n \in Needed(n)
BY DEF Needed
-----------------------------------------------------------------------------
(* The invariant. *)

LEMMA DeclaredScopes ==
    ASSUME NEW mods \in SUBSET Module, Valid(Declared(mods))
    PROVE  Declared(mods) \subseteq Kind \X Scope
<1> SUFFICES ASSUME NEW a \in Declared(mods) PROVE a \in Kind \X Scope
  OBVIOUS
<1>1. PICK m \in mods : a \in Declares[m.dir][m.name]
  BY DEF Declared
<1>2. m.dir \in Dir /\ m.name \in Name
  BY <1>1 DEF Module
<1>3. a \in Kind \X AnyScope /\ a[2] \in Scope
  BY <1>1, <1>2 DEF Valid
<1> QED BY <1>3

LEMMA TypesStart == Init => TypeInv
<1> SUFFICES ASSUME Init PROVE TypeInv
  OBVIOUS
<1> QED BY DEF Init, TypeInv, TypeOK, ScopesOK, Steps, Setting

LEMMA TypesInductive == TypeInv /\ [Next]_vars => TypeInv'
<1> SUFFICES ASSUME TypeInv, [Next]_vars PROVE TypeInv'
  OBVIOUS
<1> USE DEF TypeInv, ScopesOK
<1>1. CASE UNCHANGED vars
  BY <1>1 DEF vars, TypeOK
<1>2. ASSUME NEW r \in Run, Call(r) PROVE TypeInv'
  <2>1. PICK given \in setting.plugins[r] :
           /\ dirs' = [dirs EXCEPT ![r] = given]
           /\ todo' = [todo EXCEPT ![r] = PluginsOf(given)]
           /\ Goto(r, IF given = {} THEN "declare" ELSE "wait")
    BY <1>2 DEF Call
  <2>2. given \in SUBSET Dir
    BY DEF TypeOK, Setting
  <2>3. PluginsOf(given) \in SUBSET Name
    BY <2>2 DEF PluginsOf
  <2>4. /\ dirs' \in [Run -> SUBSET Dir] /\ todo' \in [Run -> SUBSET Name]
        /\ pc' \in [Run -> Steps]
    BY <2>1, <2>2, <2>3 DEF TypeOK, Goto, Steps
  <2>5. \A q \in Run : pc'[q] = "update" => pc[q] = "update" /\ loaded'[q] = loaded[q]
    BY <1>2, <2>1 DEF Call, Goto, TypeOK
  <2>6. ScopesOK'
    BY <2>5
  <2>7. /\ calls' \in [Run -> Nat] /\ began' \in [Run -> [Dir -> Nat]]
        /\ loaded' \in [Run -> SUBSET Module]
        /\ routed' \in [Run -> SUBSET (Kind \X SUBSET Scope)]
    BY <1>2 DEF Call, TypeOK
  <2>8. UNCHANGED <<setting, lock, package, modules, dontWrite, scopes, source, write>>
    BY <1>2 DEF Call, shared
  <2>9. TypeOK'
    BY <2>4, <2>7, <2>8 DEF TypeOK
  <2> QED BY <2>6, <2>9
<1>3. ASSUME NEW r \in Run, Acquire(r) \/ Register(r) \/ SetFlag(r)
      PROVE  TypeInv'
  BY <1>3 DEF Acquire, Register, SetFlag, request, Goto, TypeOK, Steps
<1>4. ASSUME NEW r \in Run, NEW n \in Name, Import(r, n) PROVE TypeInv'
  <2>1. \A m \in Needed(n) : modules[m] # None \/ Sound(m)
    BY <1>4 DEF Import, Importable
  <2>2. /\ modules' \in [Name -> {None} \cup Source]
        /\ \A m \in Needed(n) : m \in Name /\ modules'[m] \in Source
    BY <1>4, <2>1, ImportedModules, NeededNames DEF Import
  <2> DEFINE new == {[name |-> m, dir |-> modules'[m].dir,
                      version |-> modules'[m].version] : m \in Needed(n)}
  <2>3. new \in SUBSET Module
    BY <2>2 DEF Source, Module
  <2>4. loaded' = [loaded EXCEPT ![r] = @ \cup new]
    BY <1>4 DEF Import
  <2> HIDE DEF new
  <2>5. loaded' \in [Run -> SUBSET Module]
    BY <2>3, <2>4 DEF TypeOK
  <2>6. \A q \in Run : pc[q] = "update" => loaded'[q] = loaded[q]
    BY <1>4, <2>4 DEF Import, TypeOK
  <2>7. todo' \in [Run -> SUBSET Name]
    BY <1>4 DEF Import, TypeOK
  <2>8. \A q \in Run : pc'[q] = "update" => Valid(Declared(loaded'[q]))
    BY <1>4, <2>6 DEF Import
  <2> QED BY <1>4, <2>2, <2>5, <2>7, <2>8 DEF Import, request, TypeOK, Source
<1>5. ASSUME NEW r \in Run, NEW n \in Name, ImportFails(r, n) PROVE TypeInv'
  <2>1. PICK early \in SUBSET {m \in Siblings[n] : Sound(m)} :
           modules' = AfterImport(early)
    BY <1>5 DEF ImportFails
  <2>2. modules' \in [Name -> {None} \cup Source]
    <3>1. early \in SUBSET Name /\ \A m \in early : Sound(m)
      OBVIOUS
    <3> QED BY <2>1, <3>1, ImportedModules
  <2> QED BY <1>5, <2>2 DEF ImportFails, request, Goto, TypeOK, Steps, Source
<1>6. ASSUME NEW r \in Run, AllLoaded(r) \/ Restore(r) \/ Return(r)
      PROVE  TypeInv'
  BY <1>6 DEF AllLoaded, Restore, Return, shared, request, Goto, TypeOK, Steps,
              Resting
<1>7. ASSUME NEW r \in Run, ClearScopes(r) \/ ScopesRejected(r)
      PROVE  TypeInv'
  BY <1>7 DEF ClearScopes, ScopesRejected, shared, request, Goto, TypeOK, Steps
<1>8. ASSUME NEW r \in Run, UpdateScopes(r) PROVE TypeInv'
  <2>1. Declared(loaded[r]) \subseteq Kind \X Scope
    BY <1>8, DeclaredScopes DEF UpdateScopes, TypeOK
  <2> QED BY <1>8, <2>1 DEF UpdateScopes, request, Goto, TypeOK, Steps
<1>9. ASSUME NEW r \in Run, NEW k \in Kind, Route(r, k) PROVE TypeInv'
  <2>1. ScopeIn(scopes, k) \in SUBSET Scope
    BY DEF ScopeIn, TypeOK
  <2> QED BY <1>9, <2>1 DEF Route, shared, request, TypeOK
<1>10. ASSUME NEW d \in Dir, Checkout(d) PROVE TypeInv'
  BY <1>10 DEF Checkout, request, TypeOK
<1>11. CASE Forget
  BY <1>11 DEF Forget, request, TypeOK
<1> QED BY <1>1, <1>2, <1>3, <1>4, <1>5, <1>6, <1>7, <1>8, <1>9, <1>10, <1>11
        DEF Next, Step
LEMMA LocksInductive == TypeInv /\ LockInv /\ [Next]_vars => LockInv'
<1> SUFFICES ASSUME TypeInv, LockInv, [Next]_vars PROVE LockInv'
  OBVIOUS
<1> USE DEF TypeInv, TypeOK, LockInv, Holding
<1>1. ASSUME NEW r \in Run, Call(r) PROVE LockInv'
  BY <1>1 DEF Call, Goto, shared, Resting
<1>2. ASSUME NEW r \in Run, Acquire(r) PROVE LockInv'
  BY <1>2 DEF Acquire, Goto
<1>3. ASSUME NEW r \in Run, Register(r) \/ SetFlag(r) \/ AllLoaded(r)
      PROVE  LockInv'
  BY <1>3 DEF Register, SetFlag, AllLoaded, Goto, shared
<1>4. ASSUME NEW r \in Run, NEW n \in Name, Import(r, n) \/ ImportFails(r, n)
      PROVE  LockInv'
  BY <1>4 DEF Import, ImportFails, Goto
<1>5. ASSUME NEW r \in Run, Restore(r) PROVE LockInv'
  BY <1>5 DEF Restore, Goto
<1>6. ASSUME NEW r \in Run,
             ClearScopes(r) \/ ScopesRejected(r) \/ UpdateScopes(r) \/ Return(r)
      PROVE  LockInv'
  BY <1>6 DEF ClearScopes, ScopesRejected, UpdateScopes, Return, Goto, shared, Resting
<1>7. CASE \/ \E r \in Run : \E k \in Kind : Route(r, k)
           \/ \E d \in Dir : Checkout(d)
           \/ Forget
           \/ UNCHANGED vars
  BY <1>7 DEF Route, Checkout, Forget, vars, shared
<1> QED BY <1>1, <1>2, <1>3, <1>4, <1>5, <1>6, <1>7 DEF Next, Step

LEMMA FlagsInductive == TypeInv /\ LockInv /\ FlagInv /\ [Next]_vars => FlagInv'
<1> SUFFICES ASSUME TypeInv, LockInv, FlagInv, [Next]_vars PROVE FlagInv'
  OBVIOUS
<1> USE DEF TypeInv, TypeOK, FlagInv, Quiet
<1>1. ASSUME NEW r \in Run, Call(r) PROVE FlagInv'
  BY <1>1 DEF Call, Goto, shared, Resting
<1>2. ASSUME NEW r \in Run, Acquire(r) \/ Register(r) \/ AllLoaded(r)
      PROVE  FlagInv'
  BY <1>2 DEF Acquire, Register, AllLoaded, Goto, shared
<1>3. ASSUME NEW r \in Run, SetFlag(r) PROVE FlagInv'
  <2>1. ~dontWrite
    BY <1>3 DEF SetFlag, LockInv, Holding
  <2>2. /\ dontWrite' /\ write' = [write EXCEPT ![r] = TRUE]
        /\ pc'[r] \in Quiet /\ \A q \in Run \ {r} : pc'[q] = pc[q]
    BY <1>3, <2>1 DEF SetFlag, Goto
  <2>3. \A q \in Run \ {r} : pc[q] \notin Quiet
    BY <1>3 DEF SetFlag, LockInv, Holding
  <2> QED BY <2>2, <2>3
<1>4. ASSUME NEW r \in Run, NEW n \in Name, Import(r, n) \/ ImportFails(r, n)
      PROVE  FlagInv'
  BY <1>4 DEF Import, ImportFails, Goto
<1>5. ASSUME NEW r \in Run, Restore(r) PROVE FlagInv'
  <2>1. write[r] /\ \A q \in Run \ {r} : pc[q] \notin Quiet
    BY <1>5 DEF Restore, LockInv, Holding
  <2>2. ~dontWrite' /\ \A q \in Run : pc'[q] \notin Quiet
    BY <1>5, <2>1 DEF Restore, Goto
  <2> QED BY <2>2
<1>6. ASSUME NEW r \in Run,
             ClearScopes(r) \/ ScopesRejected(r) \/ UpdateScopes(r) \/ Return(r)
      PROVE  FlagInv'
  BY <1>6 DEF ClearScopes, ScopesRejected, UpdateScopes, Return, Goto, shared, Resting
<1>7. CASE \/ \E r \in Run : \E k \in Kind : Route(r, k)
           \/ \E d \in Dir : Checkout(d)
           \/ Forget
           \/ UNCHANGED vars
  BY <1>7 DEF Route, Checkout, Forget, vars, shared
<1> QED BY <1>1, <1>2, <1>3, <1>4, <1>5, <1>6, <1>7 DEF Next, Step

LEMMA SourcesInductive == TypeInv /\ SourceInv /\ [Next]_vars => SourceInv'
<1> SUFFICES ASSUME TypeInv, SourceInv, [Next]_vars PROVE SourceInv'
  OBVIOUS
<1> USE DEF TypeInv, TypeOK, SourceInv
<1>1. ASSUME NEW r \in Run, Call(r) PROVE SourceInv'
  BY <1>1 DEF Call, shared
<1>2. ASSUME NEW d \in Dir, Checkout(d) PROVE SourceInv'
  BY <1>2 DEF Checkout, request
<1>3. CASE (\E r \in Run : Step(r) \/ \E k \in Kind : Route(r, k)) \/ Forget
  <2>1. UNCHANGED <<source, began>>
    BY <1>3 DEF Step, Acquire, Register, SetFlag, Import, ImportFails, AllLoaded,
                Restore, ClearScopes, ScopesRejected, UpdateScopes, Return, Route,
                Forget, shared, request
  <2> QED BY <2>1
<1>4. CASE UNCHANGED vars
  BY <1>4 DEF vars
<1> QED BY <1>1, <1>2, <1>3, <1>4 DEF Next
\* While r loads, no other thread has the modules of its own load there.
LEMMA PurgesInductive ==
    TypeInv /\ LockInv /\ SourceInv /\ PurgeInv /\ [Next]_vars => PurgeInv'
<1> SUFFICES ASSUME TypeInv, LockInv, SourceInv, PurgeInv, [Next]_vars
             PROVE  PurgeInv'
  OBVIOUS
<1> USE DEF TypeInv
<1>0. \A q, r \in Run : pc[q] \in Holding /\ pc[r] \in Holding => q = r
  BY DEF LockInv
<1>1. ASSUME NEW r \in Run, Call(r) PROVE PurgeInv'
  <2>1. /\ pc'[r] \notin {"flag", "load"}
        /\ \A q \in Run \ {r} : /\ pc'[q] = pc[q] /\ dirs'[q] = dirs[q]
                                /\ began'[q] = began[q]
    BY <1>1 DEF Call, Goto, TypeOK
  <2> QED BY <1>1, <2>1 DEF Call, shared, PurgeInv, OwnAndCurrent
<1>2. ASSUME NEW r \in Run, Register(r) PROVE PurgeInv'
  <2>1. \A q \in Run \ {r} : pc'[q] \notin {"flag", "load"}
    BY <1>0, <1>2 DEF Register, Goto, Holding, TypeOK
  <2>2. package' = dirs'[r] /\ \A n \in Name : modules'[n] = None
    BY <1>2 DEF Register, request
  <2> QED BY <2>1, <2>2 DEF PurgeInv
<1>3. ASSUME NEW r \in Run,
             Acquire(r) \/ SetFlag(r) \/ AllLoaded(r) \/ Restore(r)
             \/ ClearScopes(r) \/ ScopesRejected(r) \/ UpdateScopes(r) \/ Return(r)
      PROVE  PurgeInv'
  <2>1. \A q \in Run : pc'[q] \in {"flag", "load"} => pc[q] \in {"flag", "load"}
    BY <1>3 DEF Acquire, SetFlag, AllLoaded, Restore, ClearScopes, ScopesRejected,
                UpdateScopes, Return, Goto, Resting, TypeOK
  <2>2. UNCHANGED <<package, modules, dirs, began>>
    BY <1>3 DEF Acquire, SetFlag, AllLoaded, Restore, ClearScopes, ScopesRejected,
                UpdateScopes, Return, shared, request
  <2> QED BY <2>1, <2>2 DEF PurgeInv, OwnAndCurrent
<1>4. ASSUME NEW r \in Run, NEW n \in Name, Import(r, n) PROVE PurgeInv'
  <2>1. \A q \in Run \ {r} : pc[q] \notin {"flag", "load"}
    BY <1>0, <1>4 DEF Import, Holding
  <2>2. \A m \in Name : modules'[m] # None => OwnAndCurrent(r, m, modules'[m])
    BY <1>4, NeededNames, ImportedAreOwn DEF Import, Importable
  <2>3. UNCHANGED <<pc, package, dirs, began>>
    BY <1>4 DEF Import, request
  <2> QED BY <2>1, <2>2, <2>3 DEF PurgeInv, OwnAndCurrent
<1>5. ASSUME NEW r \in Run, NEW n \in Name, ImportFails(r, n) PROVE PurgeInv'
  <2>1. \A q \in Run : pc'[q] \notin {"flag", "load"}
    BY <1>0, <1>5 DEF ImportFails, Goto, Holding, TypeOK
  <2> QED BY <2>1 DEF PurgeInv
<1>6. CASE Forget
  BY <1>6 DEF Forget, request, PurgeInv, OwnAndCurrent
<1>7. CASE \/ \E r \in Run : \E k \in Kind : Route(r, k)
           \/ \E d \in Dir : Checkout(d)
           \/ UNCHANGED vars
  <2>1. UNCHANGED <<pc, package, modules, dirs, began>>
    BY <1>7 DEF Route, Checkout, vars, shared, request
  <2> QED BY <2>1 DEF PurgeInv, OwnAndCurrent
<1> QED BY <1>1, <1>2, <1>3, <1>4, <1>5, <1>6, <1>7 DEF Next, Step

LEMMA TodosInductive == TypeInv /\ TodoInv /\ [Next]_vars => TodoInv'
<1> SUFFICES ASSUME TypeInv, TodoInv, [Next]_vars PROVE TodoInv'
  OBVIOUS
<1> USE DEF TypeInv
<1>1. ASSUME NEW r \in Run, Call(r) PROVE TodoInv'
  <2>1. PICK given \in setting.plugins[r] :
           /\ dirs' = [dirs EXCEPT ![r] = given]
           /\ todo' = [todo EXCEPT ![r] = PluginsOf(given)]
           /\ Goto(r, IF given = {} THEN "declare" ELSE "wait")
    BY <1>1 DEF Call
  <2>2. /\ dirs'[r] = given /\ todo'[r] = PluginsOf(given)
        /\ pc'[r] \in {"wait", "declare"} /\ (pc'[r] = "declare" => given = {})
    BY <2>1 DEF Goto, TypeOK
  <2>3. \A q \in Run \ {r} : /\ dirs'[q] = dirs[q] /\ todo'[q] = todo[q]
                             /\ pc'[q] = pc[q] /\ loaded'[q] = loaded[q]
    BY <1>1, <2>1 DEF Call, Goto, TypeOK
  <2>4. PluginsOf({}) = {}
    BY DEF PluginsOf
  <2>5. /\ PluginsOf(dirs'[r]) = todo'[r]
        /\ pc'[r] \in {"restore", "declare", "update", "route"} => todo'[r] = {}
    BY <2>2, <2>4
  <2>6. \A q \in Run \ {r} : PluginsOf(dirs'[q]) = PluginsOf(dirs[q])
    BY <2>3
  <2> SUFFICES ASSUME NEW q \in Run
               PROVE  /\ \A n \in PluginsOf(dirs'[q]) :
                            n \in todo'[q] \/ \E m \in loaded'[q] : m.name = n
                      /\ pc'[q] \in {"restore", "declare", "update", "route"}
                         => todo'[q] = {}
    BY DEF TodoInv
  <2>7. CASE q = r
    BY <2>5, <2>7
  <2>8. CASE q # r
    BY <2>3, <2>6, <2>8 DEF TodoInv
  <2> QED BY <2>7, <2>8
<1>2. ASSUME NEW r \in Run, NEW n \in Name, Import(r, n) PROVE TodoInv'
  <2> DEFINE new == {[name |-> m, dir |-> modules'[m].dir,
                      version |-> modules'[m].version] : m \in Needed(n)}
  <2>1. \E m \in new : m.name = n
    <3>1. [name |-> n, dir |-> modules'[n].dir, version |-> modules'[n].version]
             \in new
      BY NeededNames
    <3> QED BY <3>1
  <2>2. loaded' = [loaded EXCEPT ![r] = @ \cup new]
    BY <1>2 DEF Import
  <2>3. /\ todo' = [todo EXCEPT ![r] = @ \ {n}]
        /\ UNCHANGED <<pc, dirs>>
    BY <1>2 DEF Import, request
  <2> HIDE DEF new
  <2> QED BY <2>1, <2>2, <2>3 DEF TodoInv, TypeOK
<1>3. ASSUME NEW r \in Run,
             \/ Acquire(r) \/ Register(r) \/ SetFlag(r) \/ AllLoaded(r)
             \/ Restore(r) \/ ClearScopes(r) \/ ScopesRejected(r)
             \/ UpdateScopes(r) \/ Return(r) \/ \E n \in Name : ImportFails(r, n)
      PROVE  TodoInv'
  <2>1. UNCHANGED <<dirs, todo, loaded>>
    BY <1>3 DEF Acquire, Register, SetFlag, ImportFails, AllLoaded, Restore,
                ClearScopes, ScopesRejected, UpdateScopes, Return, shared, request
  <2>2. \A q \in Run : pc'[q] \in {"restore", "declare", "update", "route"} =>
           todo[q] = {} \/ pc[q] \in {"restore", "declare", "update", "route"}
    BY <1>3 DEF Acquire, Register, SetFlag, ImportFails, AllLoaded, Restore,
                ClearScopes, ScopesRejected, UpdateScopes, Return, Goto, Resting,
                TypeOK
  <2> QED BY <2>1, <2>2 DEF TodoInv
<1>4. CASE \/ \E r \in Run : \E k \in Kind : Route(r, k)
           \/ \E d \in Dir : Checkout(d)
           \/ Forget
           \/ UNCHANGED vars
  <2>1. UNCHANGED <<pc, dirs, todo, loaded>>
    BY <1>4 DEF Route, Checkout, Forget, vars, shared, request
  <2> QED BY <2>1 DEF TodoInv
<1> QED BY <1>1, <1>2, <1>3, <1>4 DEF Next, Step

\* What a run is built from grows by its own imports only.
LEMMA LoadedInductive ==
    /\ TypeInv /\ SourceInv /\ PurgeInv /\ [Next]_vars
    /\ OwnPluginsOnly /\ NoStalePlugins
    => OwnPluginsOnly' /\ NoStalePlugins'
<1> SUFFICES ASSUME TypeInv, SourceInv, PurgeInv, [Next]_vars,
                    OwnPluginsOnly, NoStalePlugins
             PROVE  OwnPluginsOnly' /\ NoStalePlugins'
  OBVIOUS
<1> USE DEF TypeInv, OwnPluginsOnly, NoStalePlugins
<1>1. ASSUME NEW r \in Run, Call(r) PROVE OwnPluginsOnly' /\ NoStalePlugins'
  <2>1. loaded'[r] = {}
    BY <1>1 DEF Call, TypeOK
  <2>2. \A q \in Run \ {r} : /\ loaded'[q] = loaded[q] /\ dirs'[q] = dirs[q]
                             /\ began'[q] = began[q]
    BY <1>1 DEF Call, TypeOK
  <2> QED BY <2>1, <2>2
<1>2. ASSUME NEW r \in Run, NEW n \in Name, Import(r, n)
      PROVE  OwnPluginsOnly' /\ NoStalePlugins'
  <2> DEFINE new == {[name |-> m, dir |-> modules'[m].dir,
                      version |-> modules'[m].version] : m \in Needed(n)}
  <2>1. \A m \in Needed(n) : m \in Name /\ modules'[m] \in Source
                             /\ OwnAndCurrent(r, m, modules'[m])
    <3>1. \A m \in Needed(n) : modules[m] # None \/ Sound(m)
      BY <1>2 DEF Import, Importable
    <3>2. \A m \in Needed(n) : m \in Name /\ modules'[m] \in Source
      BY <1>2, <3>1, NeededNames, ImportedModules DEF Import
    <3>3. None \notin Source
      BY DEF Source
    <3> QED BY <1>2, <3>1, <3>2, <3>3, NeededNames, ImportedAreOwn DEF Import
  <2>2. \A m \in new : /\ m.dir \in dirs[r] /\ m.name \in Offers[m.dir]
                       /\ m.version >= began[r][m.dir]
    BY <2>1 DEF OwnAndCurrent
  <2>3. loaded' = [loaded EXCEPT ![r] = @ \cup new] /\ UNCHANGED <<dirs, began>>
    BY <1>2 DEF Import, request
  <2> HIDE DEF new
  <2>4. loaded'[r] = loaded[r] \cup new
    BY <2>3 DEF TypeOK
  <2>5. \A q \in Run \ {r} : loaded'[q] = loaded[q]
    BY <2>3 DEF TypeOK
  <2>6. \A q \in Run : dirs'[q] = dirs[q] /\ began'[q] = began[q]
    BY <2>3
  <2> QED BY <2>2, <2>4, <2>5, <2>6
<1>3. CASE \/ \E r \in Run :
                 \/ Acquire(r) \/ Register(r) \/ SetFlag(r) \/ AllLoaded(r)
                 \/ Restore(r) \/ ClearScopes(r) \/ ScopesRejected(r)
                 \/ UpdateScopes(r) \/ Return(r)
                 \/ \E n \in Name : ImportFails(r, n)
                 \/ \E k \in Kind : Route(r, k)
           \/ \E d \in Dir : Checkout(d)
           \/ Forget
           \/ UNCHANGED vars
  <2>1. UNCHANGED <<dirs, began, loaded>>
    BY <1>3 DEF Acquire, Register, SetFlag, ImportFails, AllLoaded, Restore,
                ClearScopes, ScopesRejected, UpdateScopes, Return, Route, Checkout,
                Forget, vars, shared, request
  <2> QED BY <2>1
<1> QED BY <1>1, <1>2, <1>3 DEF Next, Step
LEMMA LoadInvAlways == Spec => []LoadInv
<1>1. Init => LoadInv
  <2> SUFFICES ASSUME Init PROVE LoadInv
    OBVIOUS
  <2>1. LockInv /\ FlagInv /\ PurgeInv /\ OwnPluginsOnly /\ NoStalePlugins
    BY DEF Init, LockInv, FlagInv, PurgeInv, OwnPluginsOnly, NoStalePlugins,
           Holding, Quiet
  <2>2. SourceInv
    BY DEF Init, SourceInv
  <2>3. TodoInv
    BY DEF Init, TodoInv, PluginsOf
  <2> QED BY <2>1, <2>2, <2>3, TypesStart DEF LoadInv
<1>2. LoadInv /\ [Next]_vars => LoadInv'
  BY TypesInductive, LocksInductive, FlagsInductive, SourcesInductive,
     PurgesInductive, TodosInductive, LoadedInductive DEF LoadInv
<1> QED BY <1>1, <1>2, PTL DEF Spec
-----------------------------------------------------------------------------
(* What it gives. *)

\* Every variable keeps its type; the table of scopes holds nothing unknown.
THEOREM PluginTypes == Spec => []TypeOK
<1>1. LoadInv => TypeOK
  BY DEF LoadInv, TypeInv
<1> QED BY <1>1, LoadInvAlways, PTL

\* The lock is free unless one load, and only one, is at work: it is never left
\* behind by a call that has failed, so that a later call would wait for good.
LockHeldByOneLoad ==
    lock # Free => \E r \in Run : /\ lock = r /\ pc[r] \in Holding
                                  /\ \A q \in Run : pc[q] \in Holding => q = r

\* Loads do not overlap, and no call waits for a lock that nobody will release.
THEOREM LoadsAlwaysTakeTurns == Spec => []LockHeldByOneLoad
<1>1. LoadInv => LockHeldByOneLoad
  BY DEF LoadInv, LockInv, TypeInv, TypeOK, LockHeldByOneLoad
<1> QED BY <1>1, LoadInvAlways, PTL

\* A run is built from modules of its own plugins directories, whatever other
\* threads load, forget or check out meanwhile.
THEOREM PluginsAlwaysOwn == Spec => []OwnPluginsOnly
<1>1. LoadInv => OwnPluginsOnly
  BY DEF LoadInv
<1> QED BY <1>1, LoadInvAlways, PTL

\* ... and from none older than its call.
THEOREM PluginsNeverStale == Spec => []NoStalePlugins
<1>1. LoadInv => NoStalePlugins
  BY DEF LoadInv
<1> QED BY <1>1, LoadInvAlways, PTL

\* A run that gets past discovery has every one of its plugins.
THEOREM NoPluginEverMissing == Spec => []NoPluginMissing
<1>1. LoadInv => NoPluginMissing
  BY DEF LoadInv, TodoInv, NoPluginMissing
<1> QED BY <1>1, LoadInvAlways, PTL

\* While no load is at work the flag is as the process set it.
THEOREM FlagAlwaysRestored == Spec => []FlagIsRestored
<1>1. LoadInv => FlagIsRestored
  BY DEF LoadInv, LockInv, FlagInv, FlagIsRestored, Holding, Quiet
<1> QED BY <1>1, LoadInvAlways, PTL

\* No module is imported while bytecode would be written.
THEOREM BytecodeNeverWritten == Spec => NoBytecodeWritten
<1>1. LoadInv /\ [Next]_vars =>
         [\A n \in Name : (modules[n] = None /\ modules'[n] # None) => dontWrite]_vars
  <2> SUFFICES ASSUME LoadInv, Next, NEW m \in Name,
                      modules[m] = None, modules'[m] # None
               PROVE  dontWrite
    BY DEF vars
  <2>1. ASSUME NEW r \in Run, NEW n \in Name, Import(r, n) \/ ImportFails(r, n)
        PROVE  dontWrite
    BY <2>1 DEF Import, ImportFails, LoadInv, FlagInv, Quiet
  <2>2. CASE \/ \E r \in Run :
                   \/ Call(r) \/ Acquire(r) \/ SetFlag(r) \/ AllLoaded(r)
                   \/ Restore(r) \/ ClearScopes(r) \/ ScopesRejected(r)
                   \/ UpdateScopes(r) \/ Return(r)
                   \/ \E k \in Kind : Route(r, k)
             \/ \E d \in Dir : Checkout(d)
    <3>1. modules' = modules
      BY <2>2 DEF Call, Acquire, SetFlag, AllLoaded, Restore, ClearScopes,
                  ScopesRejected, UpdateScopes, Return, Route, Checkout, shared
    <3> QED BY <3>1
  <2>3. CASE Forget \/ \E r \in Run : Register(r)
    BY <2>3 DEF Forget, Register
  <2> QED BY <2>1, <2>2, <2>3 DEF Next, Step
<1> QED BY <1>1, LoadInvAlways, PTL DEF Spec, NoBytecodeWritten
-----------------------------------------------------------------------------
(* Scopes, for calls that do not overlap. *)

\* One call at a time, and what the table holds at its last steps.
AloneInv ==
    ~setting.overlap =>
        \A q, r \in Run : pc[q] \notin Resting /\ pc[r] \notin Resting => q = r
RoutedInv ==
    \A r \in Run : routed[r] # {} => pc[r] \in {"route"} \cup Resting
TableInv ==
    ~setting.overlap =>
        \A r \in Run : /\ pc[r] = "update" => scopes = {}
                       /\ pc[r] = "route" => scopes = Declared(loaded[r])

ScopeInv == AloneInv /\ RoutedInv /\ TableInv /\ AloneRoutedByOwnScopes

LEMMA ScopesInductive == TypeInv /\ ScopeInv /\ [Next]_vars => ScopeInv'
<1> SUFFICES ASSUME TypeInv, ScopeInv, [Next]_vars PROVE ScopeInv'
  OBVIOUS
<1> USE DEF TypeInv, ScopeInv
<1>0. setting' = setting
  BY DEF Next, Step, Call, Acquire, Register, SetFlag, Import, ImportFails,
         AllLoaded, Restore, ClearScopes, ScopesRejected, UpdateScopes, Return,
         Route, Checkout, Forget, vars, request
<1>1. ASSUME NEW r \in Run, Call(r) PROVE ScopeInv'
  <2>1. /\ pc'[r] \in {"wait", "declare"} /\ loaded'[r] = {} /\ routed'[r] = {}
        /\ setting.overlap \/ \A q \in Run : pc[q] \in Resting
    BY <1>1 DEF Call, Goto, TypeOK
  <2>2. \A q \in Run \ {r} : /\ pc'[q] = pc[q] /\ loaded'[q] = loaded[q]
                             /\ routed'[q] = routed[q]
    BY <1>1 DEF Call, Goto, TypeOK
  <2>3. scopes' = scopes
    BY <1>1 DEF Call, shared
  <2>4. AloneInv'
    BY <1>0, <2>1, <2>2 DEF AloneInv
  <2>5. RoutedInv'
    BY <2>1, <2>2 DEF RoutedInv
  <2>6. TableInv'
    BY <1>0, <2>1, <2>2, <2>3 DEF TableInv
  <2>7. AloneRoutedByOwnScopes'
    BY <1>0, <2>1, <2>2 DEF AloneRoutedByOwnScopes, RoutedByOwnScopes
  <2> QED BY <2>4, <2>5, <2>6, <2>7
<1>2. ASSUME NEW r \in Run, NEW n \in Name, Import(r, n) PROVE ScopeInv'
  <2>1. /\ pc[r] = "load" /\ UNCHANGED <<scopes, pc, routed>>
        /\ \A q \in Run \ {r} : loaded'[q] = loaded[q]
    BY <1>2 DEF Import, TypeOK
  <2>2. routed[r] = {}
    BY <2>1 DEF RoutedInv, Resting
  <2>3. AloneInv' /\ RoutedInv'
    BY <1>0, <2>1 DEF AloneInv, RoutedInv
  <2>4. TableInv'
    BY <1>0, <2>1 DEF TableInv
  <2>5. AloneRoutedByOwnScopes'
    BY <1>0, <2>1, <2>2 DEF AloneRoutedByOwnScopes, RoutedByOwnScopes
  <2> QED BY <2>3, <2>4, <2>5
<1>3. ASSUME NEW r \in Run,
             \/ Acquire(r) \/ Register(r) \/ SetFlag(r) \/ AllLoaded(r)
             \/ Restore(r) \/ ScopesRejected(r) \/ Return(r)
             \/ \E n \in Name : ImportFails(r, n)
      PROVE  ScopeInv'
  <2>1. /\ UNCHANGED <<scopes, loaded, routed>>
        /\ pc[r] \notin Resting /\ pc'[r] \notin {"update", "route"}
        /\ \A q \in Run \ {r} : pc'[q] = pc[q]
        /\ pc[r] = "route" => pc'[r] \in Resting
    BY <1>3 DEF Acquire, Register, SetFlag, ImportFails, AllLoaded, Restore,
                ScopesRejected, Return, Goto, Resting, TypeOK, shared
  <2>2. AloneInv' /\ TableInv'
    BY <1>0, <2>1 DEF AloneInv, TableInv
  <2>3. RoutedInv'
    BY <2>1 DEF RoutedInv
  <2>4. AloneRoutedByOwnScopes'
    BY <1>0, <2>1 DEF AloneRoutedByOwnScopes, RoutedByOwnScopes
  <2> QED BY <2>2, <2>3, <2>4
<1>4. ASSUME NEW r \in Run, ClearScopes(r) PROVE ScopeInv'
  <2>1. /\ UNCHANGED <<loaded, routed>> /\ scopes' = {}
        /\ pc[r] = "declare" /\ pc'[r] = "update"
        /\ \A q \in Run \ {r} : pc'[q] = pc[q]
    BY <1>4 DEF ClearScopes, Goto, TypeOK
  <2>2. ~setting.overlap => \A q \in Run \ {r} : pc[q] \in Resting
    BY <2>1 DEF AloneInv, Resting
  <2>3. AloneInv' /\ TableInv'
    BY <1>0, <2>1, <2>2 DEF AloneInv, TableInv, Resting
  <2>4. RoutedInv' /\ AloneRoutedByOwnScopes'
    BY <1>0, <2>1 DEF RoutedInv, AloneRoutedByOwnScopes, RoutedByOwnScopes, Resting
  <2> QED BY <2>3, <2>4
<1>5. ASSUME NEW r \in Run, UpdateScopes(r) PROVE ScopeInv'
  <2>1. /\ UNCHANGED <<loaded, routed>>
        /\ scopes' = scopes \cup Declared(loaded[r])
        /\ pc[r] = "update" /\ pc'[r] = "route"
        /\ \A q \in Run \ {r} : pc'[q] = pc[q]
    BY <1>5 DEF UpdateScopes, Goto, TypeOK
  <2>2. ~setting.overlap => \A q \in Run \ {r} : pc[q] \in Resting
    BY <2>1 DEF AloneInv, Resting
  <2>3. ~setting.overlap => scopes' = Declared(loaded'[r])
    BY <2>1 DEF TableInv
  <2>4. AloneInv' /\ TableInv'
    BY <1>0, <2>1, <2>2, <2>3 DEF AloneInv, TableInv, Resting
  <2>5. RoutedInv' /\ AloneRoutedByOwnScopes'
    BY <1>0, <2>1 DEF RoutedInv, AloneRoutedByOwnScopes, RoutedByOwnScopes, Resting
  <2> QED BY <2>4, <2>5
<1>6. ASSUME NEW r \in Run, NEW k \in Kind, Route(r, k) PROVE ScopeInv'
  <2>1. /\ UNCHANGED <<scopes, pc, loaded>> /\ pc[r] = "route"
        /\ routed'[r] = routed[r] \cup {<<k, ScopeIn(scopes, k)>>}
        /\ \A q \in Run \ {r} : routed'[q] = routed[q]
    BY <1>6 DEF Route, shared, TypeOK
  <2>2. AloneInv' /\ RoutedInv' /\ TableInv'
    BY <1>0, <2>1 DEF AloneInv, RoutedInv, TableInv
  <2>3. ~setting.overlap => ScopeIn(scopes, k) = ScopeIn(Declared(loaded[r]), k)
    BY <2>1 DEF TableInv
  <2>4. AloneRoutedByOwnScopes'
    BY <1>0, <2>1, <2>3 DEF AloneRoutedByOwnScopes, RoutedByOwnScopes
  <2> QED BY <2>2, <2>4
<1>7. CASE (\E d \in Dir : Checkout(d)) \/ Forget \/ UNCHANGED vars
  <2>1. UNCHANGED <<scopes, pc, loaded, routed>>
    BY <1>7 DEF Checkout, Forget, vars
  <2> QED BY <1>0, <2>1 DEF AloneInv, RoutedInv, TableInv, AloneRoutedByOwnScopes,
                            RoutedByOwnScopes
<1> QED BY <1>1, <1>2, <1>3, <1>4, <1>5, <1>6, <1>7 DEF Next, Step

\* Calls that do not overlap are routed by what their own plugins declare.
THEOREM AloneAlwaysRoutedByOwnScopes == Spec => []AloneRoutedByOwnScopes
<1>1. Init => TypeInv /\ ScopeInv
  <2> SUFFICES ASSUME Init PROVE ScopeInv
    BY TypesStart
  <2> QED BY DEF Init, ScopeInv, AloneInv, RoutedInv, TableInv,
                 AloneRoutedByOwnScopes, RoutedByOwnScopes, Resting
<1>2. TypeInv /\ ScopeInv /\ [Next]_vars => (TypeInv /\ ScopeInv)'
  BY TypesInductive, ScopesInductive
<1>3. ScopeInv => AloneRoutedByOwnScopes
  BY DEF ScopeInv
<1> QED BY <1>1, <1>2, <1>3, PTL DEF Spec
=============================================================================
