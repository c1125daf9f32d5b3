# A TLA+ model of manifest-builder

manifest-builder generates Kubernetes manifests: it reads a directory of TOML
configs, renders helm charts and existing manifests, and writes one YAML file per
object into an output tree, which it may also commit to git. It runs as a command
and as a library inside a long-running process. This directory holds TLA+
models of the parts whose mistakes a unit test would hardly reach, the
TLC configurations that check them, and proofs that TLAPS checks.

Paths below are relative to `src/manifest_builder/` in the repository.

## 1. Inventory

| Component | State it keeps | Operations | Interacts with |
|---|---|---|---|
| Generation run (`generator.py`) | the jobs, results by job, `written_paths` with the config each belongs to | validate, render (thread pool or one by one), record, check owned roots, add Namespace objects, clean up, summarise | calls the blocks; shares `_written_paths` with every other run of the process |
| Manifest writing (`output.py`) | the process-wide set `_written_paths` behind a lock; files | expand lists, skip hooks, decide scope, fill in namespaces, claim a path, open, dump | reads CRDs and declared scopes of `k8s.py` |
| Chart cache (`helm.py`) | a directory of unpacked charts shared by threads and processes | look up, pull into staging, retry, rename into place | `helm` as a subprocess with timeouts |
| Output ownership and commit (`api.py`, `git_utils.py`) | `owners/*.toml` and the manifests in the checkout, the git index, HEAD | read declarations, clear owned roots, generate, declare, report changes, stage, commit | successive runs of different builders meet only in the checkout |
| Plugin discovery (`discovery.py`) | a synthetic package in `sys.modules`, a lock, `sys.dont_write_bytecode` | drop and import plugin modules, collect scopes | `declare_scopes` of `k8s.py` |
| Scopes and ConfigMaps (`k8s.py`) | the process-wide table `_declared_scopes` | replace the table, look up a kind, build ConfigMaps | read by every writer |
| Copy block (`blocks/copy.py`) | none | read templates, fill in namespaces, add ConfigMaps | `write_documents` |
| Config loading (`config.py`, `api.py`) | what one call has read so far: the selected target, merged variables, the entries handed to the blocks | choose the layout, select a target, read its sections, merge variables, hand tables to blocks, validate, read owner files | feeds the blocks; `declared_targets` answers callers for it |
| Report and commit (`git_utils.py`, `api.py`) | none but the checkout: files, index, HEAD, ignore rules | compare the run's roots with HEAD in memory, read the objects changed and removed, stage, commit | the index belongs to everybody who uses the checkout |
| Helmfile (`helmfile.py`), command line (`cli.py`), results (`result.py`) | none | parsing, formatting | around `generate()` |
| Fast YAML (`rust/`) | none | parse and print YAML | replaces PyYAML |

What is hard in it:

* *threads*: jobs of a parallel-safe block write files concurrently and
  fail concurrently; results are recorded in another order than they arise; two
  `generate()` calls of one process share the claims, the plugin package
  and the declared scopes;
* *processes*: builders race for the chart cache, and may be killed in it;
* *partial failure*: a run can fail after it cleared, wrote, declared or
  staged something, and the next run, perhaps of another builder, starts from
  what is left;
* *retries and timeouts*: `helm pull` is retried in a directory that a failed
  attempt has used;
* *collisions*: a file name says less than an object's identity, a namespace can be
  called like a file of somebody else, a variable can come from three places;
* *two sources of one answer*: the report is made from files, the commit from the index;
  `declared_targets` and `generate()` read one file by different paths.

What makes each component correct: a run that returns has every object in a file
of its own, and a run that fails has deleted nothing and left no thread behind
(generation); objects land in the namespace they belong to (writing); whatever is
cached is a whole chart (cache); nobody deletes, declares or commits what is
another's (ownership); the report says what the commit does (report); each run uses
its own current plugins and scopes (discovery); a config is loaded whole, with the
variables of its own sources, or not at all (config).

## 2. The modules

### OutputLayout, SequentialGeneration, GenerateManifests

`OutputLayout` holds what several modules share: paths as pairs of root and file
name, which roots may get a Namespace object (`_ensure_namespaces`) and which
files cleanup may remove (`_cleanup_stale_files`).

`GenerateManifests` is one call of `generate_manifests()`. `plan` is the list of
`_GenerationJob`s; a job is abstracted to its block, its namespace and the paths
its objects map to. `phase` is where the main thread is, `pc` and `pos` where each
job is. Writing an object takes three steps as in `write_documents`: `Claim` (the
lookup and insertion under the lock), `Open` (truncation) and `Dump`; all other threads
run in between. `Submit`, `StartWorker`, `JobError`, `Drained` are the
`ThreadPoolExecutor`: queued jobs start while at most `max_workers` run, the first
failing result in job order raises, and the `with` block waits for what
runs. `Record` and `Conflict` are `record_paths`; `Intrude`/`NoIntrusion` the
check of owned roots; `WriteNamespace` and `RemoveStale` work file by file, so a
failure may come between two files. `OtherRunResets` is another run of
the process that calls `reset_written_paths()`; only the plans in `Disturbed` are
generated next to one. Blocks from plugins may write
files by themselves (`own`), past the claims.

`SequentialGeneration` is the abstract specification: configs are recorded
strictly in order and never over one another, Namespace objects follow, the run
ends once. `GenerateManifests` refines it (`RefinesSequential`).

### ManifestRouting

Everything in `write_manifests`, `generate_copy` and `write_documents` that
decides which file an object goes to: `ExpandObject`/`ExpandList` are
`_expand_lists` with a work list in place of the recursion, `Prepare` drops hooks,
reads CRD scopes and fills in namespaces, `BeginCopy` does the same for copied
manifests and appends ConfigMaps, `Write`, `Skip` and `WriteFails` are the
loop of `write_documents`. Documents are records of the fields that decide; a
key may be missing, null or empty, which the code treats differently. It is
sequential: what threads do between claim and dump is in `GenerateManifests`,
whose `docs` are the paths this module computes.

### ChartCache

`pull_chart()` by threads of several processes for one chart. `chart` is the cached
directory with its contents, `staging` the temporary directory of each pull. Contents
distinguish a directory without `Chart.yaml`, files of an attempt cut
short or of two attempts, and the whole chart. `Unpack` is `helm pull`, which may
succeed, fail permanently or transiently and leave anything behind; `Install`,
`RenameFails` and `Recover` are the rename and its `OSError` handler. `Kill` ends
all threads of a process at once and leaves their staging directories. Of the threads in
`Unremovable` the file system may also refuse to remove files: `_empty_directory` passes over
them or raises (`CleanStagingFails`), and leaving the `with` block raises (`LeaveFails`).

### OutputOwnership

Successive calls of `generate()` on one checkout by the system builder and by
namespace builders. `disk`, `index` and `head` are trees of manifests and owner
files; each manifest is represented by the builder that wrote it. One action for
each part of `generate()` that touches the checkout: `BeginSystem` and
`BeginNamespace` read the declarations, `ClearFile`/`Cleared`, `Write`/`Written`,
`EnsureNamespaces`, `OpenOwnerFile`/`DeclareOwner` (`write_text` truncates first),
`Collect` (`get_git_manifest_changes`), `Stage`, `Commit`. A `deployment` says what the
builders are set up to generate and before which steps a run may fail or be killed
(`Interrupt`); it never changes, so that one run of TLC covers several. `FileOf` is the
owner file of a builder, which is `system` both for system generation and for the
builder of a namespace of that name. Nothing of a run survives it but the trees.
Generation itself is coarser than in `GenerateManifests`, and the git commands than in
the next module.

### ChangeReport

One report and commit at the level of files: `_collect_generation_result` and
`create_manifest_commit` with everything in `git_utils.py` that they call. Between runs
anybody may edit files, stage them, leave a merge half-way (`Conflicted`) or change
`.gitignore`. `Report`, `Inspect` and `ReadObjects` take the report: `ScratchTree` is the
tree built in memory, `Sorted` the three kinds of change, restricted to YAML below
the output. `Stage` stages what is tracked and what is there; `Commit`,
`NothingToCommit` and `CommitRefused` are the three ways to go on. The output may be a
subdirectory of the repository (`Outside` is the rest). `OutputOwnership` says which roots a
run asks about, this module what git makes of them; here the roots are arbitrary.

### ConfigLoading

One call of `load_configs()` with the arguments `generate()` passes on, from
`_load_api_variables` to the validation of the configs. `conf` is the config
directory: which files exist in it and in its sections, and what they hold.
`LoadArguments`, `OpenTop`, then `LoadFlat` for a file of blocks, or `SelectTarget` and one
`OpenSection` per section for a file of targets; each opened file hands its tables to
the blocks (`LoadBlock`), whose `configs` grow. `Fail`, `Mistargeted` and `BlockFails` are
the errors, raised where the code raises them, with what was handed over before.
A variable's value is the place it was defined, which is all that the properties ask
about. Blocks parse their entries as `[[copy]]` does. `DeclaredTargets` is
`declared_targets()`, an operator of its own that shares the helpers it shares in the code.

### PluginLoading

`discover_blocks()` by threads with plugins directories of their own. `modules`
and `package` are the part of `sys.modules` that belongs to plugins, `lock`
`_PLUGIN_LOAD_LOCK`, `dontWrite` the interpreter's flag, `scopes` the table of
declared scopes. A `setting` says which directories the calls of each thread are given
and whether calls overlap; `plugins` of a call that has none are not loaded at all. `Checkout` replaces the source of a directory at any
time, `Forget` is `forget_plugin_modules()`, called by anyone. Python's import
system is external to the repository and modelled from how discovery uses
it: an import runs the module and those siblings it imports, takes what is in
`sys.modules` as it is, and leaves no module behind whose import raised.

## 3. The runs

Each run finishes within three minutes with two workers; `own_checkout` and
`cache_pulls` are the long ones, the others take seconds.

| Run | What it asks | Instance |
|---|---|---|
| `gen_schedules` | under every schedule of the pool: does every object land, does a failing run delete nothing and leave torn only what it was writing, is it quiet when it ends, does it end, is it a sequential run, are configs kept apart | plans of up to seven jobs: distinct paths, collisions between jobs and within one, blocks that write by themselves, objects in owned roots, no configs; two threads for four jobs, so that jobs queue; earlier runs left claims and files; one root is not managed, one owned; three of the plans are also generated while another run resets the claims |
| `gen_concurrent_claims` | *violated*: `EveryDocumentLands` with a concurrent run | one plan |
| `gen_removed_count` | *violated*: `ReportsRemovals` | as `gen_schedules` |
| `routing` | does each object end in the file it should, alone in it | all releases of three documents from 23 (lists among them, one in another with and without a namespace of its own), in every order with a CRD, custom resource or list last; all copies of two with and without namespace and ConfigMaps; runs of two calls |
| `config_load` | does a config get the variables of its own sources and no others, are sections loaded whole and in order, does `declared_targets` agree | 28 top-level directories (both layouts, every mistake `parse_targets` knows) with two good sections, and all pairs of 17 section directories under two targets; every choice of target, default namespace, `vars_from` and `vars`; blocks missing or registered twice |
| `cache_pulls` | is a cached chart whole, is it never replaced, do callers get one, do retries and pulls end, is no litter left by a pull that is over | three threads, two in one process; one of them with files that may be unremovable; three attempts each, unbounded calls and kills |
| `own_checkout` | are owners disjoint, is only unclaimed output deleted, is the report the commit; and of tidy runs: is a commit exactly what the run wrote, do dropped roots leave HEAD | two builders in two deployments: one whose runs always commit and fail only while clearing; one whose runs stray into each other's roots and one that another pipeline declares, and fail before every step but the commit itself |
| `own_staged_leftovers` | *violated*: `CommitsStayInTheirRoots` when a run dies between staging and committing | the tidy configs |
| `own_system_namespace` | *violated*: `ReplacesOwnDeclaration` with a namespace called `system` | one config each |
| `report_commit` | is what a run reports what its commit changes, and is what it calls removed gone | two roots, the owner file and a file above the output; one manifest with three contents of two objects; every file and the index changed at will between runs, two files in conflict, one ignored |
| `plugins_concurrent` | does each run get all its plugins, its own and current ones, does a broken plugin block nobody; and of runs one after another: is every kind routed by the scopes of the run's own plugins | two settings: two threads, two directories with modules of the same names, each checked out twice, once with a helper that cannot be imported, two calls per thread; and calls one after another, three at a time, with and without providers, with providers that disagree or name an unknown scope, with two directories that share a plugin |
| `plugins_scopes_shared` | *violated*: routing by own scopes with two concurrent runs | two threads |

Why the bounds suffice. Jobs interact through single paths and the queue: two
threads and a longer queue show every pairwise race, and a third job in the
queue what becomes of it when another fails. In the cache, one thread
wins a rename and two lose, in its own process and another. Ownership is
pairwise between one builder, the system and one outsider. Retries,
roots and builders are unbounded in the theorems below. A config directory is read
section by section with nothing kept but variables and entries, so two sections show
what one leaves behind for the next, and one mistake per file shows every early
exit. What git does with a path depends on that path's state and on whether anything is in
conflict, so one path of each kind suffices; runs follow each other without bound. In
`plugins_*` a thread stops after the calls its setting allows, so the system may stop and
deadlock is not checked there; `EveryLoadEnds` takes its place.

Fairness. In `GenerateManifests` the main thread and the pool (as a whole) go on if
they can: threads are scheduled, and every external command a job waits for has a timeout
(60 s for `helm template`, 120 s for `helm pull`). In `ChartCache` a thread that
pulls goes on; nobody has to call, and processes need not die. In `PluginLoading`
each thread goes on with its call; the lock is only weakly fair, which
suffices because each thread makes finitely many calls. `OutputOwnership`,
`ChangeReport`, `ConfigLoading` and `ManifestRouting` state no liveness.

Properties that are conditional, and why:

* `UndisturbedDocumentsLand` and `NoSharedOpenFile` are about plans that are generated
  alone (`plan \notin Disturbed`), see the disagreements. `ConfigsKeptApart` is what is
  left of the first with concurrent runs.
* `CommitIsExact` and `DroppedRootsLeaveHead` are about `Tidy` deployments, whose runs
  fail no later than clearing and keep to the namespaces of their configs, where
  cluster-scoped output belongs to system generation and the config directory's own
  `owners/` declares nothing that the output's does not; otherwise both are violated
  (section 5).
* `ReportIsTheCommit` is about runs with roots, since no roots stand for the whole output.
* `AloneRoutedByOwnScopes` is about calls that do not overlap.
* `CacheIsWhole` and `NoLitter` are about pulls whose files can be removed. Where they
  cannot, `rmtree(ignore_errors=True)` goes on to the next attempt, which unpacks over what
  is left (section 5).
* `TornWhereItFailed` blames every torn file on a job or a Namespace object; that a run which fails
  leaves such files is what the code does (section 5). One that returns leaves none.
* `ReportedIsCommitted` and `RemovedObjectsAreGone` ask that no tracked file be ignored;
  without that both are violated (section 5). The first is about runs with roots, since
  no roots stand for the whole output. The second also asks that each object has one file
  it can be in (`OneFileEach`): an object of a kind whose scope changes moves to another
  file and is reported both as changed and as removed.
* `CRDsDecideScope` asks that CRDs of one call that define one kind agree; the
  later one counts otherwise, and an empty scope counts as none. CRDs without a name, which
  are not written, count as well.
* What `routing` checks is about documents that are told apart by an `id` (`GivenAssumption`);
  a release has a namespace, and only copied manifests come with ConfigMaps
  (`RoutingAssumption`).
* No object is in a namespace called `cluster` (and no builder's namespace is called
  `system` but in `own_system_namespace`); the code reserves neither name, and both clash
  with the layout of the output.

Every module has a `TypeOK`; where it is in no run of the table, TLC has checked it on
the same instance (`ConfigLoading`, `ChangeReport`, `OutputOwnership`, `PluginLoading`,
`ManifestRouting`).

## 4. The proofs

`GenerateManifestsProofs`, `ManifestRoutingProofs`, `ChartCacheProofs`,
`OutputOwnershipProofs`, `PluginLoadingProofs`, `ConfigLoadingProofs` and
`ChangeReportProofs` prove
for every value of the constants what the runs show on an instance: every invariant and
every action property of the runs that pass, and the refinement. They assume
the named `ASSUME`s of the modules, which TLC evaluates in each run, and what is
written in the theorem. `DataInduction` holds the lemmas on induction they share.

**Generation.** `TypeInv` adds to `TypeOK` how far `next` can be and that an open file
belongs to an object of the job (the index of the current object would
otherwise be out of range). `RunInv` adds `MainInv` (the jobs before `next` are done; past the
last one, the pool is idle) and `GroupInv` (as long as one job of a pooled group has
not been submitted, none has). This gives `GenerateTypes`
and `AlwaysQuietAtTheEnd`; it is also all that `TornFilesAlwaysBlamed` needs: a job that has a file open keeps it
open until it has dumped its object or fails, because no group is submitted twice, and a run that
has failed takes no more steps. `ClaimInv` says that
the objects jobs have written or hold open have claimed paths that are
pairwise different: `NoSharedOpenFile` alone is not inductive because it says
nothing of objects already written. It holds of plans that are not
`Disturbed` (`ClaimInv`, `OpenFilesNeverShared`). `LandInv` says that a written object is on disk unless another
object has its path; with the recording of disjoint path sets
(`RecordedApart`) this gives `EveryDocumentAlwaysLands`, if blocks that write
their own files give each object its own (`OwnFilesDistinct`): no code
could detect otherwise. `FileInv` says that a file with an object of a finished job was
written by a job that has that path; since recorded path sets are disjoint it can only be
the job it is recorded for, whatever happens to the claims: `ConfigsStayApart`.

**Schedules.** That `GenerateManifests` implements
`SequentialGeneration` (`AlwaysSequential`) needs to know how far recording is when the
Namespace objects are written, and that no owned root was written to (`OrderInv`); every
step of the main thread is then one of the sequential run or silent (`MainSteps`), and all
others are silent. `TurnInv` says that whatever runs or is queued is the next
job or in its pooled group; it is inductive because a group is contiguous (`GroupGoesOn`)
and submitted at once (`GroupInv`), and gives `OthersWaitTheirTurn`. `ClashInv` says that while
jobs run every claim was made by one of them (`ClashesAlwaysReal`; `NoSharedOpenFile` needs
undisturbed claims, this does not). `FilesInv` says that what is written or recorded is on disk,
and that once the Namespace objects are recorded no root lacks one: `NamespacesAlwaysExist`.
The Namespace objects go to no owned root either, so nothing recorded lies in one when the cleanup
begins (`OwnedInv`). With the paths recorded for their jobs (`LandInv`) and nothing left
to record (`OrderInv`) this is what `OnlyStaleFilesDisappear` says of the state in which a
file disappears.

**Getting on.** `AlwaysGoesOn` is the part of `Terminates` that needs no fairness: until the run is
over, the main thread has a step (`MainReady`) or a job has (`ThreadReady`). It says so by the guards,
since `ENABLED` is out of the prover's reach; TLC has checked on the instance of `gen_schedules` that
`MainReady` and `ThreadReady` hold exactly where `Main` and `Work` are enabled. It rests on jobs being
cancelled only when the run has failed (`CancelInv`), so that no result waited for is
missing, and on an idle thread always being allowed to take the first job of the queue
(`PoolGoesOn`). What is left to fairness is that steps which are possible are taken.

**Induction.** The library's induction theorems take an operator as a parameter, which no
prover here can instantiate. `SetInduction` says the same of a set, and follows from `<` on the
naturals being well-founded, of which the library has a version without operators. With it
`RecursionExists` shows that functions defined by recursion are what their definitions say, so that what
`Levels`, `WithoutHooks`, `Joined` and `FlattenSeq` compute can be proved, for lists of any depth and
targets with any number of sections.

**Routing.** `NothingReplaced` holds because what is on disk is exactly what is claimed, which no call
forgets. For the rest `RoutingInv` follows the documents of a call: while lists are taken apart, the
objects found and the leaves of what is still to be looked at are what was given (`ExpandInv`);
while they are written, every object still to come is one of those, with the scopes of the call's CRDs
decided, and everything expected has a file or will have one (`WriteInv`); calls that are over have
left a file for everything (`Settled`); and every file is that of an object expected of a call so far,
put where its scope and its namespace say (`Traced`). TLC has checked `RoutingInv` and `ReturnInv` on the
instance of `routing` as well. They give `EveryObjectAlwaysHasAFile`, `ItemsAlwaysFollowTheirList`,
`CRDsAlwaysDecideScope` and `DirectoryIsAlwaysNamespace`. `GivenAssumption` is what they assume of the
runs: documents are told apart by an `id`, which stands for nothing in the code, and only
copied manifests still have Lists where objects are looked for, since others are taken
apart down to `Depth`.

**Cache.** `CacheInv` adds what each pull's staging directory holds at each step (at
`verify`, a whole or a bare chart, because only a clean directory is
unpacked into), that attempts and remaining delays add up, and that a success
has seen a chart. What it says of staging directories (`StagingInv`) and of what gets
installed (`InstallInv`) is about pulls whose files can be removed. All six safety
properties follow.

**Ownership.** `OwnersDisjoint` is not inductive: between reading the declarations
and writing its own a run relies on what it read. `OwnershipInv` says that, one run at
a time, what it took for owned covers what others declare now (`Reads`), and
that what it is about to clear or declare avoids it (`Writes`). From it follow
`OwnersStayDisjoint` and `OnlyUnclaimedIsDeleted`, both assuming `~Overlap` and that
each builder has an owner file of its own (`OwnFiles`, which a namespace called
`system` breaks). Two results need no `~Overlap`, and have an invariant of their own
(`OwnInv`): the types (`OwnershipTypes`, without any assumption) and, from `OwnFiles` alone, that a
builder's owner file lists at most its own root, hence `OnlyOwnDeclarationsAreReplaced`, the
statement that `own_system_namespace` violates without `OwnFiles`.

**Commits.** `CommitInv` says that
the index is HEAD but for what the current run has staged, and that a report is how the
roots of the run differ from HEAD. It needs runs that do not overlap and go on to commit
what they have staged (`CommitsFollow`), an assumption that
`own_staged_leftovers` shows to be necessary. It gives `ReportIsAlwaysTheCommit` and
`CommitsAlwaysStay`: the property that run violates holds of all others.
`TidyInv` says for tidy deployments that a run clears everything its builder declared
and then writes where nobody else has files (`TidyRun`, `Exact`). Why nobody
has: every file on disk is below a declared root or of the current run (`Declared`), and
roots do not overlap (`OwnershipInv`). This gives `CommitsAreExact`. For `DroppedRootsAlwaysLeave` it adds
that what HEAD holds of system generation is in roots declared last (`HeadDeclared`),
none of which others own (`SystemOwned`), so that all of them are staged.

**Plugins.** What a run has loaded (`OwnPluginsOnly`, `NoStalePlugins`) depends on what an
import finds in `sys.modules`, so `LoadInv` says whose modules are there: who holds the
lock (`LockInv`) has purged the package before loading, and until it releases the lock
nothing but its own current modules is there, although anybody may forget modules at any
time (`PurgeInv`); checkouts only go forward (`SourceInv`). `TodoInv` says that a plugin is loaded
or still to do, which gives `NoPluginEverMissing`; `FlagInv` that the flag is set exactly by
the load at work, which gives `FlagAlwaysRestored` and `BytecodeNeverWritten`. `LockInv` also gives
`LoadsAlwaysTakeTurns`, the part of `EveryLoadEnds` that needs no fairness: no failed load leaves
the lock behind. For calls that do
not overlap, `ScopeInv` follows the table of scopes through clearing and updating it
(`AloneAlwaysRoutedByOwnScopes`).

**Config loading.** `LoadInv` adds to `TypeOK` that nothing is given to blocks before a
target is selected (`Early`), that what comes after has a readable top-level file, and
that sections are pending only with a target. A merge has the
variables of both sides with their sources, because it is refused when they share one
(`GraphOfMerged`, `Mergeable`), so the variables of the file being loaded are those of its sources
and stay so in every config (`VarInv`): `VariablesAlwaysHaveOneSource`. `TargetInv` says which kind of
file each way belongs to; with what `declared_targets` says of such a file (`DeclaredByOpenFiles`) this
gives `TargetsAlwaysAgree`. `SectionInv` says how far loading has come: the entries a block has are
those of the sections opened so far, joined in order, and of one section less for a block that the
current section has yet to be handed to; what is pending is the rest of the target's sections
(`SelectedInv`). A section's file is read from one of its two places (`PreferredFile`) and what
`FlattenSeq` makes of the sections is what joining them one by one gives (`FlattenedIsJoined`):
`SectionsAlwaysLoadWhole`. TLC has checked `SectionInv` on the instance of `config_load` as well.

**Report.** `Seen` is the output as the run sees it, without what is ignored.
The report is what became of HEAD in `Seen` (`ReportInv`), and what is staged below the
roots is what is on disk unless it is ignored (`StagedInv`). If no tracked file is ignored, HEAD
after the commit agrees with `Seen` below the roots (`CommitsWhatItSaw`), and a report
depends on nothing else (`ReportsAgree`): `ReportIsCommit`. `RemovedIsGone` needs in addition that a
file holds only what may be written to it, on disk and in HEAD (`WrittenInv`), and that
each object has one file it can be in.

Only model-checked: the liveness properties (`Terminates`, `EveryPullEnds`, `EveryLoadEnds`), since the
prover treats neither fairness nor `ENABLED`, and that the five runs that expect a violation
have one.

## 5. Disagreements between the code and its documentation

Five have a run that exhibits them (`findings` in `PROJECT.json`):

* `gen_removed_count`: stale files are counted after they were unlinked, so the
  summary never mentions any;
* `gen_concurrent_claims`: a second run in the process clears the claims of
  the first, and an object can be silently replaced;
* `plugins_scopes_shared`: declared scopes are one table for the process, so one
  of two concurrent runs routes by the other's declarations;
* `own_staged_leftovers`: a commit takes the whole index, including what a
  killed run of another builder had staged;
* `own_system_namespace`: a namespace builder leaves `owners/<namespace>.toml` out when it
  looks for other claims; for a namespace called `system` that is the declaration of
  system generation, which it overwrites.

Others were met while modelling:

* `own_checkout` with `CommitIsExact` and no `Tidy`: `system.toml` is written last and only
  the roots it lists are cleared, so files of a failed run in a root not yet
  declared survive into a later commit.
* `own_checkout` with `DroppedRootsLeaveHead` and no `Tidy`: a run that declared its roots and then
  failed, or did not commit, makes the next one forget a dropped root; its
  deletion is never committed and HEAD keeps the manifests.
* A root that the config directory's own `owners/` takes over and later gives back is neither cleared
  nor declared by system generation in between, since `system.toml` lists only what the last run
  generated: its old files stay, also in
  commits that declare the root again.
* An empty set of roots stands for the whole output in `get_git_manifest_changes`
  (`roots or {path}`), so a system run without any roots reports the uncommitted
  changes of all others.
* `--namespace` limits what is cleaned up and declared, not where objects are written:
  one whose metadata names another namespace lands there, is not owned and not
  committed.
* Output in roots of other services is detected after it was written, not
  prevented.
* An item of a List whose `namespace` is null or empty is written to the directory of
  the release, not that of its list.
* A tracked file that `.gitignore` matches goes on being tracked and committed, but
  `_files_on_disk` ("files below `prefixes` git would track") skips it: the report calls it
  deleted and its objects removed, although both are still there.
* An object that another replaces in the same file (a new `apiVersion`, say) is not
  reported as removed: removed objects are read from deleted files only.
* `README.md` says that moving a top-level config into a section works unchanged; a file
  that states `version = 1` is rejected there.
* `declared_targets` does not look at the top-level keys of a file of targets, so it
  names targets none of which `generate()` will load if there is an unknown key. Its
  docstring promises agreement on malformed targets only; `DeclaredTargetsAgree` states
  what holds.
* Keys of `images.toml` that differ in dash and underscore silently collide, and so do
  image variables with those of the config, though variables defined twice are
  otherwise an error.
* `_empty_directory` ("so the next one starts clean") ignores errors of `rmtree`; where one occurs, the next
  attempt unpacks over what is left, and `pull_chart` may cache a mix of both.
* Manifests are truncated in place before they are written, so a run that fails leaves torn what
  each of its threads was writing, in place of what an earlier run had put there.
* Configs are validated after the roots of the last run have been cleared: a missing
  source directory leaves the output without its manifests.
* The comment on `CLUSTER_SCOPED_KINDS` speaks of charts "in the run" that define
  a kind; only CRDs of the same call are consulted.

## 6. Not modelled, and why

* YAML text, the Rust extension, manifest ids, helm labels, annotations of large
  CRDs: conversions of content without state; the tests in `tests/test_output.py` and
  `tests/test_fastyaml.py` reach them.
* Positions and wording in config errors, `images.toml`, the resolution of helmfile
  releases (`config.py`); Helmfile, command line, result classes: no state beyond one call.
* Remotes, commit subjects and the check that the config repository is clean
  (`git_utils.py`): reads before the run that change nothing; file modes, symbolic
  links and line-ending conversion in the trees compared.
* Template rendering and the volumes injected into Deployments.
* Other processes that write to the checkout, and two runs that overlap on it
  (`Overlap = TRUE` is in the model but no run uses it: nothing in the code or its
  documentation claims to support it).
* Chart versions: the cache directory is the caller's choice; one key is
  modelled.

## 7. Plan

Done, in this order because the first lose data when wrong:
generation with its abstract specification, the chart cache, ownership and
commits, plugin loading and scopes, routing, then config loading and the report and commit
at the level of files. All invariants and action properties of these are proved.

Next, extending the model:

1. a composition of `ManifestRouting` with `GenerateManifests`: two configs routed
   concurrently;
2. `OutputOwnership` with overlapping runs, to state exactly what is lost;
3. `OutputOwnership` as an abstraction of `ChangeReport`: the trees of the former as those of
   the latter without conflicts and ignore rules.

Next, proofs:

1. that every step of `GenerateManifests` and `ChartCache` but those of others comes nearer the end in a
   well-founded order, which with `AlwaysGoesOn` leaves only fairness to `Terminates`;
2. the abstraction above, `ChangeReport` as a refinement of `OutputOwnership`.
