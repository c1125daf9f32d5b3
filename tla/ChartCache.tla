----------------------------- MODULE ChartCache -----------------------------
(***************************************************************************)
(* pull_chart(): threads of several processes pull the same chart into one *)
(* cache directory.  helm unpacks into a staging directory of the pull's   *)
(* own, a failed attempt is retried while delays are left, and a complete  *)
(* chart is renamed into place.  A process may be killed between any two   *)
(* steps, leaving its staging directories behind.                          *)
(***************************************************************************)
EXTENDS Naturals, FiniteSets

CONSTANTS
    Puller,      \* the threads that pull
    Process,     \* the processes they run in
    ProcessOf,   \* ProcessOf[p]: the process of thread p
    Retries,     \* how many delays PULL_RETRY_DELAYS_SECONDS holds
    Crashes,     \* may a process be killed?
    Unremovable, \* the threads whose files the file system may refuse to remove
    NoChart      \* the value of `chart` while no chart is cached

ASSUME CacheAssumption ==
    /\ ProcessOf \in [Puller -> Process]
    /\ Retries \in Nat
    /\ Crashes \in BOOLEAN
    /\ Unremovable \subseteq Puller
    /\ NoChart \notin [by : Puller, content : {"bare", "mixed", "whole"}]

VARIABLES
    chart,     \* the cached chart: who installed it, and what it holds
    pc,        \* pc[p]: the step pull p is at
    staging,   \* staging[p]: what p's staging directory holds
    delays,    \* delays[p]: how many retry delays p has left
    attempts   \* attempts[p]: how often p has run helm pull

vars == <<chart, pc, staging, delays, attempts>>

\* none: no directory; empty: nothing in it; bare: a chart directory without
\* Chart.yaml; mixed: files of two attempts, or of an attempt cut short, with
\* a Chart.yaml; whole: the complete chart.
Content == {"bare", "mixed", "whole"}
Staging == {"none", "empty"} \cup Content
Steps == {"idle", "check", "stage", "attempt", "clean", "verify", "install",
          "recover", "succeed", "fail", "done", "error", "killed"}
Resting == {"idle", "done", "error", "killed"}

Init ==
    /\ chart = NoChart
    /\ pc = [p \in Puller |-> "idle"]
    /\ staging = [p \in Puller |-> "none"]
    /\ delays = [p \in Puller |-> Retries]
    /\ attempts = [p \in Puller |-> 0]

Goto(p, step) == pc' = [pc EXCEPT ![p] = step]

\* A config calls pull_chart, in this run or a later one.  What an earlier pull
\* of the thread has left is nobody's staging directory any more.
Call(p) ==
    /\ pc[p] \in Resting
    /\ Goto(p, "check")
    /\ delays' = [delays EXCEPT ![p] = Retries]
    /\ attempts' = [attempts EXCEPT ![p] = 0]
    /\ staging' = [staging EXCEPT ![p] = "none"]
    /\ UNCHANGED chart

\* chart_dir.exists(): a hit needs no pull.
Hit(p) ==
    /\ pc[p] = "check"
    /\ chart # NoChart
    /\ Goto(p, "done")
    /\ UNCHANGED <<chart, staging, delays, attempts>>

Miss(p) ==
    /\ pc[p] = "check"
    /\ chart = NoChart
    /\ Goto(p, "stage")
    /\ UNCHANGED <<chart, staging, delays, attempts>>

\* TemporaryDirectory(prefix=".pull-", dir=dest)
Stage(p) ==
    /\ pc[p] = "stage"
    /\ staging' = [staging EXCEPT ![p] = "empty"]
    /\ Goto(p, "attempt")
    /\ UNCHANGED <<chart, delays, attempts>>
-----------------------------------------------------------------------------
(* One run of helm pull. *)

\* helm exits with 0.  What it unpacked over an earlier attempt's files is a
\* mix; a chart archive of another name leaves no Chart.yaml where it is looked
\* for.
Unpack(p) ==
    /\ pc[p] = "attempt"
    /\ attempts' = [attempts EXCEPT ![p] = @ + 1]
    /\ \E got \in {IF staging[p] = "empty" THEN "whole" ELSE "mixed", "bare"} :
          staging' = [staging EXCEPT ![p] = got]
    /\ Goto(p, "verify")
    /\ UNCHANGED <<chart, delays>>

\* What a failed or killed helm may leave in the staging directory.
Leftover(p) == {staging[p], "bare", "mixed"}

\* Mutant of RetryLater: it runs past the last delay.
RetryLater_PastLast(p) ==
    /\ pc[p] = "attempt"
    /\ attempts' = [attempts EXCEPT ![p] = @ + 1]
    /\ delays' = [delays EXCEPT ![p] = IF @ > 0 THEN @ - 1 ELSE 0]
    /\ \E left \in Leftover(p) : staging' = [staging EXCEPT ![p] = left]
    /\ Goto(p, "clean")
    /\ UNCHANGED <<chart>>

\* A failure that can clear, or a timeout: take the next delay.
RetryLater(p) ==
    /\ pc[p] = "attempt"
    /\ delays[p] > 0
    /\ attempts' = [attempts EXCEPT ![p] = @ + 1]
    /\ delays' = [delays EXCEPT ![p] = @ - 1]
    /\ \E left \in Leftover(p) : staging' = [staging EXCEPT ![p] = left]
    /\ Goto(p, "clean")
    /\ UNCHANGED <<chart>>

\* No delay is left, or helm says that trying again cannot help.
GiveUp(p) ==
    /\ pc[p] = "attempt"
    /\ attempts' = [attempts EXCEPT ![p] = @ + 1]
    /\ delays' = [delays EXCEPT ![p] = IF @ > 0 THEN @ - 1 ELSE 0]
    /\ \E left \in Leftover(p) : staging' = [staging EXCEPT ![p] = left]
    /\ Goto(p, "fail")
    /\ UNCHANGED <<chart>>

\* Mutant of CleanStaging: the next attempt unpacks over the last one's files.
CleanStaging_Nothing(p) ==
    /\ pc[p] = "clean"
    /\ Goto(p, "attempt")
    /\ UNCHANGED <<chart, staging, delays, attempts>>

\* _empty_directory, then the delay.
CleanStaging(p) ==
    /\ pc[p] = "clean"
    /\ staging' = [staging EXCEPT ![p] = "empty"]
    /\ Goto(p, "attempt")
    /\ UNCHANGED <<chart, delays, attempts>>

\* Something cannot be removed: rmtree passes over it, unlink raises.
CleanStagingFails(p) ==
    /\ pc[p] = "clean"
    /\ p \in Unremovable
    /\ staging[p] # "empty"
    /\ \E step \in {"attempt", "fail"} : Goto(p, step)
    /\ UNCHANGED <<chart, staging, delays, attempts>>
-----------------------------------------------------------------------------
(* Installing what was unpacked. *)

\* Only a Chart.yaml shows that the chart landed.
Verify(p) ==
    /\ pc[p] = "verify"
    /\ Goto(p, IF staging[p] = "bare" THEN "fail" ELSE "install")
    /\ UNCHANGED <<chart, staging, delays, attempts>>

\* Mutant of Install: a chart that is already there is replaced.
Install_Replaces(p) ==
    /\ pc[p] = "install"
    /\ chart' = [by |-> p, content |-> staging[p]]
    /\ staging' = [staging EXCEPT ![p] = "empty"]
    /\ Goto(p, "succeed")
    /\ UNCHANGED <<delays, attempts>>

\* unpacked.rename(chart_dir) onto nothing.
Install(p) ==
    /\ pc[p] = "install"
    /\ chart = NoChart
    /\ chart' = [by |-> p, content |-> staging[p]]
    /\ staging' = [staging EXCEPT ![p] = "empty"]
    /\ Goto(p, "succeed")
    /\ UNCHANGED <<delays, attempts>>

\* The rename raises OSError: a chart is there already, or the file system
\* refuses.
RenameFails(p) ==
    /\ pc[p] = "install"
    /\ Goto(p, "recover")
    /\ UNCHANGED <<chart, staging, delays, attempts>>

\* Mutants of Recover: every OSError is taken for a concurrent pull; the pull
\* waits for the concurrent one to finish.
Recover_Unchecked(p) ==
    /\ pc[p] = "recover"
    /\ Goto(p, "succeed")
    /\ UNCHANGED <<chart, staging, delays, attempts>>

Recover_Waits(p) ==
    /\ pc[p] = "recover"
    /\ chart # NoChart
    /\ Goto(p, "succeed")
    /\ UNCHANGED <<chart, staging, delays, attempts>>

\* Use the chart a concurrent pull installed, if there is one.
Recover(p) ==
    /\ pc[p] = "recover"
    /\ Goto(p, IF chart # NoChart THEN "succeed" ELSE "fail")
    /\ UNCHANGED <<chart, staging, delays, attempts>>

\* Mutant of Leave: a failed pull keeps its staging directory.
Leave_OnSuccess(p) ==
    /\ pc[p] \in {"succeed", "fail"}
    /\ staging' = [staging EXCEPT ![p] = IF pc[p] = "succeed" THEN "none" ELSE @]
    /\ Goto(p, IF pc[p] = "succeed" THEN "done" ELSE "error")
    /\ UNCHANGED <<chart, delays, attempts>>

\* The with block removes the staging directory on the way out.
Leave(p) ==
    /\ pc[p] \in {"succeed", "fail"}
    /\ staging' = [staging EXCEPT ![p] = "none"]
    /\ Goto(p, IF pc[p] = "succeed" THEN "done" ELSE "error")
    /\ UNCHANGED <<chart, delays, attempts>>

\* It cannot be removed: the pull raises, whether or not it has a chart.
LeaveFails(p) ==
    /\ pc[p] \in {"succeed", "fail"}
    /\ p \in Unremovable
    /\ Goto(p, "error")
    /\ UNCHANGED <<chart, staging, delays, attempts>>
-----------------------------------------------------------------------------
Step(p) ==
    \/ Hit(p) \/ Miss(p) \/ Stage(p)
    \/ Unpack(p) \/ RetryLater(p) \/ GiveUp(p)
    \/ CleanStaging(p) \/ CleanStagingFails(p)
    \/ Verify(p) \/ Install(p) \/ RenameFails(p) \/ Recover(p)
    \/ Leave(p) \/ LeaveFails(p)

\* A process is killed: nothing of its pulls is cleaned up.
Kill(q) ==
    /\ Crashes
    /\ \E p \in Puller : ProcessOf[p] = q /\ pc[p] \notin Resting
    /\ LET hit == {p \in Puller : ProcessOf[p] = q /\ pc[p] \notin Resting}
       IN  pc' = [p \in Puller |-> IF p \in hit THEN "killed" ELSE pc[p]]
    /\ UNCHANGED <<chart, staging, delays, attempts>>

Next == (\E p \in Puller : Call(p) \/ Step(p)) \/ (\E q \in Process : Kill(q))

\* A thread that has begun a pull goes on with it: helm pull is given 120
\* seconds, a delay at most 20.  No one has to call pull_chart or be killed.
Spec == Init /\ [][Next]_vars /\ \A p \in Puller : WF_vars(Step(p))
-----------------------------------------------------------------------------
TypeOK ==
    /\ chart \in {NoChart} \cup [by : Puller, content : Content]
    /\ pc \in [Puller -> Steps]
    /\ staging \in [Puller -> Staging]
    /\ delays \in [Puller -> 0..Retries]
    /\ attempts \in [Puller -> 0..(Retries + 1)]

\* What the cache holds was unpacked whole by one successful attempt: neither a
\* failed attempt, nor a killed process, nor two pulls at once leave a partial
\* chart that a later run takes for a cached one.  (Only where the file system
\* keeps what a failed attempt left can the next one have unpacked over it.)
CacheIsWhole ==
    chart # NoChart => chart.content = "whole" \/ chart.by \in Unremovable

\* A pull that returns leaves its caller a chart to use.
PullReturnsChart == \A p \in Puller : pc[p] = "done" => chart # NoChart

\* A cached chart is never replaced under a thread that is reading it.
CachedChartStays == [][chart # NoChart => chart' = chart]_chart

\* A pull that has returned or raised leaves no staging directory behind; only a
\* killed process does, or a file system that refuses to remove it.
NoLitter ==
    \A p \in Puller \ Unremovable :
        pc[p] \in {"done", "error"} => staging[p] = "none"

\* "up to five attempts": no retry without a delay of its own, and the attempts
\* of one pull never exceed the delays by more than one, over all its failures.
AttemptBudget ==
    \A p \in Puller : pc[p] \in {"attempt", "clean"} =>
        attempts[p] + delays[p] = Retries

\* A pull that has begun returns or raises, unless its process is killed.
EveryPullEnds ==
    \A p \in Puller : pc[p] = "check" ~> pc[p] \in Resting
=============================================================================
