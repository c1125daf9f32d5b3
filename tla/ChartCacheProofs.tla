-------------------------- MODULE ChartCacheProofs --------------------------
(***************************************************************************)
(* The safety of the chart cache for any number of threads, processes and  *)
(* retries.                                                                *)
(***************************************************************************)
EXTENDS ChartCache, TLAPS

\* What each step of a pull knows of its staging directory, if files can be
\* removed: an attempt starts on an empty one, so that what it unpacks is whole,
\* and only a chart that passed the Chart.yaml check is renamed.
StagingInv ==
    \A p \in Puller \ Unremovable :
        /\ pc[p] \in {"check", "stage", "done", "error"} => staging[p] = "none"
        /\ pc[p] = "attempt" => staging[p] = "empty"
        /\ pc[p] = "verify" => staging[p] \in {"whole", "bare"}
        /\ pc[p] \in {"install", "recover"} => staging[p] = "whole"

\* What is renamed is a chart in any case.
InstallInv ==
    \A p \in Puller : pc[p] \in {"verify", "install"} => staging[p] \in Content

\* A pull has taken one delay for each attempt that failed.
DelaysInv ==
    \A p \in Puller :
        pc[p] \in {"check", "stage", "attempt", "clean"} =>
            attempts[p] + delays[p] = Retries

\* A pull that succeeds has seen a chart in the cache.
SuccessInv ==
    \A p \in Puller : pc[p] \in {"succeed", "done"} => chart # NoChart

CacheInv == TypeOK /\ StagingInv /\ InstallInv /\ DelaysInv /\ SuccessInv /\ CacheIsWhole

\* The invariant holds initially and is kept by every step of every thread, and
\* by the death of a process.
LEMMA CacheInvInductive == Spec => []CacheInv
<1> USE CacheAssumption
<1>1. Init => CacheInv
  BY DEF Init, CacheInv, TypeOK, StagingInv, InstallInv, DelaysInv, SuccessInv,
         CacheIsWhole, Steps, Staging, Content, Resting
<1>2. CacheInv /\ [Next]_vars => CacheInv'
  <2> SUFFICES ASSUME CacheInv, [Next]_vars PROVE CacheInv'
    OBVIOUS
  <2> USE DEF CacheInv, TypeOK, StagingInv, InstallInv, DelaysInv, SuccessInv,
              CacheIsWhole, Steps, Staging, Content, Resting, Goto
  <2>1. ASSUME NEW p \in Puller, Call(p) PROVE CacheInv'
    BY <2>1 DEF Call
  <2>2. ASSUME NEW p \in Puller, Hit(p) PROVE CacheInv'
    BY <2>2 DEF Hit
  <2>3. ASSUME NEW p \in Puller, Miss(p) PROVE CacheInv'
    BY <2>3 DEF Miss
  <2>4. ASSUME NEW p \in Puller, Stage(p) PROVE CacheInv'
    BY <2>4 DEF Stage
  <2>5. ASSUME NEW p \in Puller, Unpack(p) PROVE CacheInv'
    BY <2>5 DEF Unpack
  <2>6. ASSUME NEW p \in Puller, RetryLater(p) PROVE CacheInv'
    BY <2>6 DEF RetryLater, Leftover
  <2>7. ASSUME NEW p \in Puller, GiveUp(p) PROVE CacheInv'
    BY <2>7 DEF GiveUp, Leftover
  <2>8. ASSUME NEW p \in Puller, CleanStaging(p) \/ CleanStagingFails(p)
        PROVE  CacheInv'
    BY <2>8 DEF CleanStaging, CleanStagingFails
  <2>9. ASSUME NEW p \in Puller, Verify(p) PROVE CacheInv'
    BY <2>9 DEF Verify
  <2>10. ASSUME NEW p \in Puller, Install(p) PROVE CacheInv'
    BY <2>10 DEF Install
  <2>11. ASSUME NEW p \in Puller, RenameFails(p) PROVE CacheInv'
    BY <2>11 DEF RenameFails
  <2>12. ASSUME NEW p \in Puller, Recover(p) PROVE CacheInv'
    BY <2>12 DEF Recover
  <2>13. ASSUME NEW p \in Puller, Leave(p) \/ LeaveFails(p) PROVE CacheInv'
    BY <2>13 DEF Leave, LeaveFails
  <2>14. ASSUME NEW q \in Process, Kill(q) PROVE CacheInv'
    BY <2>14 DEF Kill
  <2>15. CASE UNCHANGED vars
    BY <2>15 DEF vars
  <2> QED
    BY <2>1, <2>2, <2>3, <2>4, <2>5, <2>6, <2>7, <2>8, <2>9, <2>10, <2>11,
       <2>12, <2>13, <2>14, <2>15 DEF Next, Step
<1> QED
  BY <1>1, <1>2, PTL DEF Spec

\* Every variable keeps its type; in particular no pull runs helm more than
\* Retries + 1 times.
THEOREM CacheTypes == Spec => []TypeOK
  BY CacheInvInductive, PTL DEF CacheInv

\* However many threads and processes pull, fail, retry or die: what the cache
\* holds is a whole chart, but for pulls whose files could not be removed.
THEOREM CacheAlwaysWhole == Spec => []CacheIsWhole
  BY CacheInvInductive, PTL DEF CacheInv

\* A pull that returns leaves its caller a chart.
THEOREM PullAlwaysReturnsChart == Spec => []PullReturnsChart
<1>1. CacheInv => PullReturnsChart
  BY DEF CacheInv, SuccessInv, PullReturnsChart
<1> QED
  BY <1>1, CacheInvInductive, PTL

\* A pull that has returned or raised has removed its staging directory, if that
\* can be removed at all.
THEOREM NoLitterEver == Spec => []NoLitter
<1>1. CacheInv => NoLitter
  BY DEF CacheInv, StagingInv, NoLitter
<1> QED
  BY <1>1, CacheInvInductive, PTL

\* No attempt without a delay of its own.
THEOREM AttemptsWithinBudget == Spec => []AttemptBudget
<1>1. CacheInv => AttemptBudget
  BY DEF CacheInv, DelaysInv, AttemptBudget
<1> QED
  BY <1>1, CacheInvInductive, PTL

\* A cached chart is never replaced while some thread may read it.
THEOREM CachedChartAlwaysStays == Spec => CachedChartStays
<1>1. [Next]_vars => [chart # NoChart => chart' = chart]_chart
  BY DEF Next, Step, Call, Hit, Miss, Stage, Unpack, RetryLater, GiveUp,
         CleanStaging, CleanStagingFails, Verify, Install, RenameFails, Recover,
         Leave, LeaveFails, Kill, vars
<1> QED
  BY <1>1, PTL DEF Spec, CachedChartStays
=============================================================================
