---------------------------- MODULE KissManager ----------------------------
(***************************************************************************)
(* The manager that upgrades KISS (crates/kiss/manager): every five        *)
(* minutes it reads the latest release, settles the upgrade Job, if there  *)
(* is one, against the version recorded in the ConfigMap "manager", and    *)
(* creates the next Job.  Every API error ends the process, which          *)
(* Kubernetes restarts, so a Restart may come between any two calls; there *)
(* is one process.                                                         *)
(*                                                                         *)
(* The release feed, the Jobs and the version the cluster really runs are  *)
(* external.  A Job is named after its target version.                     *)
(***************************************************************************)
EXTENDS Naturals, FiniteSets

CONSTANTS
    MaxVersion,   \* the bound on release versions, which are numbered from 1
    Unset,        \* the ConfigMap does not exist
    MaxTroubles   \* MaxTroubles[f]: how often f happens: a release is published or
                  \* withdrawn, the manager restarts, a pod of a Job fails

Version == 1 .. MaxVersion
Trouble == {"release", "restart", "podfail"}

ASSUME ManagerAssumption ==
    /\ MaxVersion \in Nat \ {0}
    /\ Unset \notin Version
    /\ MaxTroubles \in [Trouble -> Nat]

VARIABLES
    feed,      \* the latest official release
    config,    \* the recorded version, or Unset
    jobs,      \* the upgrade Jobs
    cluster,   \* the version the cluster runs
    pc,        \* the manager's next call
    latest,    \* what the feed said in this round
    seen,      \* the finished Job the manager has listed
    troubles   \* troubles[f]: how often f has happened

managerVars == <<feed, config, jobs, cluster, pc, latest, seen, troubles>>

(* succeeded and failed are counters of pods in the Job's status; backoff_limit
   30 lets a Job with failed pods go on. *)
Job == [source : Version, target : Version, succeeded : BOOLEAN, failed : BOOLEAN]
PC  == {"sleep", "list", "delete", "patch", "read", "create", "upgrade"}

Spawned(current, new) ==
    [source |-> current, target |-> new, succeeded |-> FALSE, failed |-> FALSE]

Nothing == [source |-> 1, target |-> 1, succeeded |-> FALSE, failed |-> FALSE]

Finished(j) == j.succeeded \/ j.failed

Strikes(f) ==
    /\ troubles[f] < MaxTroubles[f]
    /\ troubles' = [troubles EXCEPT ![f] = @ + 1]

ManagerInit ==
    /\ feed \in Version
    /\ config = Unset
    /\ jobs = {}
    /\ cluster \in Version
    /\ pc = "sleep"
    /\ latest = 1
    /\ seen = Nothing
    /\ troubles = [f \in Trouble |-> 0]

-----------------------------------------------------------------------------
(* sync_cluster, call by call *)

GetLatest ==
    /\ pc = "sleep"
    /\ latest' = feed
    /\ pc' = "list"
    /\ UNCHANGED <<feed, config, jobs, cluster, seen, troubles>>

(* Mutant: a Job that is still running does not hold up the next one. *)
UpdateJobStatusIgnoresRunning ==
    /\ pc = "list"
    /\ IF \E j \in jobs : Finished(j)
       THEN \E j \in jobs : Finished(j) /\ seen' = j /\ pc' = "delete"
       ELSE pc' = "read" /\ UNCHANGED seen
    /\ UNCHANGED <<feed, config, jobs, cluster, latest, troubles>>

(* update_job_status up to its first change: no Job; a finished one; one that
   is running, which ends the round; several, which end the process. *)
UpdateJobStatus ==
    /\ pc = "list"
    /\ \/ jobs = {} /\ pc' = "read" /\ UNCHANGED seen
       \/ \E j \in jobs :
             /\ jobs = {j}
             /\ IF Finished(j)
                THEN seen' = j /\ pc' = "delete"
                ELSE pc' = "sleep" /\ UNCHANGED seen
       \/ Cardinality(jobs) > 1 /\ pc' = "sleep" /\ UNCHANGED seen
    /\ UNCHANGED <<feed, config, jobs, cluster, latest, troubles>>

(* Mutant: a failed Job is taken for a completed one. *)
DeleteJobTakesFailed ==
    /\ pc = "delete"
    /\ jobs' = {j \in jobs : j.target # seen.target}
    /\ pc' = "patch"
    /\ UNCHANGED <<feed, config, cluster, latest, seen, troubles>>

(* The Job is deleted by name, whatever has become of it since it was listed.
   Its pods may get the upgrade done while they are being terminated. *)
DeleteJob ==
    /\ pc = "delete"
    /\ jobs' = {j \in jobs : j.target # seen.target}
    /\ \/ UNCHANGED cluster
       \/ \E j \in jobs : /\ j.target = seen.target
                          /\ ~j.succeeded
                          /\ cluster' = j.target
    /\ pc' = IF seen.succeeded THEN "patch" ELSE "read"
    /\ UNCHANGED <<feed, config, latest, seen, troubles>>

PatchVersion ==
    /\ pc = "patch"
    /\ config' = seen.target
    /\ pc' = "read"
    /\ UNCHANGED <<feed, jobs, cluster, latest, seen, troubles>>

(* Mutant: any difference is an upgrade. *)
Differs(new, current) == new # current

(* latest.cmp(&current): Ordering::Greater *)
Newer(new, current) == new > current

(* get_version after the Jobs are settled, and the comparison *)
GetVersion ==
    /\ pc = "read"
    /\ pc' = IF config = Unset THEN "create"
             ELSE IF Newer(latest, config) THEN "upgrade"
             ELSE "sleep"
    /\ UNCHANGED <<feed, config, jobs, cluster, latest, seen, troubles>>

CreateConfig ==
    /\ pc = "create"
    /\ config' = latest
    /\ pc' = "sleep"
    /\ UNCHANGED <<feed, jobs, cluster, latest, seen, troubles>>

(* The name of the Job conflicts with one of the same target. *)
Upgrade ==
    /\ pc = "upgrade"
    /\ jobs' = IF \E j \in jobs : j.target = latest THEN jobs
               ELSE jobs \union {Spawned(config, latest)}
    /\ pc' = "sleep"
    /\ UNCHANGED <<feed, config, cluster, latest, seen, troubles>>

(* A call fails, done or not, or the process is killed. *)
Restart ==
    /\ pc # "sleep"
    /\ Strikes("restart")
    /\ pc' = "sleep"
    /\ UNCHANGED <<feed, config, jobs, cluster, latest, seen>>

-----------------------------------------------------------------------------
(* The release feed and the Jobs *)

Release ==
    /\ Strikes("release")
    /\ feed' \in Version \ {feed}
    /\ UNCHANGED <<config, jobs, cluster, pc, latest, seen>>

JobSucceeds ==
    \E j \in jobs :
        /\ ~j.succeeded
        /\ jobs' = (jobs \ {j}) \union {[j EXCEPT !.succeeded = TRUE]}
        /\ cluster' = j.target
        /\ UNCHANGED <<feed, config, pc, latest, seen, troubles>>

PodFails ==
    \E j \in jobs :
        /\ ~Finished(j)
        /\ Strikes("podfail")
        /\ jobs' = (jobs \ {j}) \union {[j EXCEPT !.failed = TRUE]}
        /\ UNCHANGED <<feed, config, cluster, pc, latest, seen>>

Manager ==
    \/ GetLatest
    \/ UpdateJobStatus
    \/ DeleteJob
    \/ PatchVersion
    \/ GetVersion
    \/ CreateConfig
    \/ Upgrade

ManagerNext ==
    \/ Manager
    \/ Restart
    \/ Release
    \/ JobSucceeds
    \/ PodFails

ManagerSpec == ManagerInit /\ [][ManagerNext]_managerVars

(* The loop never ends, and a Job whose pods stop failing gets there. *)
ManagerFairness == WF_managerVars(Manager) /\ WF_managerVars(JobSucceeds)

-----------------------------------------------------------------------------
(* Every variable has the shape its Rust or Kubernetes type gives it. *)
ManagerTypeOK ==
    /\ feed \in Version
    /\ config \in Version \union {Unset}
    /\ jobs \in SUBSET Job
    /\ cluster \in Version
    /\ pc \in PC
    /\ latest \in Version
    /\ seen \in Job
    /\ troubles \in [Trouble -> Nat]

(* There are never two upgrade Jobs: the "upgrade job conflict", which no round
   gets out of, does not happen to a single manager, whenever it restarts. *)
OneUpgrade == \A j, k \in jobs : j = k

(* The recorded version never falls, although releases can be withdrawn while an
   upgrade to them is under way and the version is parsed from an old Job. *)
RecordedRises == [][config # Unset => config' # Unset /\ config' >= config]_config

(* A version is recorded for an upgrade only if the cluster runs it. *)
UpgradeRecorded == [][config # Unset => config' = cluster]_config

ClusterThere == config # Unset /\ cluster >= config

(* When the releases stop changing, the record reaches the latest one, and the
   cluster does, whatever was lost on the way; a restart between deleting a Job and
   recording its version costs another upgrade.  The one record that promises
   nothing of the cluster is the first: a manager that finds no ConfigMap takes the
   latest release for the current version, and upgrades from there. *)
CatchesUp ==
    \A v \in Version : <>[](feed = v) =>
        /\ <>[](config # Unset /\ config >= v)
        /\ \A first \in Version :
              <>(config = first) => <>[](config = first \/ ClusterThere)

(* "no changes are applied": a Job that the manager gives up as failed has not
   done the upgrade.  It does not hold: a Job with one failed pod may still get
   there, before or while it is deleted. *)
GivenUpHasFailed ==
    [][DeleteJob /\ ~seen.succeeded =>
          \A j \in jobs : j.target = seen.target => ~j.succeeded]_managerVars
=============================================================================
