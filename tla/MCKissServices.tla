--------------------------- MODULE MCKissServices ---------------------------
(***************************************************************************)
(* An instance of KissManager and KissDns side by side: three releases and *)
(* a few of each fault for the manager; two boxes, a deleted or emptied    *)
(* one, a failing watch and a crash for the DNS server.  They share        *)
(* nothing, so each is disturbed while the other goes on undisturbed, and  *)
(* both keep running.                                                      *)
(***************************************************************************)
EXTENDS KissManager, KissDns

Faults  == [release |-> 3, restart |-> 2, podfail |-> 2]
Outages == [delete |-> 1, error |-> 1, crash |-> 1]

(* The manager at its ease: every version is the first, and nothing happened. *)
Calm ==
    /\ feed = 1 /\ cluster = 1 /\ config = 1 /\ jobs = {}
    /\ troubles = [f \in Trouble |-> 0]

(* The DNS server has seen no box, and nothing happened to it. *)
Empty ==
    /\ addr = [b \in Box |-> Absent]
    /\ spent = [f \in Fault |-> 0]

ServicesInit == ManagerInit /\ Init

ServicesNext ==
    \/ ManagerNext /\ UNCHANGED vars /\ (troubles' # troubles => Empty)
    \/ Next /\ UNCHANGED managerVars /\ (<<addr, spent>>' # <<addr, spent>> => Calm)

ServicesSpec ==
    /\ ServicesInit
    /\ [][ServicesNext]_<<managerVars, vars>>
    /\ ManagerFairness /\ WF_vars(Reloader)
=============================================================================
