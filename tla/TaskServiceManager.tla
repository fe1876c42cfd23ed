------------------------- MODULE TaskServiceManager -------------------------
(***************************************************************************)
(* osgEarth's TaskServiceManager, one per Registry: task services under    *)
(* unique ids, each with a weight, and a target number of threads that     *)
(* reallocate() shares out among them.                                     *)
(*                                                                         *)
(* add, get, remove and setWeight hold _taskServiceMgrMutex from end to    *)
(* end and are one step each.  getOrAdd is get and then add, two steps     *)
(* between which others may come.  setNumThreads takes no lock: one step   *)
(* here stands for a caller that overlaps it with nothing.  Weights are    *)
(* counted in thousandths, so that the code's 0.001f is 1.                 *)
(***************************************************************************)
EXTENDS Integers, FiniteSetsExt, Functions

CONSTANTS
    Uids,           \* the ids services are kept under
    Callers,        \* the threads that call the manager
    Weights,        \* the weights they give, in thousandths, any sign
    Target,         \* the number the constructor is given
    None,           \* no service
    MaxServices     \* bound: services ever made

ASSUME ManagerAssumptions ==
    /\ Weights \subseteq Int
    /\ Target \in Nat
    /\ MaxServices \in Nat
    /\ None \notin 1 .. MaxServices

Services == 1 .. MaxServices

VARIABLES
    services,       \* _services: the service under each id, or None
    weight,         \* the weight of the service under each id
    threads,        \* TaskService::_numThreads of every service ever made
    made,           \* how many services were made
    numThreads,     \* _numThreads
    targetThreads,  \* _targetNumThreads
    pc, arg, ret    \* getOrAdd of each caller: where it is, id, what it returned

registry == <<services, weight, threads, made, numThreads, targetThreads>>
callers == <<pc, arg, ret>>
vars == <<registry, callers>>

Init ==
    /\ services = [u \in Uids |-> None]
    /\ weight = [u \in Uids |-> 0]
    /\ threads = [s \in Services |-> 0]
    /\ made = 0
    /\ numThreads = 0
    /\ targetThreads = Target
    /\ pc = [c \in Callers |-> "idle"]
    /\ arg = [c \in Callers |-> None]
    /\ ret = [c \in Callers |-> None]

\* Mutant: weights are taken as they come.
ClampNothing(w) == w

\* if ( weight <= 0.0f ) weight = 0.001;
Clamp(w) == IF w <= 0 THEN 1 ELSE w

Managed(sv) == {u \in Uids : sv[u] # None}

\* The weight of all services together.
TotalWeight(sv, wt) == SumFunctionOnSet(wt, Managed(sv))

\* Mutant: the share is rounded up.
ShareRoundedUp(sv, wt, u) ==
    LET total == TotalWeight(sv, wt)
    IN  Max({1, (targetThreads * wt[u] + total - 1) \div total})

\* The share of the target that the service under u gets, rounded down, but
\* at least one thread.
Share(sv, wt, u) == Max({1, (targetThreads * wt[u]) \div TotalWeight(sv, wt)})

\* reallocate(): the parameter is not looked at.  Services that are no longer
\* managed keep their threads.
Reallocate(sv, wt) ==
    /\ services' = sv
    /\ weight' = wt
    /\ threads' = [s \in Services |->
                     IF \E u \in Managed(sv) : sv[u] = s
                     THEN Share(sv, wt, CHOOSE u \in Managed(sv) : sv[u] = s)
                     ELSE threads[s]]
    /\ numThreads' = SumFunction([u \in Managed(sv) |-> Share(sv, wt, u)])
    /\ UNCHANGED targetThreads

\* reallocate() never looks at its argument, the new target, which is lost.
SetNumThreads ==
    /\ Reallocate(services, weight)
    /\ UNCHANGED <<made, callers>>

\* Mutant: add() does not look for the id again.
AddAlwaysNew(u, w) ==
    /\ made < MaxServices
    /\ made' = made + 1
    /\ Reallocate([services EXCEPT ![u] = made + 1], [weight EXCEPT ![u] = Clamp(w)])

\* add(): an id already known gets the new weight, another a new service.
Add(u, w) ==
    IF services[u] # None
    THEN /\ Reallocate(services, [weight EXCEPT ![u] = Clamp(w)])
         /\ UNCHANGED made
    ELSE /\ made < MaxServices
         /\ made' = made + 1
         /\ Reallocate([services EXCEPT ![u] = made + 1],
                       [weight EXCEPT ![u] = Clamp(w)])

\* getOrAdd: get().  A service that is there is returned.
GetOrAddGet(c, u) ==
    /\ pc[c] = "idle"
    /\ IF services[u] # None
       THEN ret' = [ret EXCEPT ![c] = services[u]] /\ UNCHANGED <<pc, arg>>
       ELSE /\ pc' = [pc EXCEPT ![c] = "add"]
            /\ arg' = [arg EXCEPT ![c] = u]
            /\ UNCHANGED ret
    /\ UNCHANGED registry

\* getOrAdd: add(), if get() found nothing.
GetOrAddAdd(c, w) ==
    /\ pc[c] = "add"
    /\ Add(arg[c], w)
    /\ ret' = [ret EXCEPT ![c] = services'[arg[c]]]
    /\ pc' = [pc EXCEPT ![c] = "idle"]
    /\ arg' = [arg EXCEPT ![c] = None]

\* A caller that does not look first.
AddDirectly(u, w) == Add(u, w) /\ UNCHANGED callers

\* Mutant: the service goes, and the shares stay.
RemoveUnshared(u) ==
    /\ services' = [services EXCEPT ![u] = None]
    /\ weight' = [weight EXCEPT ![u] = 0]
    /\ UNCHANGED <<threads, numThreads, targetThreads>>

\* remove( UID ) erases what is there and shares out in any case; callers that
\* hold the service keep it alive.
RemoveUid(u) == Reallocate([services EXCEPT ![u] = None], [weight EXCEPT ![u] = 0])

Remove(u) ==
    /\ RemoveUid(u)
    /\ UNCHANGED <<made, callers>>

\* remove( TaskService* ) and setWeight look the service up and do nothing for
\* one that is not managed.  (A removed id has no weight.)
RemoveService(s) ==
    \E u \in Managed(services) : services[u] = s /\ Remove(u)

\* Mutant: the weight waits for the next reallocation.
SetWeightUnshared(s, w) ==
    /\ \E u \in Managed(services) :
          services[u] = s /\ weight' = [weight EXCEPT ![u] = Clamp(w)]
    /\ UNCHANGED <<services, threads, made, numThreads, targetThreads, callers>>

SetWeight(s, w) ==
    /\ \E u \in Managed(services) :
          services[u] = s /\ Reallocate(services, [weight EXCEPT ![u] = Clamp(w)])
    /\ UNCHANGED <<made, callers>>

Next ==
    \/ \E c \in Callers : \/ \E u \in Uids : GetOrAddGet(c, u)
                          \/ \E w \in Weights : GetOrAddAdd(c, w)
    \/ \E u \in Uids : \/ Remove(u)
                       \/ \E w \in Weights : AddDirectly(u, w)
    \/ \E s \in Services : \/ RemoveService(s)
                           \/ \E w \in Weights : SetWeight(s, w)
    \/ SetNumThreads

Spec == Init /\ [][Next]_vars

-----------------------------------------------------------------------------
(* Properties                                                              *)

\* Type invariant.
TypeOK ==
    /\ services \in [Uids -> Services \union {None}]
    /\ weight \in [Uids -> Nat]
    /\ threads \in [Services -> Nat]
    /\ made \in 0 .. MaxServices
    /\ numThreads \in Nat
    /\ targetThreads \in Nat
    /\ pc \in [Callers -> {"idle", "add"}]
    /\ arg \in [Callers -> Uids \union {None}]
    /\ ret \in [Callers -> Services \union {None}]

\* getNumThreads() is what the managed services really have, each at least
\* one, after any order of adds, removals and new weights.
CountIsExact ==
    /\ numThreads = SumFunction([u \in Managed(services) |-> threads[services[u]]])
    /\ \A u \in Managed(services) : threads[services[u]] >= 1

\* "The actual thread count may be higher since each service is guaranteed at
\* least one thread": it is higher than the target for that reason only.
CountWithinTarget ==
    LET lifted == {u \in Managed(services) : threads[services[u]] = 1}
    IN  numThreads <= targetThreads + Cardinality(lifted)

\* A service of more weight never has fewer threads.
WeightsAreRespected ==
    \A u, v \in Managed(services) :
        weight[u] >= weight[v] => threads[services[u]] >= threads[services[v]]

\* Callers of getOrAdd for one id share one service as long as it is managed,
\* though get() and add() are two steps: a service some caller was given is
\* never replaced under its id while another caller adds.
ServicesAreShared ==
    [][\A u \in Uids : services[u] # None => services'[u] \in {services[u], None}]_vars
=============================================================================
