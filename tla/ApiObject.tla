------------------------------ MODULE ApiObject ------------------------------
(***************************************************************************)
(* One resource as the operator sees it through controller-runtime's       *)
(* client: writes go to the API server, reads are served by an informer    *)
(* cache that lags behind it.  Both reconcilers share these definitions.   *)
(***************************************************************************)
EXTENDS Naturals, Sequences

CONSTANT
    MaxLag     \* how many versions the informer cache may be behind

ASSUME MaxLagAssumption == MaxLag \in Nat \ {0}

VARIABLE
    objs       \* versions of the object not yet superseded in the cache:
               \* objs[1] is what the cache serves, the last what the server holds

Cached == objs[1]
Server == objs[Len(objs)]
CacheIsCurrent == Len(objs) = 1

\* The versions a reader may still meet.
InFlight == {objs[i] : i \in 1 .. Len(objs)}

\* controllerutil.ContainsFinalizer(object, "delete")
HasFinalizer(m) == "delete" \in m.finalizers

\* A write based on the cached copy: the server accepts it only when the copy
\* is its newest version.  The server answers with the new version.
Put(version) == CacheIsCurrent /\ objs' = Append(objs, version)

\* A merge patch carries no resourceVersion: it applies to the newest version.
Patch(version) == Len(objs) <= MaxLag /\ objs' = Append(objs, version)
=============================================================================
