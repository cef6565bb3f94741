---------------------------- MODULE RoadRoutes -----------------------------
(***************************************************************************)
(* The road routes of the live map in the browser: useOsrmRoute of         *)
(* LiveMap.tsx, its cache and its set of pending keys, for the hooks of    *)
(* the views that call it (SelectedShipmentLayer, SelectedRouteBadge,      *)
(* CheckpointMarker).                                                      *)
(*                                                                         *)
(* A commit of React runs the cleanups of the hooks whose dependencies     *)
(* changed, then their effects one after another; no answer arrives in     *)
(* between.  An abort rejects its call after the commit and before         *)
(* anything else: `dying` holds the keys of such calls, and every other    *)
(* action waits until it is empty.                                         *)
(*                                                                         *)
(* Left out: the geometry and what is drawn of it.                         *)
(***************************************************************************)
EXTENDS Naturals, FiniteSets, Sequences, Domain

CONSTANTS
    Leg,           \* requestKeys: pairs of rounded endpoints
    Hook,          \* calls of useOsrmRoute in the tree
    ViewOf,        \* the component each belongs to: it renders as a whole
    Unstable,      \* hooks whose endpoints are new objects at every render
    Looks,         \* the legs the hooks may want together, for a selected shipment
    MaxRoutes,     \* routes the cache holds
    MaxLooks       \* bound: renders from above

ASSUME RoadRoutesAssumption ==
    /\ Unstable \subseteq Hook /\ Looks \subseteq [Hook -> Leg \cup {Nil}]
    /\ Looks # {} /\ MaxRoutes \in Nat \ {0} /\ MaxLooks \in Nat
    /\ Nil \notin Leg /\ IsFiniteSet(Hook)

VARIABLES
    want,       \* requestKey of each hook, Nil for none or disabled
    resolved,   \* its state: the key an answer came for, and which answer
    hadRoute,   \* whether its last render found the route in the cache
    shown,      \* what its last render returned
    call,       \* the key its controller is for, while the call is under way
    routeCache, \* keys in the order they were set
    pendingRoutes,
    dying,      \* keys of aborted calls that have not been rejected yet
    gaveWay,    \* history: hooks whose last effect found the key pending
    looks       \* history: renders from above so far

roadVars == <<want, resolved, hadRoute, shown, call, routeCache, pendingRoutes, dying, gaveWay, looks>>

Outcome    == [key : Leg \cup {Nil}, status : {"ready", "error"}]
Cached     == {routeCache[i] : i \in DOMAIN routeCache}

RoadTypeOK ==
    /\ want \in [Hook -> Leg \cup {Nil}] /\ call \in [Hook -> Leg \cup {Nil}]
    /\ resolved \in [Hook -> Outcome] /\ hadRoute \in [Hook -> BOOLEAN]
    /\ shown \in [Hook -> {"idle", "loading", "ready", "error"}]
    /\ routeCache \in Seq(Leg) /\ Len(routeCache) <= MaxRoutes
    /\ pendingRoutes \subseteq Leg /\ dying \subseteq Leg
    /\ gaveWay \subseteq Hook /\ looks \in 0..MaxLooks

RoadInit ==
    /\ want = [h \in Hook |-> Nil] /\ call = [h \in Hook |-> Nil]
    /\ resolved = [h \in Hook |-> [key |-> Nil, status |-> "ready"]]
    /\ hadRoute = [h \in Hook |-> FALSE] /\ shown = [h \in Hook |-> "idle"]
    /\ routeCache = <<>> /\ pendingRoutes = {} /\ dying = {}
    /\ gaveWay = {} /\ looks = 0

-----------------------------------------------------------------------------
(* A render, and the commit that follows it *)

InView(h) == {g \in Hook : ViewOf[g] = ViewOf[h]}

\* What the hook returns.
Returned(key, outcome, cached) ==
    CASE key = Nil                       -> "idle"
      [] key # Nil /\ outcome.key = key  -> outcome.status
      [] key # Nil /\ outcome.key # key  -> IF key \in cached THEN "ready" ELSE "loading"

\* Mutant: a hook does not look whether its key is pending.
UnsharedEffects(rerun, wanted, cached, pending, calls) ==
    LET first == {h \in rerun : wanted[h] # Nil /\ wanted[h] \notin cached} IN
    /\ call' = [h \in Hook |-> IF h \in first THEN wanted[h]
                               ELSE IF h \in rerun THEN Nil ELSE calls[h]]
    /\ pendingRoutes' = pending \cup {wanted[h] : h \in first}
    /\ dying' = {calls[h] : h \in rerun} \ {Nil}
    /\ gaveWay' = gaveWay \ rerun

\* The hooks of `rerun` run their effects: first all cleanups, which abort their
\* calls, then one call per key that is neither cached nor pending.
Effects(rerun, wanted, cached, pending, calls) ==
    LET aborted == {calls[h] : h \in rerun} \ {Nil}
        lacking == {h \in rerun : wanted[h] # Nil /\ wanted[h] \notin cached}
        free    == {h \in lacking : wanted[h] \notin pending}
    IN  \E first \in SUBSET free :
            /\ \A k \in {wanted[h] : h \in free} : Cardinality({h \in first : wanted[h] = k}) = 1
            /\ call' = [h \in Hook |-> IF h \in first THEN wanted[h]
                                       ELSE IF h \in rerun THEN Nil ELSE calls[h]]
            /\ pendingRoutes' = pending \cup {wanted[h] : h \in first}
            /\ dying' = aborted
            /\ gaveWay' = (gaveWay \ rerun) \cup (lacking \ first)

\* Mutant: the cached route is not among the dependencies of the effect.
ForgetfulRender(views, changed, wanted, outcomes, cached, pending, calls) ==
    /\ hadRoute' = [h \in Hook |-> IF h \in views THEN wanted[h] \in cached ELSE hadRoute[h]]
    /\ shown' = [h \in Hook |-> IF h \in views THEN Returned(wanted[h], outcomes[h], cached) ELSE shown[h]]
    /\ Effects({h \in views : h \in changed \cup Unstable}, wanted, cached, pending, calls)

\* The hooks of `views` render; an effect runs again when a dependency changed.
Render(views, changed, wanted, outcomes, cached, pending, calls) ==
    /\ hadRoute' = [h \in Hook |-> IF h \in views THEN wanted[h] \in cached ELSE hadRoute[h]]
    /\ shown' = [h \in Hook |-> IF h \in views THEN Returned(wanted[h], outcomes[h], cached) ELSE shown[h]]
    /\ Effects({h \in views : h \in changed \cup Unstable \/ (wanted[h] \in cached) # hadRoute[h]},
               wanted, cached, pending, calls)

\* Another shipment is selected, or the row of this one was loaded again: the
\* points of every view are new objects.
Look(wanted) ==
    /\ dying = {} /\ looks < MaxLooks /\ looks' = looks + 1
    /\ want' = wanted
    /\ Render(Hook, Hook, wanted, resolved, Cached, pendingRoutes, call)
    /\ UNCHANGED <<resolved, routeCache>>

\* The map renders for another reason.
RenderMap ==
    /\ dying = {} /\ looks < MaxLooks /\ looks' = looks + 1
    /\ Render(Hook, {}, want, resolved, Cached, pendingRoutes, call)
    /\ UNCHANGED <<want, resolved, routeCache>>

-----------------------------------------------------------------------------
(* Answers *)

\* cacheRoute
Stored(key) ==
    IF key \in Cached THEN routeCache
    ELSE Append(IF Len(routeCache) >= MaxRoutes THEN Tail(routeCache) ELSE routeCache, key)

\* setResolved makes the view of the hook render.
Settle(h, status, cache) ==
    LET key      == call[h]
        outcomes == [resolved EXCEPT ![h] = [key |-> key, status |-> status]]
        cached   == {cache[i] : i \in DOMAIN cache}
    IN  /\ dying = {} /\ key # Nil
        /\ resolved' = outcomes /\ routeCache' = cache
        /\ Render(InView(h), {}, want, outcomes, cached, pendingRoutes \ {key}, [call EXCEPT ![h] = Nil])
        /\ UNCHANGED <<want, looks>>

RouteAnswers(h) == call[h] # Nil /\ Settle(h, "ready", Stored(call[h]))
RouteFails(h)   == call[h] # Nil /\ Settle(h, "error", routeCache)

\* catch of the calls that were aborted
RejectAborted ==
    /\ dying # {} /\ dying' = {}
    /\ pendingRoutes' = pendingRoutes \ dying
    /\ UNCHANGED <<want, resolved, hadRoute, shown, call, routeCache, gaveWay, looks>>

-----------------------------------------------------------------------------
RoadNext ==
    \/ \E wanted \in Looks : Look(wanted)
    \/ RenderMap \/ RejectAborted
    \/ \E h \in Hook : RouteAnswers(h) \/ RouteFails(h)

RoadSpec == RoadInit /\ [][RoadNext]_roadVars

-----------------------------------------------------------------------------
(* Properties *)

\* "Two hooks requesting the same segment share one call": at no time are two
\* calls for one leg under way, whatever is aborted and rendered in between.
OneCallPerLeg ==
    /\ \A g, h \in Hook : call[g] # Nil /\ call[g] = call[h] => g = h
    /\ \A h \in Hook : call[h] # Nil => call[h] \in pendingRoutes \ dying
    /\ pendingRoutes = dying \cup ({call[h] : h \in Hook} \ {Nil})

\* A hook that shows neither a route nor an error has a call of its own under
\* way for the leg it wants, unless its effect found the leg pending: nothing
\* tells it of another hook's answer, or that the call it aborted itself is gone.
LoadingHasACall ==
    \A h \in Hook : shown[h] = "loading" => call[h] = want[h] \/ h \in gaveWay
=============================================================================
