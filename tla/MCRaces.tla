------------------------------ MODULE MCRaces ------------------------------
(***************************************************************************)
(* Eight components that share no state, side by side in one run: focus    *)
(* names the one that moves.  The questions are about safety: what two     *)
(* requests, two consumers, two views or two refreshes do to each other.   *)
(***************************************************************************)
EXTENDS Alerts, Tenancy, Network, LiveLists, RoadRoutes, ClientSession,
        Screens, AuditExport

VARIABLE focus

mcVars == <<alertsVars, tenancyVars, networkVars, listsVars, roadVars, clientVars,
            screenVars, exportVars, focus>>

\* The alerts are those of a shipment on a route of no days, driven by an administrator.
MCDrivenBy  == [s \in Shipment |-> CHOOSE p \in OrgAdmin : TRUE]
MCNobody    == [s \in Shipment |-> Nil]
MCRouteDays == [s \in Shipment |-> 0]

\* The map shows one checkpoint, and wants the journey and the remaining leg,
\* which are the same before the shipment departs.
MCHook   == {"layerJourney", "layerRemaining", "badgeJourney", "marker"}
MCViewOf == [layerJourney |-> "layer", layerRemaining |-> "layer",
             badgeJourney |-> "badge", marker |-> "marker"]
MCLeg    == {"journey", "remaining", "toCheckpoint"}
MCLooks  == {[layerJourney |-> "journey", layerRemaining |-> "remaining",
              badgeJourney |-> "journey", marker |-> "toCheckpoint"],
             [layerJourney |-> "journey", layerRemaining |-> "journey",
              badgeJourney |-> "journey", marker |-> Nil],
             [h \in MCHook |-> Nil]}

\* The tab is used by one account of each role, and of each kind of organization.
MCAccount   == {"root", "boss", "manager", "sender", "driver", "watcher"}
MCRoleOf    == [root |-> "super_admin", boss |-> "admin", manager |-> "admin",
                sender |-> "shipper", driver |-> "carrier", watcher |-> "regulator"]
MCOrgOf     == [root |-> "platform", boss |-> "ship", manager |-> "haul",
                sender |-> "ship", driver |-> "haul", watcher |-> "state"]
MCOrgTypeOf == [root |-> "regulator", boss |-> "shipper", manager |-> "carrier",
                sender |-> "shipper", driver |-> "carrier", watcher |-> "regulator"]

\* Where a component does not move, one of its initial states is enough.
MCInit ==
    /\ AlertsInit /\ TenancyInit /\ NetworkInit /\ ListsInit /\ RoadInit /\ ClientInit
    /\ ScreensInit /\ ExportInit
    /\ focus \in {"alerts", "tenancy", "network", "lists", "roads", "client", "screens", "export"}
    /\ focus # "tenancy" => mailed = {}
    /\ focus # "export" => auditLog = {}

Others(name) ==
    /\ name # "alerts"  => UNCHANGED alertsVars
    /\ name # "tenancy" => UNCHANGED tenancyVars
    /\ name # "network" => UNCHANGED networkVars
    /\ name # "lists"   => UNCHANGED listsVars
    /\ name # "roads"   => UNCHANGED roadVars
    /\ name # "client"  => UNCHANGED clientVars
    /\ name # "screens" => UNCHANGED screenVars
    /\ name # "export"  => UNCHANGED exportVars

MCNext ==
    /\ UNCHANGED focus
    /\ \/ focus = "alerts"  /\ AlertsNext   /\ Others("alerts")
       \/ focus = "tenancy" /\ TenancyNext  /\ Others("tenancy")
       \/ focus = "network" /\ NetworkNext  /\ Others("network")
       \/ focus = "lists"   /\ ListsNext    /\ Others("lists")
       \/ focus = "roads"   /\ RoadNext     /\ Others("roads")
       \/ focus = "client"  /\ ClientNext   /\ Others("client")
       \/ focus = "screens" /\ ScreensNext  /\ Others("screens")
       \/ focus = "export"  /\ ExportNext   /\ Others("export")

MCSpec == MCInit /\ [][MCNext]_mcVars

\* The rows, queues, queries and locals of the component that moves keep their types.
RacesTypeOK ==
    CASE focus = "alerts"  -> AlertsTypeOK
      [] focus = "tenancy" -> TenancyTypeOK
      [] focus = "network" -> NetworkTypeOK
      [] focus = "lists"   -> ListsTypeOK
      [] focus = "roads"   -> RoadTypeOK
      [] focus = "client"  -> ClientTypeOK
      [] focus = "screens" -> ScreensTypeOK
      [] focus = "export"  -> ExportTypeOK
=============================================================================
