---------------------------- MODULE ConsolePages ----------------------------
(***************************************************************************)
(* The pages of the web console that list what one cluster reports, and    *)
(* the drawers that show one item of a list: for each, the part of its     *)
(* code that decides which cluster's answer is on the screen.              *)
(*                                                                         *)
(* React rebuilds a fetch function when one of its dependencies changes    *)
(* (useCallback); until then the function asks with the values of the      *)
(* render that built it.  A change of the function starts a fetch and      *)
(* restarts the refresh timer.                                             *)
(***************************************************************************)

Dependencies == {"cluster", "filter", "language"}

(* A drawer asks for one item; its function is rebuilt for another item,   *)
(* and for the dependencies "rebuilt".  "asksNothing": without a cluster   *)
(* it does not ask.  "acts": it sends commands about the item, and asks    *)
(* again two seconds after one was accepted.                               *)
Drawer(rebuilt, asksNothing, acts) ==
  [rebuilt |-> rebuilt, asksNothing |-> asksNothing, acts |-> acts]

NoDrawer == Drawer({}, TRUE, FALSE)

(* A page asks for a list.  "asksNothing": without a cluster it does not   *)
(* ask, and "waits": its spinner then stays.  "restarts": its rows offer   *)
(* to restart the item.  "pause": the refresh can be switched off and on   *)
(* ("silent"), or stops while one item is shown and starts again with a    *)
(* request ("asks").                                                       *)
Page(rebuilt, asksNothing, waits, pause, restarts, drawer) ==
  [rebuilt |-> rebuilt, asksNothing |-> asksNothing, waits |-> waits,
   pause |-> pause, restarts |-> restarts, drawer |-> drawer]

(* The resource pages whose function is built once.                        *)
BuiltOnce(drawer) == Page({}, FALSE, FALSE, "never", FALSE, drawer)

Frozen    == Drawer({}, FALSE, FALSE)
Rephrased == Drawer({"language"}, FALSE, FALSE)

CronJobDetailModal        == Frozen
DaemonSetDetailModal      == Frozen
JobDetailModal            == Frozen
LimitRangeDetailModal     == Frozen
NetworkPolicyDetailModal  == Frozen
PVDetailModal             == Frozen
PVCDetailModal            == Frozen
ResourceQuotaDetailModal  == Frozen
ServiceAccountDetailModal == Frozen
StatefulSetDetailModal    == Frozen
IngressDetailModal        == Rephrased
NamespaceDetailModal      == Rephrased
ServiceDetailModal        == Rephrased
DeploymentDetailModal     == Drawer({"language"}, FALSE, TRUE)
NodeDetailModal           == Drawer({"language"}, FALSE, TRUE)
PodDetailModal            == Drawer({"cluster", "language"}, TRUE, FALSE)

CronJobPage        == BuiltOnce(CronJobDetailModal)
DaemonSetPage      == BuiltOnce(DaemonSetDetailModal)
DeploymentPage     == BuiltOnce(DeploymentDetailModal)
IngressPage        == BuiltOnce(IngressDetailModal)
JobPage            == BuiltOnce(JobDetailModal)
LimitRangePage     == BuiltOnce(LimitRangeDetailModal)
NetworkPolicyPage  == BuiltOnce(NetworkPolicyDetailModal)
PVPage             == BuiltOnce(PVDetailModal)
PVCPage            == BuiltOnce(PVCDetailModal)
ResourceQuotaPage  == BuiltOnce(ResourceQuotaDetailModal)
ServiceAccountPage == BuiltOnce(ServiceAccountDetailModal)
ServicePage        == BuiltOnce(ServiceDetailModal)
StatefulSetPage    == BuiltOnce(StatefulSetDetailModal)
NamespacePage      == Page({"language"}, FALSE, FALSE, "never", FALSE, NamespaceDetailModal)
NodePage           == Page({"language"}, FALSE, FALSE, "never", FALSE, NodeDetailModal)
PodPage            == Page({"cluster"}, TRUE, TRUE, "never", TRUE, PodDetailModal)
EventPage          == Page({"cluster"}, TRUE, TRUE, "never", FALSE, NoDrawer)

OverviewPage  == Page({"cluster"}, TRUE, FALSE, "never", FALSE, NoDrawer)
MetricsPage   == Page({"cluster"}, TRUE, TRUE, "never", FALSE, NoDrawer)
LogsPage      == Page({"cluster", "filter"}, FALSE, FALSE, "never", FALSE, NoDrawer)
ApmPage       == Page(Dependencies, FALSE, FALSE, "asks", FALSE, NoDrawer)
RiskPage      == Page(Dependencies, TRUE, TRUE, "never", FALSE, NoDrawer)
IncidentsPage == Page(Dependencies, TRUE, TRUE, "never", FALSE, NoDrawer)
TopologyPage  == Page({"cluster", "language"}, TRUE, TRUE, "silent", FALSE, NoDrawer)

AllPages ==
  {CronJobPage, DaemonSetPage, DeploymentPage, IngressPage, JobPage,
   LimitRangePage, NetworkPolicyPage, PVPage, PVCPage, ResourceQuotaPage,
   ServiceAccountPage, ServicePage, StatefulSetPage, NamespacePage, NodePage,
   PodPage, EventPage, OverviewPage, MetricsPage, LogsPage, ApmPage, RiskPage,
   IncidentsPage, TopologyPage}
=============================================================================
