------------------------------ MODULE UiPages ------------------------------
(***************************************************************************)
(* The page objects of ost_utils.selenium and the UI tests of the basic    *)
(* suite, as scripts for the driver: what each test looks at, clicks and   *)
(* asserts, in order, and what every page shows.                           *)
(*                                                                         *)
(* A look is [k, e, r]: how the driver looks, at which element, and        *)
(* whether the page object calls it through retry_if_stale.  A step is     *)
(* [op, at, looks]: what the driver does with its looks, and the pages the *)
(* page object believes it is on.                                          *)
(***************************************************************************)
EXTENDS Integers, Sequences, FiniteSets

ListViews == {"clusters", "hosts", "templates", "pools", "vms", "storage_domains", "disks"}
VmViews == {"vm", "vm_devices"}
WebAdmin == ListViews \cup VmViews \cup {"dashboard"}
Grafana == {"grafana", "grafana_dc", "grafana_hosts"}
Views == WebAdmin \cup Grafana \cup {"welcome", "login", "portal", "grafana_login", "blank"}
Dialogs == {"none", "poweroff", "runonce", "vgpu", "upload"}

MenuOf(v) == IF v \in {"storage_domains", "disks"} THEN "storage" ELSE "compute"

\* the breadcrumbs of a page; the tabs of a VM share them
Crumbs(v) == IF v = "vm_devices" THEN "vm" ELSE v

\* the buttons a page object asks for
ClusterButtons == {"New", "Edit", "Upgrade"}
HostButtons == {"New", "Edit", "Remove", "Management", "Installation", "Host Console"}
TemplateButtons == {"New VM", "Import", "Edit", "Remove", "Export"}
PoolButtons == {"New", "Edit", "Remove"}
VmButtons == {"New", "Edit", "Shutdown", "Export", "Migrate"}
StorageDomainButtons == {"New Domain", "Import Domain", "Manage Domain", "Remove"}
DiskButtons == {"New", "Edit", "Remove", "Move", "Copy", "Upload"}

Buttons(v) ==
    CASE v = "clusters" -> ClusterButtons
      [] v = "hosts" -> HostButtons
      [] v = "templates" -> TemplateButtons
      [] v = "pools" -> PoolButtons
      [] v = "vms" -> VmButtons \cup {"Run"}
      [] v = "storage_domains" -> StorageDomainButtons
      [] v = "disks" -> DiskButtons
      [] v = "vm" -> {"Edit", "Shutdown", "Export", "Migrate", "Run"}
      [] v = "vm_devices" -> {"Edit", "Shutdown", "Run", "Manage vGPU"}
      [] OTHER -> {}

\* what the dropdown of a button leads to
Entries == [Shutdown |-> "Power Off", Run |-> "Run Once", Upload |-> "Start"]

Links(v) ==
    CASE v = "welcome" -> {"webadmin", "portal", "grafana", "sso"}
      [] v = "login" -> {"username", "password", "log in"}
      [] v = "grafana_login" -> {"oauth"}
      [] v = "dashboard" -> {"iframe"}
      [] v \in {"vms", "vm"} -> {"Power Off", "Run Once"}
      [] v = "disks" -> {"Start"}
      [] v \in Grafana -> {"logo", "Home", "menu", "Data Center", "Hosts"}
      [] OTHER -> {}

\* what a page shows besides its dialog
Content(v) ==
    {<<"page", v>>} \cup {<<"button", b>> : b \in Buttons(v)} \cup {<<"link", n>> : n \in Links(v)}
    \cup (IF v \in WebAdmin
          THEN {<<"menu", m>> : m \in {"left", "nav", "compute", "storage", "user", "logout"}}
               \cup {<<"anchor", w>> : w \in ListViews \cup {"dashboard"}} ELSE {})
    \cup (IF v \in ListViews \ {"pools"} THEN {<<"row", v>>} ELSE {})
    \cup (IF v = "pools" THEN {<<"text", "No items to display">>} ELSE {})
    \cup (IF v \in VmViews THEN {<<"link", "Host Devices">>} ELSE {})
DialogContent(d) == IF d = "none" THEN {} ELSE {<<"dialog", d>>, <<"ok", d>>, <<"cancel", d>>}
                                                \cup (IF d = "upload" THEN {<<"field", "file">>, <<"field", "alias">>} ELSE {})

\* what the selection ("none", "first", "second") and the VM's status enable
Enabled(v, sel, vm) ==
    CASE v = "clusters" -> IF sel = "none" THEN {"New"} ELSE {"New", "Edit", "Upgrade"}
      [] v = "hosts" -> IF sel = "none" THEN {"New"} ELSE Buttons("hosts") \ {"Remove"}
      [] v = "templates" -> CASE sel = "none" -> {"Import"} [] sel = "first" -> {"New VM", "Import", "Edit"}
                              [] OTHER -> Buttons("templates")
      [] v = "pools" -> {"New"}
      [] v = "storage_domains" -> {"New Domain", "Import Domain"} \cup IF sel = "none" THEN {} ELSE {"Manage Domain"}
      [] v = "disks" -> IF sel = "none" THEN {"New", "Upload"} ELSE Buttons("disks")
      [] v = "vms" /\ sel = "none" -> {"New"}
      [] v \in VmViews \/ (v = "vms" /\ sel # "none") -> Buttons(v) \ IF vm = "Down" THEN {"Shutdown", "Migrate"} ELSE {"Export", "Run"}
      [] OTHER -> {}

-----------------------------------------------------------------------------
(* Looks and steps.                                                         *)

Look(k, e, r) == [k |-> k, e |-> e, r |-> r]
FindOnly == {"present", "absent", "found", "rows"}             \* no second command to go stale
FindAll == {"crumbs", "entities", "no_entities", "named"}      \* find_elements never raises NoSuchElement
Step(op, at, looks) == [op |-> op, at |-> at, looks |-> looks, value |-> << >>]

Until(at, looks) == Step("until", at, looks)
While(at, looks) == Step("while", at, looks)
Read(at, looks) == Step("read", at, looks)
Click(at, e) == Step("click", at, <<Look("click", e, TRUE)>>)            \* xpath_click
BareClick(at, e) == Step("click", at, <<Look("click", e, FALSE)>>)       \* find_element(...).click()
Persistent(op, at, e) == Step(op, at, <<Look("click", e, FALSE)>>)       \* the bounded loops of the driver

XpathWaitAndClick(at, e) ==
    <<Until(at, <<Look("shown", e, TRUE)>>), Until(at, <<Look("enabled", e, TRUE)>>), Click(at, e)>>

\* EntityListView.is_displayed
ListByCrumbsMut(v) == <<Look("crumbs", <<"page", v>>, TRUE)>>
ListDisplayed(v) == <<Look("crumbs", <<"page", v>>, TRUE), Look("rows", <<"row", v>>, TRUE)>>

\* WebAdminLeftMenu._open_menu and the wait of open_..._list_view
OpenList(group, v) ==
    <<Persistent("hover", WebAdmin, <<"menu", group>>)>>
    \o XpathWaitAndClick(WebAdmin, <<"anchor", v>>)
    \o <<Until({v}, ListDisplayed(v))>>
\* one look for the is_..._button_enabled of a page, each read in the same way
ButtonsAre(v, texts) == Read({v}, <<[k |-> "buttons", e |-> <<"button", CHOOSE b \in Buttons(v) : TRUE>>,
                                     r |-> TRUE, texts |-> texts]>>)
GetEntities(v) == Read({v}, <<Look("entities", <<"row", v>>, TRUE)>>)
\* the names are read again, then the cell beside the name is clicked
SelectEntity(v, which) == <<GetEntities(v), [Click({v}, <<"row", v>>) EXCEPT !.value = <<which>>]>>
CheckList(v, unselected, selected) ==
    <<GetEntities(v), ButtonsAre(v, unselected)>> \o SelectEntity(v, "first") \o <<ButtonsAre(v, selected)>>

\* WithNotifications.close_notification_safely: present, then displayed, then closed
CloseNotification(at) ==
    <<Step("if", at, <<Look("present", <<"notification", "x">>, TRUE), Look("shown", <<"notification", "x">>, TRUE)>>),
      Click(at, <<"notification", "x">>),
      While(at, <<Look("shown", <<"notification", "x">>, TRUE)>>)>>
Choose(at, dropdown, item) == <<Click(at, <<"button", dropdown>>), Click(at, <<"link", item>>)>>

Poweroff == CloseNotification({"vms"}) \o Choose({"vms"}, "Shutdown", "Power Off")
            \o XpathWaitAndClick({"vms"}, <<"ok", "poweroff">>) \o CloseNotification({"vms"})
            \o <<While({"vms"}, <<Look("enabled", <<"button", "Shutdown">>, TRUE)>>)>>
\* VmListView.run_once, called while the VM's own page is shown
RunOnce == CloseNotification({"vm"}) \o Choose({"vm"}, "Run", "Run Once")
           \o XpathWaitAndClick({"vm"}, <<"ok", "runonce">>)
           \o <<While({"vm"}, <<Look("enabled", <<"button", "Run">>, TRUE)>>)>>
OpenDetailView == <<GetEntities("vms"), Persistent("id_click", {"vms"}, <<"row", "vms">>),
                    Until({"vm"}, <<Look("crumbs", <<"page", "vm">>, TRUE)>>)>>
VmStatus(statuses) == [k |-> "status", e |-> <<"page", "vm">>, r |-> FALSE, texts |-> statuses]
PortalStatus == [VmStatus({"PoweringUp", "Up"}) EXCEPT !.e = <<"page", "portal">>]
VgpuDialog(retried) == <<Look("shown", <<"dialog", "vgpu">>, retried), Look("shown", <<"dialog", "vgpu">>, retried)>>
VgpuTab == <<BareClick({"vm"}, <<"link", "Host Devices">>),
             Until({"vm_devices"}, <<Look("shown", <<"page", "vm_devices">>, FALSE)>>),
             BareClick({"vm_devices"}, <<"button", "Manage vGPU">>),
             Until({"vm_devices"}, VgpuDialog(FALSE)), Read({"vm_devices"}, <<Look("shown", <<"dialog", "vgpu">>, FALSE)>>),
             BareClick({"vm_devices"}, <<"cancel", "vgpu">>), While({"vm_devices"}, VgpuDialog(TRUE))>>
UploadUnseenMut == <<Persistent("id_click", {"disks"}, <<"button", "Upload">>),
                     Persistent("action", {"disks"}, <<"link", "Start">>),
                     Persistent("action", {"disks"}, <<"field", "file">>),
                     Persistent("action", {"disks"}, <<"field", "alias">>),
                     Persistent("wait_for_id", {"disks"}, <<"ok", "upload">>)>>
Upload == <<Persistent("id_click", {"disks"}, <<"button", "Upload">>),
            Persistent("action", {"disks"}, <<"link", "Start">>),
            Persistent("action", {"disks"}, <<"field", "file">>),
            Persistent("action", {"disks"}, <<"field", "alias">>),
            Persistent("wait_for_id", {"disks"}, <<"ok", "upload">>),
            Until({"disks"}, <<Look("named", <<"row", "disks">>, TRUE)>>)>>

Welcome(link) == <<Until({"welcome"}, <<Look("shown", <<"page", "welcome">>, FALSE)>>),
                   BareClick({"welcome"}, <<"link", link>>)>>
LogIn == <<Until({"login"}, <<Look("shown", <<"link", "username">>, FALSE), Look("shown", <<"link", "password">>, FALSE)>>),
           BareClick({"login"}, <<"link", "username">>), BareClick({"login"}, <<"link", "password">>),
           Click({"login"}, <<"link", "log in">>)>>
MenusShown == <<Look("present", <<"menu", "left">>, FALSE), Look("shown", <<"menu", "nav">>, FALSE)>>
\* looks inside the frame of the dashboard
Dashboard(op) == Step(op, {"dashboard"}, <<Look("shown", <<"page", "dashboard">>, FALSE)>>)
OpenBoard(at, submenu, v) ==
    XpathWaitAndClick(at, <<"link", "logo">>) \o XpathWaitAndClick(at, <<"link", "Home">>)
    \o XpathWaitAndClick(at, <<"link", "menu">>) \o XpathWaitAndClick(at, <<"link", submenu>>)
    \o <<Until({v}, <<Look("found", <<"page", v>>, FALSE), Look("found", <<"page", v>>, FALSE)>>),
         Read({v}, <<Look("absent", <<"alert", "error">>, FALSE)>>)>>

-----------------------------------------------------------------------------
(* The tests, in the order of the file.                                     *)

Script == [
  login |-> Welcome("webadmin") \o LogIn
            \o <<Until(WebAdmin, <<MenusShown[1]>>), Until(WebAdmin, <<MenusShown[2]>>), Read(WebAdmin, MenusShown)>>,
  clusters |-> OpenList("compute", "clusters") \o <<GetEntities("clusters")>> \o SelectEntity("clusters", "first")
               \o <<ButtonsAre("clusters", {"New", "Edit", "Upgrade"})>>,
  hosts |-> OpenList("compute", "hosts") \o CheckList("hosts", {"New"},
                {"New", "Edit", "Management", "Installation", "Host Console"}),
  templates |-> OpenList("compute", "templates") \o CheckList("templates", {"Import"}, {"New VM", "Import", "Edit"})
                \o SelectEntity("templates", "second")
                \o <<ButtonsAre("templates", {"New VM", "Import", "Edit", "Remove", "Export"})>>,
  pools |-> OpenList("compute", "pools") \o <<Read({"pools"}, <<Look("no_entities", <<"row", "pools">>, TRUE)>>),
                                              ButtonsAre("pools", {"New"})>>,
  virtual_machines |-> <<Step("start_vm", Views, << >>), Step("await_vm", Views, << >>)>> \o OpenList("compute", "vms")
      \o CheckList("vms", {"New"}, {"New", "Edit", "Shutdown", "Migrate"})
      \o Poweroff \o <<ButtonsAre("vms", {"New", "Edit", "Export"})>> \o OpenDetailView
      \o <<Read({"vm"}, <<VmStatus({"Down"})>>)>> \o RunOnce
      \o <<Until({"vm"}, <<VmStatus({"PoweringUp", "Up"})>>), Read({"vm"}, <<VmStatus({"PoweringUp", "Up"})>>)>> \o VgpuTab,
  storage_domains |-> OpenList("storage", "storage_domains")
                      \o CheckList("storage_domains", {"New Domain", "Import Domain"},
                                   {"New Domain", "Import Domain", "Manage Domain"}),
  disks |-> OpenList("storage", "disks") \o CheckList("disks", {"New", "Upload"}, Buttons("disks")) \o Upload,
  dashboard |-> XpathWaitAndClick(WebAdmin, <<"anchor", "dashboard">>)
                \o <<Dashboard("frame_until"), Dashboard("frame_read")>>,
  logout |-> <<Until(WebAdmin, <<MenusShown[2]>>)>> \o XpathWaitAndClick(WebAdmin, <<"menu", "user">>)
             \o XpathWaitAndClick(WebAdmin, <<"menu", "logout">>)
             \o <<While(Views, <<MenusShown[1]>>), While(Views, <<Look("shown", <<"menu", "nav">>, TRUE)>>),
                  Step("get", Views, << >>), Until({"welcome"}, <<Look("shown", <<"page", "welcome">>, FALSE)>>),
                  Read({"welcome"}, <<Look("logged_out", <<"link", "sso">>, FALSE)>>)>>,
  userportal |-> Welcome("portal") \o LogIn
                 \o <<Until({"portal"}, <<Look("present", <<"page", "portal">>, FALSE)>>),
                      Read({"portal"}, <<PortalStatus>>)>>,
  grafana |-> <<Step("get", Views, << >>)>> \o Welcome("grafana")
              \o <<Until({"grafana_login"}, <<Look("shown", <<"link", "oauth">>, FALSE)>>),
                   Click({"grafana_login"}, <<"link", "oauth">>),
                   Until({"grafana"}, <<Look("shown", <<"page", "grafana">>, FALSE)>>)>>
              \o OpenBoard({"grafana"}, "Data Center", "grafana_dc")
              \o OpenBoard({"grafana_dc"}, "Hosts", "grafana_hosts")]
=============================================================================
