------------------------------ MODULE UiSession ------------------------------
(***************************************************************************)
(* The UI tests against the grid: the driver of ost_utils.selenium runs    *)
(* the scripts of UiPages in one browser after the other, on the nodes of  *)
(* SeleniumGrid, whose fixture it is used through.                         *)
(*                                                                         *)
(* Every look takes two commands, find and use; the web application        *)
(* renders, refreshes and notifies between any two of them.                *)
(***************************************************************************)
EXTENDS SeleniumGrid, UiPages

CONSTANTS Browsers,      \* the parameters of the capabilities fixture, in order
          Plans,         \* the tests that may be selected to run in each, in order
          MaxPolls,      \* looks that a timeout leaves room for
          MaxTries       \* DRIVER_MAX_RETRIES - 1

\* pytest opens a browser for a test that uses it, and runs no test twice in it
ASSUME UiAssumption ==
    /\ Browsers \in Seq(Nodes)
    /\ Plans \subseteq {p \in Seq(DOMAIN Script) : p # << >> /\ \A i, j \in DOMAIN p : p[i] = p[j] => i = j}
    /\ {MaxPolls, MaxTries} \subseteq Nat \ {0}

VARIABLES plan,          \* the selected tests
          browser,       \* "none", "open", "error": the ovirt_driver fixture
          cl,            \* where the driver is, see ClientAt
          page,          \* the web application, see NewPage
          vm             \* the status of vm0

ui == <<plan, browser, cl, page, vm>>
vars == <<gridVars, ui>>

NewPage == [main |-> "blank", crumbs |-> "blank", dialog |-> "none",    \* what is shown
            goal |-> "welcome", dgoal |-> "none",                      \* what will be
            after |-> "dashboard",                                     \* where logging in leads
            menu |-> "none",                                           \* the menu under the mouse, or open dropdown
            sso |-> FALSE, sel |-> "none", form |-> {}, disk |-> "none", notif |-> FALSE]
\* test t of browser b, at a look of step s; ref is the element found last
ClientAt(b, t) == [b |-> b, t |-> t, s |-> 1, look |-> 1, ref |-> "none", tries |-> 0, waits |-> 0,
                   elem |-> FALSE, missed |-> FALSE, outcome |-> "running", frame |-> "out"]

Running == gpc = "up" /\ browser = "open" /\ cl.outcome = "running"
TestScript == Script[plan[cl.t]]
St == TestScript[cl.s]
Lk == St.looks[cl.look]
InFrame(op) == op \in {"frame_until", "frame_read"}
Alive == {This(Browsers[cl.b]), This("hub")} \subseteq up

-----------------------------------------------------------------------------
(* The web application.                                                     *)

\* the entry of a closed dropdown has no text, by which it could be found
Has(e) == IF cl.frame = "in" THEN e = <<"page", page.main>> /\ page.main = "dashboard"
          ELSE \/ /\ e \in Content(page.main) \cup DialogContent(page.dialog)
                  /\ e = <<"link", "Start">> => page.menu = "Upload"
               \/ page.notif /\ e = <<"notification", "x">>

\* the anchors of a menu show while the mouse is over it
Unfolded(v) == v = "dashboard" \/ page.menu = MenuOf(v)
Dropdown(e) == IF e[1] = "button" /\ e[2] \in DOMAIN Entries THEN e[2] ELSE "none"

Value(l) ==
    CASE l.k \in {"present", "found", "entities"} -> Has(l.e)
      [] l.k \in {"absent", "no_entities"} -> ~Has(l.e)
      [] l.k = "rows" -> Has(l.e) \/ Has(<<"text", "No items to display">>)
      [] l.k = "crumbs" -> page.crumbs = l.e[2]
      [] l.k = "named" -> Has(l.e) /\ page.disk = "listed"
      [] l.k = "enabled" -> l.e[1] # "button" \/ l.e[2] \in Enabled(page.main, page.sel, vm)
      [] l.k = "buttons" -> Enabled(page.main, page.sel, vm) \ {"Run"} = l.texts
      [] l.k = "status" -> vm \in l.texts
      [] l.k = "logged_out" -> ~page.sso
      [] l.k = "shown" /\ l.e[1] = "anchor" -> Unfolded(l.e[2])
      [] OTHER -> TRUE

\* where a click leads; in front of a dialog nothing else can be clicked
Clickable(e) == /\ page.dialog = "none" \/ e \in DialogContent(page.dialog) \/ e[1] = "notification"
                /\ e[1] = "anchor" => Unfolded(e[2])
                /\ \A b \in DOMAIN Entries : e = <<"link", Entries[b]>> => page.menu = b
GoTo(v) == [page EXCEPT !.goal = v]
Clicked(e, value) ==
    CASE e = <<"link", "webadmin">> -> [GoTo(IF page.sso THEN "dashboard" ELSE "login") EXCEPT !.after = "dashboard"]
      [] e = <<"link", "portal">> -> [GoTo(IF page.sso THEN "portal" ELSE "login") EXCEPT !.after = "portal"]
      [] e = <<"link", "grafana">> -> GoTo("grafana_login")
      [] e = <<"link", "oauth">> -> [GoTo(IF page.sso THEN "grafana" ELSE "login") EXCEPT !.after = "grafana"]
      [] e = <<"link", "log in">> -> [GoTo(page.after) EXCEPT !.sso = TRUE]
      [] e = <<"menu", "logout">> -> [GoTo("login") EXCEPT !.sso = FALSE]
      [] e[1] = "anchor" -> GoTo(e[2])
      [] e[1] = "row" /\ value # << >> -> [page EXCEPT !.sel = value[1]]
      [] e[1] = "row" /\ value = << >> -> GoTo("vm")
      [] e = <<"link", "Host Devices">> -> GoTo("vm_devices")
      [] e = <<"link", "Data Center">> -> GoTo("grafana_dc")
      [] e = <<"link", "Hosts">> -> GoTo("grafana_hosts")
      [] e = <<"link", "Power Off">> /\ vm # "Down" -> [page EXCEPT !.dgoal = "poweroff"]
      [] e = <<"link", "Run Once">> /\ vm = "Down" -> [page EXCEPT !.dgoal = "runonce"]
      [] e = <<"button", "Manage vGPU">> -> [page EXCEPT !.dgoal = "vgpu"]
      [] e = <<"link", "Start">> -> [page EXCEPT !.dgoal = "upload"]
      [] e[1] = "field" -> [page EXCEPT !.form = @ \cup {e[2]}]
      [] e = <<"ok", "upload">> /\ "file" \in page.form ->
             [page EXCEPT !.dgoal = "none", !.form = {}, !.disk = IF "alias" \in page.form THEN "uploading" ELSE @]
      [] e[1] = "cancel" \/ e \in {<<"ok", "poweroff">>, <<"ok", "runonce">>} -> [page EXCEPT !.dgoal = "none"]
      [] e[1] = "notification" -> [page EXCEPT !.notif = FALSE]
      [] OTHER -> page
VmAfter(e) == CASE e = <<"ok", "poweroff">> /\ vm # "Down" -> "PoweringDown"
                [] e = <<"ok", "runonce">> /\ vm = "Down" -> "WaitForLaunch"
                [] OTHER -> vm

Stale == cl' = [cl EXCEPT !.ref = IF @ = "good" THEN "stale" ELSE @]
BothWebAdmin == {page.main, page.goal} \subseteq WebAdmin

ShowCrumbs ==
    /\ BothWebAdmin /\ page.crumbs # Crumbs(page.goal)
    /\ page' = [page EXCEPT !.crumbs = Crumbs(page.goal)]
    /\ Stale /\ UNCHANGED <<vm, faults>>
ShowMain ==
    /\ BothWebAdmin /\ page.main # page.goal
    /\ page' = [page EXCEPT !.main = page.goal, !.sel = IF page.goal = "vm" THEN @ ELSE "none"]
    /\ Stale /\ UNCHANGED <<vm, faults>>
LoadPage ==
    /\ ~BothWebAdmin /\ page.main # page.goal
    /\ page' = [page EXCEPT !.main = page.goal, !.crumbs = Crumbs(page.goal), !.sel = "none",
                            !.dialog = "none", !.dgoal = "none", !.notif = FALSE]
    /\ Stale /\ UNCHANGED <<vm, faults>>
ShowDialog ==
    /\ page.dialog # page.dgoal
    /\ page' = [page EXCEPT !.dialog = page.dgoal]
    /\ Stale /\ UNCHANGED <<vm, faults>>
ListDisk ==
    /\ page.disk = "uploading"
    /\ page' = [page EXCEPT !.disk = "listed"]
    /\ UNCHANGED <<cl, vm, faults>>
ChangeVm ==
    /\ vm' = CASE vm = "WaitForLaunch" -> "PoweringUp" [] vm = "PoweringUp" -> "Up"
               [] vm = "PoweringDown" -> "Down" [] OTHER -> vm
    /\ vm' # vm
    /\ UNCHANGED <<cl, page, faults>>
Notify ==
    /\ page.main \in WebAdmin
    /\ IF page.notif THEN UNCHANGED faults ELSE Fault
    /\ page' = [page EXCEPT !.notif = ~@]
    /\ IF cl.ref = "good" /\ Lk.e[1] = "notification" THEN Stale ELSE UNCHANGED cl
    /\ UNCHANGED vm
Refresh ==
    /\ page.main \in WebAdmin /\ cl.ref = "good" /\ Fault
    /\ Stale /\ UNCHANGED <<page, vm>>

Application ==
    /\ Running
    /\ ShowCrumbs \/ ShowMain \/ LoadPage \/ ShowDialog \/ ListDisk \/ ChangeVm \/ Notify \/ Refresh
    /\ UNCHANGED <<control, containers, backend, served, proxy, saved, refused, rmFailed, plan, browser>>

-----------------------------------------------------------------------------
(* What the driver does with an answer or an exception.                     *)

Fresh == [cl EXCEPT !.ref = "none", !.tries = 0, !.waits = 0, !.elem = FALSE]
Failed == [Fresh EXCEPT !.outcome = "failed"]
Jump(n) == IF cl.s + n <= Len(TestScript) THEN [Fresh EXCEPT !.s = @ + n, !.look = 1]
                                          ELSE [Fresh EXCEPT !.outcome = "passed"]
StepDone == Jump(1)
LastLook == cl.look = Len(St.looks)
NextLook == [cl EXCEPT !.look = @ + 1, !.ref = "none", !.tries = 0]
LookDone == IF LastLook THEN StepDone ELSE NextLook
FindAgain == [cl EXCEPT !.ref = "none", !.tries = @ + 1]
\* WebDriverWait: the condition is looked at again until the timeout
PollAgain == IF cl.waits + 1 < MaxPolls THEN [cl EXCEPT !.waits = @ + 1, !.look = 1, !.ref = "none", !.tries = 0]
                                        ELSE Failed

Answered(op, v) ==
    CASE op \in {"until", "frame_until"} -> IF v THEN LookDone ELSE PollAgain
      [] op = "while" -> IF ~v THEN StepDone ELSE IF LastLook THEN PollAgain ELSE NextLook
      [] op = "if" -> IF v THEN LookDone ELSE Jump(3)
      [] OTHER -> IF v THEN LookDone ELSE Failed

\* retry_if_stale
RetryIfStale == IF cl.tries + 1 < MaxTries THEN FindAgain ELSE Failed
\* wait_for_id; find is its own loop, inside the loop of id_click and hover_to_id
WaitForeverMut == [cl EXCEPT !.ref = "none"]
WaitForId == IF cl.waits + 1 < MaxTries THEN [cl EXCEPT !.waits = @ + 1, !.ref = "none"] ELSE Failed
\* the loops of id_click, hover_to_id and action_on_element end without a word
GiveUp == [StepDone EXCEPT !.missed = @ \/ St.op # "hover"]
TryAgain == IF cl.tries + 1 < MaxTries THEN [FindAgain EXCEPT !.waits = 0] ELSE GiveUp
ActAgain(found) == IF cl.tries + 1 < MaxTries THEN [FindAgain EXCEPT !.elem = @ \/ found]
                   ELSE IF cl.elem \/ found THEN GiveUp ELSE Failed

Raised(op, what) ==
    LET finding == cl.ref = "none" IN
    IF what = "stale" /\ Lk.r THEN RetryIfStale ELSE
    CASE op = "until" /\ what = "nosuch" -> PollAgain
      [] op = "while" /\ what = "nosuch" -> StepDone
      [] InFrame(op) -> [cl EXCEPT !.ref = "none", !.frame = "no"]
      [] op \in {"id_click", "hover", "wait_for_id"} /\ finding -> WaitForId
      [] op \in {"id_click", "hover"} /\ ~finding -> TryAgain
      [] op = "action" -> ActAgain(~finding)
      [] OTHER -> Failed

-----------------------------------------------------------------------------
(* The driver.                                                              *)

Elements(l) == IF l.k = "crumbs" THEN page.main \in WebAdmin ELSE Has(l.e)

Find ==
    /\ Running /\ St.looks # << >> /\ cl.ref = "none"
    /\ InFrame(St.op) => cl.frame = "in"
    /\ cl' = CASE ~Alive -> Raised(St.op, "dead")
               [] Alive /\ Lk.k \in FindOnly \ {"found"} -> Answered(St.op, Value(Lk))
               [] Alive /\ Lk.k \in FindAll /\ ~Elements(Lk) -> Answered(St.op, Value(Lk))
               [] Alive /\ Lk.k \notin FindOnly \cup FindAll /\ ~Elements(Lk) -> Raised(St.op, "nosuch")
               [] Alive /\ Lk.k = "found" -> IF Has(Lk.e) THEN Answered(St.op, TRUE) ELSE Raised(St.op, "nosuch")
               [] OTHER -> [cl EXCEPT !.ref = "good"]
    /\ UNCHANGED <<gridVars, plan, browser, page, vm>>

Use ==
    /\ Running /\ cl.ref # "none" /\ Lk.k # "click"
    /\ cl' = CASE ~Alive -> Raised(St.op, "dead")
               [] Alive /\ cl.ref = "stale" -> Raised(St.op, "stale")
               [] Alive /\ cl.ref = "good" /\ InFrame(St.op) -> [cl EXCEPT !.ref = "none", !.frame = "yes"]
               [] OTHER -> Answered(St.op, Value(Lk))
    /\ UNCHANGED <<gridVars, plan, browser, page, vm>>

UseClick ==
    /\ Running /\ cl.ref # "none" /\ Lk.k = "click"
    /\ IF Alive /\ cl.ref = "good" /\ (Clickable(Lk.e) \/ St.op = "hover")
       THEN /\ cl' = StepDone
            /\ page' = IF St.op = "hover" THEN [page EXCEPT !.menu = Lk.e[2]]
                                           ELSE [Clicked(Lk.e, St.value) EXCEPT !.menu = Dropdown(Lk.e)]
            /\ vm' = IF St.op = "hover" THEN vm ELSE VmAfter(Lk.e)
       ELSE /\ cl' = Raised(St.op, CASE ~Alive -> "dead" [] Alive /\ cl.ref = "stale" -> "stale" [] OTHER -> "intercepted")
            /\ UNCHANGED <<page, vm>>
    /\ UNCHANGED <<gridVars, plan, browser>>

\* execute_in_frame: every exception in the frame becomes None, the frame is always left
EnterFrame ==
    /\ Running /\ InFrame(St.op) /\ cl.frame = "out"
    /\ cl' = [cl EXCEPT !.frame = IF Alive /\ Has(<<"link", "iframe">>) THEN "in" ELSE "no"]
    /\ UNCHANGED <<gridVars, plan, browser, page, vm>>
KeptInFrameMut(c) == IF cl.frame = "yes" THEN [c EXCEPT !.frame = "out"] ELSE c
DefaultContent(c) == [c EXCEPT !.frame = "out"]
LeaveFrame ==
    /\ Running /\ InFrame(St.op) /\ cl.frame \in {"yes", "no"}
    /\ cl' = IF Alive THEN DefaultContent(Answered(St.op, cl.frame = "yes"))
                        ELSE [Failed EXCEPT !.frame = "out"]
    /\ UNCHANGED <<gridVars, plan, browser, page, vm>>

\* driver.get
Get ==
    /\ Running /\ St.op = "get"
    /\ IF Alive THEN cl' = StepDone /\ page' = GoTo("welcome")
                ELSE cl' = Failed /\ UNCHANGED page
    /\ UNCHANGED <<gridVars, plan, browser, vm>>

\* setup_virtual_machines: starts the VM if it is down, and waits to see it powering up
StartVm ==
    /\ Running /\ St.op = "start_vm"
    /\ IF vm = "Down" THEN vm' = "WaitForLaunch" /\ cl' = StepDone
                      ELSE UNCHANGED vm /\ cl' = Jump(2)
    /\ UNCHANGED <<gridVars, plan, browser, page>>
\* assert_true_within_long
AwaitVm ==
    /\ Running /\ St.op = "await_vm"
    /\ cl' = IF vm = "PoweringUp" THEN StepDone ELSE PollAgain
    /\ UNCHANGED <<gridVars, plan, browser, page, vm>>

-----------------------------------------------------------------------------
(* The fixtures.                                                            *)

\* webdriver.Remote, the size of the window and the first page come before the try
OpenBrowser ==
    /\ gpc = "up" /\ browser = "none" /\ cl.b <= Len(Browsers)
    /\ \/ Alive /\ browser' = "open" /\ UNCHANGED faults
       \/ ~Alive /\ browser' = "error" /\ UNCHANGED faults
       \/ Alive /\ Fault /\ browser' = "error"
    /\ page' = NewPage
    /\ UNCHANGED <<control, containers, backend, served, proxy, saved, refused, rmFailed, plan, cl, vm>>

\* a test whose browser could not be opened ends with the cached exception
NextTest ==
    /\ gpc = "up" /\ ((cl.outcome # "running" /\ browser = "open") \/ browser = "error")
    /\ IF cl.t < Len(plan) THEN cl' = ClientAt(cl.b, cl.t + 1) /\ UNCHANGED browser
                            ELSE cl' = ClientAt(cl.b + 1, 1) /\ browser' = "none"
    /\ UNCHANGED <<gridVars, plan, page, vm>>

TearDownGrid == cl.b > Len(Browsers) /\ LeaveGrid /\ UNCHANGED ui

Driver == Find \/ Use \/ UseClick \/ EnterFrame \/ LeaveFrame \/ Get \/ StartVm \/ AwaitVm
Client == (Grid /\ UNCHANGED ui) \/ OpenBrowser \/ Driver \/ NextTest \/ TearDownGrid

Init ==
    /\ GridInit
    /\ plan \in Plans
    /\ browser = "none" /\ cl = ClientAt(1, 1) /\ page = NewPage
    /\ vm \in {"Down", "Up", "PoweringDown"}

Terminated == GridEnded /\ UNCHANGED vars

Next ==
    \/ Client
    \/ Containers /\ UNCHANGED ui
    \/ Application
    \/ Terminated

\* pytest goes on; neither the containers nor the application owe it anything
Spec == Init /\ [][Next]_vars /\ WF_vars(Client)

-----------------------------------------------------------------------------
(* Properties.                                                              *)

\* The driver is inside a frame only while execute_in_frame runs, and elements are held
\* only for the step that found them.
TypeOK ==
    /\ backend \in {"podman", "docker"} /\ browser \in {"none", "open", "error"}
    /\ attempt \in 0..(GridRetries - 1) /\ polls \in 0..GridPolls /\ faults \in 0..MaxFaults
    /\ live \subseteq (Kinds \X (0..GridRetries)) /\ up \subseteq live /\ dead \subseteq live /\ up \cap dead = {}
    /\ page.main \in Views /\ page.goal \in Views /\ page.dialog \in Dialogs
    /\ cl.tries \in 0..MaxTries /\ cl.waits \in 0..(MaxPolls + MaxTries)
    /\ cl.frame # "out" => Running /\ InFrame(St.op)
    /\ cl.ref # "none" => Running /\ St.looks # << >>

\* Nothing is asserted on a page half of which is still the one before: is_displayed of the
\* page objects and the waits see to it, but for two races.  A list view opened after the
\* empty pools list is believed displayed as soon as its breadcrumbs are ("No items to
\* display" is still the pools'), and the page of a VM is, whose is_displayed asks for the
\* breadcrumbs only.  What is read inside the frame of the dashboard needs no breadcrumbs.
Settled == page.main = page.goal /\ page.crumbs = Crumbs(page.goal)
AssertsOnSettledPage ==
    Running => /\ St.op = "read" => Settled \/ page.main = "pools" \/ St.at = {"vm"}
               /\ St.op = "frame_read" => page.main = page.goal

\* Clicks and keys that id_click and action_on_element gave up in silence do not go
\* unnoticed: a test that missed one does not pass.  (A hover may be missed and not be
\* missed: the menu may still be unfolded from the test before.)
NoSilentPass == cl.outcome = "passed" => ~cl.missed

\* The grid of a session is removed, whatever happened in it, unless the backend refused
\* to remove its pod or the generator that had yielded twice is never closed; docker's is
\* also left if a container could not be started.  No second grid is built beside the first
\* without such a refusal, and http_proxy is given back.
LeavesNothing ==
    /\ GridEnded /\ live # {} => \/ gpc = "left"
                                 \/ IF backend = "podman" THEN "pod" \in rmFailed ELSE refused \cup rmFailed # {}
    /\ Cardinality({c \in live : c[1] = "pod"}) <= 1 \/ "pod" \in rmFailed
    /\ served = "twice" => rmFailed # {}
    /\ GridEnded /\ gpc # "left" /\ proxy = "empty" => saved # "set"

\* Every loop of the driver, the waits and the retries is bounded: the session ends even
\* if the application never shows what is waited for.
SessionEnds == <>GridEnded
=============================================================================
