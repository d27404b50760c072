---------------------------- MODULE MCUiSession ----------------------------
(* UiSession with selections of its tests: every test runs after the one    *)
(* before it in the file.                                                   *)
EXTENDS UiSession
BrowsersDef == <<"firefox">>
PlansDef == {<<"login", "clusters", "hosts">>, <<"login", "templates", "pools", "virtual_machines">>,
             <<"login", "storage_domains", "disks", "dashboard">>, <<"login", "dashboard", "logout">>,
             <<"login", "logout", "userportal", "grafana">>}
=============================================================================
