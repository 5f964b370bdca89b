------------------------------- MODULE Bridge -------------------------------
(***************************************************************************)
(* The network components: the BLE bridge and the mesh uplink share the    *)
(* radio, and the bridge is to leave it alone while the mesh reconnects.   *)
(* Three tasks take part: the application, the task that delivers events   *)
(* of the mesh and calls the link callback, and the host task of NimBLE,   *)
(* which runs on_sync and the callout that refreshes the advertised        *)
(* status.  A call of NimBLE waits for the controller, so that the others  *)
(* run in between; what a task has still to do is its todo.                *)
(***************************************************************************)
EXTENDS Naturals, Sequences

CONSTANTS
  Roles,        \* of the node: "ROOT", "NODE"
  MaxPend,      \* bound on mesh events not delivered yet
  MaxRare       \* bound on failing calls of NimBLE and on new names

VARIABLE s      \* the static variables of both components, the radio, and todo

\* The todo of start_advertising and start_scan.
start_advertising == <<"set fields", "adv start">>
start_scan == <<"disc">>

At(a, m) == s.todo[a] # << >> /\ Head(s.todo[a]) = m

\* r with the first step of a done and q to do next.
Done(r, a, q) == [r EXCEPT !.todo[a] = q \o Tail(@)]

Rare == s.rare < MaxRare
Fails(a, n) == Rare /\ s' = [s EXCEPT !.rare = @ + 1, !.todo[a] = SubSeq(@, n + 1, Len(@))]

-----------------------------------------------------------------------------
(* The calls of NimBLE: advertising and scanning are on or off, and to      *)
(* start what runs already is an error, which changes nothing.  A call that *)
(* fails changes nothing either; nobody looks at the result of a stop.      *)

ble_gap_adv_stop(a) ==
  /\ At(a, "adv stop")
  /\ \/ s' = Done([s EXCEPT !.adv = FALSE], a, << >>)
     \/ Fails(a, 1)

\* start_advertising returns when the fields are refused.
ble_gap_adv_set_fields(a) ==
  /\ At(a, "set fields")
  /\ \/ s' = Done([s EXCEPT !.data = s.name], a, << >>)
     \/ Fails(a, 2)

ble_gap_adv_start(a) ==
  /\ At(a, "adv start")
  /\ \/ s' = Done([s EXCEPT !.adv = TRUE], a, << >>)
     \/ Fails(a, 1)

\* s_scanning is set once the call has succeeded.
ble_gap_disc(a) ==
  /\ At(a, "disc")
  /\ \/ ~s.disc /\ s' = Done([s EXCEPT !.disc = TRUE], a, <<"scanning">>)
     \/ s.disc /\ s' = Done(s, a, << >>)
     \/ Fails(a, 1)

ble_gap_disc_cancel(a) ==
  /\ At(a, "disc cancel")
  /\ \/ s' = Done([s EXCEPT !.disc = FALSE], a, << >>)
     \/ Fails(a, 1)

set_scanning(a) ==
  \/ At(a, "scanning") /\ s' = Done([s EXCEPT !.scanning = TRUE], a, << >>)
  \/ At(a, "not scanning") /\ s' = Done([s EXCEPT !.scanning = FALSE], a, << >>)

-----------------------------------------------------------------------------
(* blebridge.c                                                              *)

blebridge_pause_scan(a) ==
  /\ At(a, "pause")
  /\ s' = IF s.paused THEN Done(s, a, << >>)
          ELSE IF ~s.synced THEN Done(s, a, << >>)
          ELSE Done([s EXCEPT !.paused = TRUE], a, <<"test scanning", "test adv">>)

\* The two tests of blebridge_pause_scan.
Test(a) ==
  \/ /\ At(a, "test scanning")
     /\ s' = Done(s, a, IF s.scanning THEN <<"disc cancel", "not scanning">> ELSE << >>)
  \/ At(a, "test adv") /\ s' = Done(s, a, IF s.adv THEN <<"adv stop">> ELSE << >>)

\* Mutant: only the scan is resumed, "advertising is left running".
blebridge_resume_scan_Scan(a) ==
  /\ At(a, "resume")
  /\ s' = IF s.paused THEN Done([s EXCEPT !.paused = FALSE], a, start_scan)
          ELSE Done(s, a, << >>)

blebridge_resume_scan(a) ==
  /\ At(a, "resume")
  /\ s' = IF s.paused THEN Done([s EXCEPT !.paused = FALSE], a, start_scan \o start_advertising)
          ELSE Done(s, a, << >>)

\* Once, when host and controller have found each other.
on_sync ==
  /\ s.host = "launched"
  /\ \/ s' = [s EXCEPT !.host = "running", !.synced = TRUE,
                       !.todo["host"] = start_advertising \o start_scan \o <<"reset callout">>]
     \/ s' = [s EXCEPT !.host = "failed"]

ble_npl_callout_reset == At("host", "reset callout") /\ s' = Done([s EXCEPT !.armed = TRUE], "host", << >>)

\* Mutant: the callout is not armed again in a pause.
dbg_callout_fn_Once ==
  /\ s.armed /\ s.todo["host"] = << >>
  /\ s' = IF s.paused THEN [s EXCEPT !.armed = FALSE]
          ELSE [s EXCEPT !.armed = FALSE, !.name = s.status,
                         !.todo["host"] = <<"adv stop">> \o start_advertising \o <<"reset callout">>]

\* The status becomes the name that is advertised.
dbg_callout_fn ==
  /\ s.armed /\ s.todo["host"] = << >>
  /\ s' = IF s.paused THEN [s EXCEPT !.armed = FALSE, !.todo["host"] = <<"reset callout">>]
          ELSE [s EXCEPT !.armed = FALSE, !.name = s.status,
                         !.todo["host"] = <<"adv stop">> \o start_advertising \o <<"reset callout">>]

\* blebridge_start: without NimBLE there is no host task.  The application waits
\* for the mesh before it, but not for ever.
blebridge_start ==
  /\ s.app = "mesh"
  /\ s' \in {[s EXCEPT !.app = "bridge", !.host = h] : h \in {"launched", "failed"}}

\* From another task, "safe to call periodically"; it does not look at s_paused.
blebridge_update_name ==
  /\ s.app = "loop" /\ s.todo["app"] = << >> /\ s.synced /\ Rare
  /\ s' = [s EXCEPT !.name = "renamed", !.rare = @ + 1,
                    !.todo["app"] = <<"adv stop">> \o start_advertising]

-----------------------------------------------------------------------------
(* espmesh.c                                                                *)

\* The mesh (external): the association comes and goes, failed attempts are
\* reported too, and a node learns its root.
Post(e) ==
  /\ s.app \notin {"boot", "idle"} /\ Len(s.events) < MaxPend
  /\ \/ e = "CONNECTED" /\ ~s.link
     \/ e = "DISCONNECTED"
     \/ e = "ROOT_ADDRESS" /\ s.link /\ ~s.have_root
  /\ s' = [s EXCEPT !.link = IF e = "ROOT_ADDRESS" THEN @ ELSE e = "CONNECTED",
                    !.events = Append(@, e)]

\* The link callback of both applications pauses or resumes the bridge.
on_espmesh_link_change(connected) == IF connected THEN <<"resume">> ELSE <<"pause">>

on_mesh_event ==
  /\ s.events # << >> /\ s.todo["event"] = << >>
  /\ LET e == Head(s.events) r == [s EXCEPT !.events = Tail(@)] IN
     s' = IF e = "ROOT_ADDRESS" THEN [r EXCEPT !.have_root = TRUE]
          ELSE [r EXCEPT !.connected = e = "CONNECTED",
                         !.todo["event"] = IF s.cb THEN on_espmesh_link_change(e = "CONNECTED")
                                           ELSE << >>]

\* espmesh_start: events may come as soon as the mesh is started, before a root
\* declares itself connected.  Without Wi-Fi the application idles.
espmesh_start(role) ==
  \/ s.app = "boot" /\ s' \in {[s EXCEPT !.app = p] : p \in {"started", "idle"}}
  \/ s.app = "started" /\ s' = [s EXCEPT !.app = "mesh", !.connected = @ \/ role = "ROOT"]

espmesh_set_link_change_cb == s.app = "bridge" /\ s' = [s EXCEPT !.app = "loop", !.cb = TRUE]

\* A parent that is associated has a layer and an address.
espmesh_is_connected == s.connected \/ s.link
espmesh_get_root_addr == s.have_root \/ s.link

\* A turn of the application's loop tries to send and publishes how it went.
blebridge_set_status(v) == s' = [s EXCEPT !.status = v]
usermain ==
  \/ /\ s.app = "loop" /\ s.todo["app"] = << >>
     /\ \/ espmesh_is_connected /\ espmesh_get_root_addr /\ blebridge_set_status("sent")
        \/ blebridge_set_status("not sent")
  \/ s.app = "idle" /\ UNCHANGED s

-----------------------------------------------------------------------------

Init ==
  s \in [app : {"boot"}, host : {"none"}, link : {FALSE}, events : {<< >>},
         connected : {FALSE}, have_root : {FALSE}, cb : {FALSE},
         synced : {FALSE}, paused : {FALSE}, scanning : {FALSE}, disc : {FALSE}, adv : {FALSE},
         armed : {FALSE}, status : {"boot"}, name : {"given"}, data : {"none"},
         rare : {0},
         todo : {[a \in {"app", "event", "host"} |-> << >>]}]

\* Inside a call, and when an event or the callout is due.
Inside(a) ==
  \/ ble_gap_adv_stop(a) \/ ble_gap_adv_set_fields(a) \/ ble_gap_adv_start(a)
  \/ ble_gap_disc(a) \/ ble_gap_disc_cancel(a) \/ set_scanning(a)
  \/ blebridge_pause_scan(a) \/ Test(a) \/ blebridge_resume_scan(a)
Callout == ble_npl_callout_reset \/ dbg_callout_fn

Next ==
  \/ \E a \in {"app", "event", "host"} : Inside(a)
  \/ Callout
  \/ on_sync \/ on_mesh_event
  \/ \E e \in {"CONNECTED", "DISCONNECTED", "ROOT_ADDRESS"} : Post(e)
  \/ \E role \in Roles : espmesh_start(role)
  \/ blebridge_start \/ espmesh_set_link_change_cb
  \/ usermain \/ blebridge_update_name

-----------------------------------------------------------------------------

\* The task that delivers events of the mesh has done what the last one asked.
EventsDone == s.events = << >> /\ s.todo["event"] = << >>

\* No pause outlives the reconnection, and the bridge is on the air again after
\* it: once the tasks that start the radio have done so it advertises and scans,
\* as long as no call of NimBLE failed and the node kept its name.
BridgeServes ==
  EventsDone =>
    /\ s.paused => ~s.connected
    /\ ~s.paused /\ s.synced /\ s.todo["host"] = << >> /\ s.rare = 0 => s.adv /\ s.disc

\* "Guards BOTH scan and advertising", "Pause/resume the passive scan": once the
\* bridge has been paused it does not scan.
ScanPaused == EventsDone /\ s.paused => ~s.disc

\* v is advertised, replaced or not to be advertised now.
Settled(v) == s.status # v \/ s.paused \/ ~s.synced \/ (s.adv /\ s.data = v)
=============================================================================
