----------------------------- MODULE UvcGadget -----------------------------
(***************************************************************************)
(* The life of the endpoints and requests of uvc_camera.c: the host        *)
(* configures the device, selects alternate settings, disconnects and      *)
(* comes back (setup, disconnect); transfers end well, with an error or    *)
(* because an endpoint is shut down (complete); and in set_interface each  *)
(* allocation and each submission can fail.  All handlers run in the USB   *)
(* interrupt; tasks submit what the interrupt has set up.                  *)
(***************************************************************************)
EXTENDS Integers, FiniteSets

CONSTANTS
  Reqs,      \* addresses the allocator of usb_requests hands out
  NoReq,     \* NULL
  Failures,  \* what may go wrong in set_interface: a subset of FailPoints
  Alts       \* alternate settings the host may select

Video == "video"                  \* video_in_ep
Cmd == "cmd"                      \* ext_cmd_out_ep
Resp == "resp"                    \* ext_resp_in_ep
Endpoints == {Video, Cmd, Resp}

\* No failure, or the first call of set_interface that fails.
FailPoints == {"none", "enable", "alloc video", "alloc cmd", "queue cmd", "alloc resp", "queue resp"}

ASSUME GadgetAssumption ==
  /\ Reqs \subseteq Nat /\ NoReq \notin Reqs /\ IsFiniteSet(Reqs) /\ Cardinality(Reqs) > 3
  /\ Failures \subseteq FailPoints /\ Alts \subseteq Nat

VARIABLES
  bus,     \* what the host believes: "off", "default" or "configured"
  cfg, ifc,  \* m_uvc_camera.cfg and .ifc
  dev,     \* endpoints, requests, allocator and controller queues
  held,    \* endpoint -> request a task in a call has read
  stale,   \* a task has queued a request that had been freed
  served,  \* the latest configuration or interface request was accepted
  halted   \* a configASSERT failed and stopped the system

taskVars == <<held, stale>>
vars == <<bus, cfg, ifc, dev, taskVars, served, halted>>

Devices == [enabled : BOOLEAN,                \* the ep pointers are set
            req : [Endpoints -> Reqs \cup {NoReq}],
            allocated : SUBSET Reqs,
            queue : [Endpoints -> SUBSET Reqs],
            twice : BOOLEAN]                  \* a request was freed twice

TypeOK ==
  /\ bus \in {"off", "default", "configured"}
  /\ cfg \in {0, 1} /\ ifc \in Alts \cup {0} /\ dev \in Devices
  /\ held \in [Endpoints -> Reqs \cup {NoReq}] /\ stale \in BOOLEAN
  /\ served \in BOOLEAN /\ halted \in BOOLEAN

Init ==
  /\ bus = "off" /\ cfg = 0 /\ ifc = 0 /\ served = FALSE /\ halted = FALSE
  /\ held = [e \in Endpoints |-> NoReq] /\ stale = FALSE
  /\ dev = [enabled |-> FALSE, req |-> [e \in Endpoints |-> NoReq], allocated |-> {},
            queue |-> [e \in Endpoints |-> {}], twice |-> FALSE]

-----------------------------------------------------------------------------
\* free_request for the requests of endpoints es that are not NULL.
FreeRequests(d, es) ==
  LET gone == {d.req[e] : e \in es} \ {NoReq} IN
  [d EXCEPT !.allocated = @ \ gone,
            !.req = [e \in Endpoints |-> IF e \in es THEN NoReq ELSE @[e]],
            !.twice = @ \/ ~(gone \subseteq d.allocated)]

(* uvc_camera_disable_eps: the controller gives back what is queued with
   -ESHUTDOWN; complete() does nothing with it when the request is NULL. *)
DisableEndpoints(d) ==
  [d EXCEPT !.enabled = FALSE, !.queue = [e \in Endpoints |-> {}]]

\* Variants with one plausible slip each, here and below, for the mutation runs.
CleanupKeepsResp(d) == DisableEndpoints(FreeRequests(d, {Video, Cmd}))
CleanupKeepsEndpoints(d) == FreeRequests(d, Endpoints)

Cleanup(d) == DisableEndpoints(FreeRequests(d, Endpoints))

\* alloc_request for endpoint e: the first free address.
Allocate(d, e) ==
  LET r == CHOOSE r \in Reqs \ d.allocated : \A q \in Reqs \ d.allocated : r <= q IN
  [d EXCEPT !.allocated = @ \cup {r}, !.req[e] = r]
Submit(d, e) == [d EXCEPT !.queue[e] = @ \cup {d.req[e]}]

SetUpSkipsResp(d, f) ==           \* the response request is queued, not allocated
  LET cmd == Allocate(Allocate([d EXCEPT !.enabled = TRUE], Video), Cmd) IN
  IF f = "enable" THEN d ELSE Submit(Submit(cmd, Cmd), Resp)

\* How far set_interface(0) comes when it fails at f.
SetUp(d, f) ==
  LET enabled == [d EXCEPT !.enabled = TRUE]
      video == Allocate(enabled, Video)
      cmd == Allocate(video, Cmd)
      cmdQueued == Submit(cmd, Cmd)
      resp == Allocate(cmdQueued, Resp) IN
  CASE f = "enable" -> d
    [] f = "alloc video" -> enabled
    [] f = "alloc cmd" -> video
    [] f = "queue cmd" -> cmd
    [] f = "alloc resp" -> cmdQueued
    [] f = "queue resp" -> resp
    [] OTHER -> Submit(resp, Resp)

(* set_interface(alt >= 0).  Endpoints that are set are left as they are; a
   failure undoes everything.  ret is the answer of the latest call that set it:
   the request of the response endpoint is allocated after the command request
   was queued, and ret is 0. *)
SetInterface(d, f) ==
  IF d.enabled
    THEN [dev |-> d, ret |-> 0]
    ELSE [dev |-> IF f = "none" THEN SetUp(d, f) ELSE Cleanup(SetUp(d, f)),
          ret |-> IF f \in {"none", "alloc resp"} THEN 0 ELSE -1]

-----------------------------------------------------------------------------
Connect ==
  /\ bus = "off" /\ bus' = "default"
  /\ UNCHANGED <<cfg, ifc, dev, taskVars, served, halted>>

SetConfigKeepsOld(v, f) ==        \* the old configuration is not torn down
  /\ bus # "off"
  /\ LET new == IF v = 1 THEN SetInterface(dev, f) ELSE [dev |-> dev, ret |-> 0]
         ok == new.ret = 0 IN
       /\ dev' = new.dev
       /\ ifc' = IF cfg # 0 THEN 0 ELSE ifc
       /\ cfg' = IF v = 1 /\ ok THEN 1 ELSE 0
       /\ bus' = IF v = 1 /\ ok THEN "configured" ELSE "default"
       /\ served' = (v = 1 /\ ok)
  /\ UNCHANGED <<taskVars, halted>>

\* SET_CONFIG v; other values than 0 and 1 are refused and change nothing here.
SetConfig(v, f) ==
  /\ bus # "off"
  /\ LET old == IF cfg # 0 THEN Cleanup(dev) ELSE dev
         new == IF v = 1 THEN SetInterface(old, f) ELSE [dev |-> old, ret |-> 0]
         ok == new.ret = 0 IN
       /\ dev' = new.dev
       /\ ifc' = IF cfg # 0 THEN 0 ELSE ifc
       /\ cfg' = IF v = 1 /\ ok THEN 1 ELSE 0
       /\ bus' = IF v = 1 /\ ok THEN "configured" ELSE "default"
       /\ served' = (v = 1 /\ ok)
  /\ UNCHANGED <<taskVars, halted>>

(* SET_INTERFACE alt: an alternate setting other than the one before sets all
   endpoints up again, whatever the interface. *)
SelectAlt(alt, f) ==
  /\ bus = "configured" /\ cfg # 0
  /\ IF ifc = alt
       THEN served' = TRUE /\ UNCHANGED <<dev, ifc>>
       ELSE LET new == SetInterface(Cleanup(dev), f) IN
            /\ dev' = new.dev
            /\ ifc' = IF new.ret = 0 THEN alt ELSE ifc
            /\ served' = (new.ret = 0)
  /\ UNCHANGED <<bus, cfg, taskVars, halted>>

DisconnectKeepsPointers ==        \* the pointers to freed requests stay
  /\ bus # "off"
  /\ bus' = "off" /\ served' = FALSE
  /\ dev' = [FreeRequests(dev, Endpoints) EXCEPT !.req = dev.req]
  /\ UNCHANGED <<cfg, ifc, taskVars, halted>>

(* disconnect(): the requests are freed, their endpoints stay enabled, the
   configuration stays.  Its assertions: a request has an endpoint. *)
Disconnect ==
  /\ bus # "off"
  /\ bus' = "off" /\ served' = FALSE
  /\ IF ~dev.enabled /\ \E e \in Endpoints : dev.req[e] # NoReq
       THEN halted' = TRUE /\ UNCHANGED dev
       ELSE dev' = FreeRequests(dev, Endpoints) /\ UNCHANGED halted
  /\ UNCHANGED <<cfg, ifc, taskVars>>

-----------------------------------------------------------------------------
(* The tasks of usb_bulk_commit_frame, usb_bulk_acm_recv_buffer and
   usb_bulk_acm_send_buffer read endpoint and request once, at the beginning of a
   call, and queue what they have read whenever they find it idle. *)
TaskEnter(e) ==
  /\ held[e] = NoReq /\ dev.enabled /\ dev.req[e] # NoReq
  /\ held' = [held EXCEPT ![e] = dev.req[e]]
  /\ UNCHANGED <<bus, cfg, ifc, dev, stale, served, halted>>

TaskSubmit(e) ==
  /\ held[e] # NoReq /\ dev.enabled /\ dev.queue[e] = {}
  /\ dev' = [dev EXCEPT !.queue[e] = {held[e]}]
  /\ stale' = (stale \/ held[e] # dev.req[e])
  /\ UNCHANGED <<bus, cfg, ifc, held, served, halted>>

TaskReturn(e) ==
  /\ held[e] # NoReq
  /\ held' = [held EXCEPT ![e] = NoReq]
  /\ UNCHANGED <<bus, cfg, ifc, dev, stale, served, halted>>

\* A transfer ends well; the handlers assert that it was the current request's.
Complete(e, r) ==
  /\ bus = "configured" /\ r \in dev.queue[e]
  /\ IF r = dev.req[e]
       THEN dev' = [dev EXCEPT !.queue[e] = @ \ {r}] /\ UNCHANGED halted
       ELSE halted' = TRUE /\ UNCHANGED dev
  /\ UNCHANGED <<bus, cfg, ifc, taskVars, served>>

ShutdownNoNullCheck(e, r) ==      \* a request freed already is not expected
  /\ r \in dev.queue[e]
  /\ IF r = dev.req[e]
       THEN dev' = FreeRequests([dev EXCEPT !.queue[e] = @ \ {r}], {e}) /\ UNCHANGED halted
       ELSE halted' = TRUE /\ UNCHANGED dev
  /\ UNCHANGED <<bus, cfg, ifc, taskVars, served>>

(* complete() with -ESHUTDOWN, or with an error when the request cannot be queued
   again: the request is freed, unless its pointer is NULL already. *)
Shutdown(e, r) ==
  /\ r \in dev.queue[e]
  /\ LET d == [dev EXCEPT !.queue[e] = @ \ {r}] IN
       IF dev.req[e] = NoReq
         THEN dev' = d /\ UNCHANGED halted
         ELSE IF r = dev.req[e]
                THEN dev' = FreeRequests(d, {e}) /\ UNCHANGED halted
                ELSE halted' = TRUE /\ UNCHANGED dev
  /\ UNCHANGED <<bus, cfg, ifc, taskVars, served>>

Next ==
  /\ ~halted
  /\ \/ Connect \/ Disconnect
     \/ \E v \in {0, 1}, f \in Failures : SetConfig(v, f)
     \/ \E alt \in Alts, f \in Failures : SelectAlt(alt, f)
     \/ \E e \in Endpoints : TaskEnter(e) \/ TaskSubmit(e) \/ TaskReturn(e)
     \/ \E e \in Endpoints, r \in Reqs : Complete(e, r) \/ Shutdown(e, r)

Spec == Init /\ [][Next]_vars

-----------------------------------------------------------------------------
(* A request is freed once: the five places that free one agree on who did,
   also when an endpoint is shut down before, while or after they run. *)
FreedOnce == ~dev.twice

(* No request is lost: what is allocated is what the endpoints point to, and no
   two endpoints share one. *)
NothingLeaked ==
  /\ dev.allocated = {dev.req[e] : e \in Endpoints} \ {NoReq}
  /\ \A e, f \in Endpoints : dev.req[e] = dev.req[f] /\ dev.req[e] # NoReq => e = f

(* The assertions of complete() and of disconnect() hold, a transfer that ends is
   the one of the endpoint's request: reconfiguration alone never leaves one of an
   earlier request behind, only a task does that has slept through it. *)
AssertionsHold == halted => stale

(* Without a configuration no endpoint is enabled and the controller has no
   buffer to write to. *)
QuietWhenUnconfigured ==
  cfg = 0 => ~dev.enabled /\ \A e \in Endpoints : dev.queue[e] = {}

(* A SET_CONFIG in which nothing fails makes the device usable, whatever came
   before it: failed alternate settings, shut down endpoints, a disconnect.  One
   in which anything fails leaves no endpoint enabled, and the host is told so;
   all but one: when the request of the response endpoint cannot be allocated,
   the configuration is accepted (uvc_camera.c:882 to 929). *)
Usable(d) ==
  /\ d.enabled /\ \A e \in Endpoints : d.req[e] # NoReq
  /\ \A e \in {Cmd, Resp} : d.queue[e] = {d.req[e]}
ConfigRecovers ==
  [][\A f \in FailPoints : SetConfig(1, f) =>
       IF f = "none" THEN Usable(dev') ELSE ~dev'.enabled /\ (served' => f = "alloc resp")]_vars
=============================================================================
