-------------------------- MODULE CameraProvisioning --------------------------
(***************************************************************************)
(* Cameras, their transport policy and their paths in MediaMTX:            *)
(* routers/cameras.py, routers/camera_config.py, routers/mediamtx_admin.py *)
(* and the services below them, with the two sweeps that provision every   *)
(* camera, the one of MediaMTX's start hook and the one of the server's    *)
(* own start.                                                              *)
(*                                                                         *)
(* A job is a request or a sweep; between two of its awaits it is one      *)
(* step.  MediaMTX keeps added paths in memory.  It answers a call after   *)
(* its effect, and the answer, or the call, may be lost.                   *)
(***************************************************************************)
EXTENDS Naturals, FiniteSets

CONSTANTS
  Cameras,
  Jobs,        \* how many requests and sweeps are under way is bounded by this set
  Lenient,     \* policies the gate lets everything pass under: preferred, plaintext_allowed
  MaxRetries,  \* attempts per camera of a sweep
  MaxEdits     \* bound on the operator's changes to rows and on URLs pushed by hand

ASSUME LenientAssumption == Lenient # {} /\ {"required", "unset"} \cap Lenient = {}
ASSUME BoundsAssumption == MaxRetries \in Nat \ {0} /\ MaxEdits \in Nat

VARIABLES
  camera,   \* camera[c]: its row: status, url and life (is_active)
  config,   \* config[c]: its CameraConfig: policy ("unset": there is no row), source, setBy
  path,     \* path[c]: what MediaMTX pulls for it, "none" if there is no path
  job,      \* job[j]: see JobType
  edits,    \* the operator's changes so far, for the bound
  firm,     \* history: cameras whose policy the operator set while no job was at them
  removed   \* history: cameras whose path has been removed since it was added last

rows    == <<camera, config, edits>>
history == <<firm, removed>>
vars    == <<rows, path, job, history>>

Schemes  == {"plain", "tls"}
Policies == Lenient \cup {"required"}
Tags     == Schemes \cup {"none", "gated", "bare"}
Sweeps   == {"hook", "one"}
Ops      == Sweeps \cup {"idle", "create", "push", "admin", "provision", "unprovision", "patch", "probe", "boot"}
Places   == {"idle", "query", "next", "add", "added", "delete", "deleted", "readd", "readded", "patch", "probe"}
JobRecord ==
  [op : Ops,
   cam : Cameras \cup {"none"},
   at : Places,
   policy : Policies \cup {"unset"},  \* as a probe read it
   source : Schemes \cup {"none"},    \* what it will add
   probe : {"none", "keep", "set", "reset"},  \* what a probe's answer may change
   tries : 0..MaxRetries,
   left : SUBSET (Cameras \X Tags),
   answer : {"none", "ok", "exists", "error"}]
JobType == {r \in JobRecord : r.at \notin {"idle", "query", "next"} => r.cam \in Cameras}

Idle == [op |-> "idle", cam |-> "none", at |-> "idle", policy |-> "unset", source |-> "none",
         probe |-> "none", tries |-> 0, left |-> {}, answer |-> "none"]
NoConfig == [policy |-> "unset", source |-> "none", setBy |-> "probe"]
NoCamera == [status |-> "absent", url |-> "none", life |-> "none"]

Known(c)      == camera[c].status # "absent"
Configured(c) == config[c].policy # "unset"
At(j, c)      == job[j].cam = c \/ \E tag \in Tags : <<c, tag>> \in job[j].left
Quiet(c)      == \A j \in Jobs : ~At(j, c) /\ job[j].at # "query"
------------------------------------------------------------------------------
CameraType ==
  [status : {"absent", "unknown", "provisioned", "failed", "blocked"},
   url : Schemes \cup {"none"}, life : {"none", "active", "deleted"}]
ConfigType ==
  [policy : Policies \cup {"unset"}, source : Schemes \cup {"none"}, setBy : {"probe", "operator"}]

RowType ==
  /\ camera \in [Cameras -> CameraType] /\ config \in [Cameras -> ConfigType]
  /\ edits \in Nat

PathType ==
  /\ path \in [Cameras -> Schemes \cup {"none"}]
  /\ firm \subseteq Cameras /\ removed \subseteq Cameras

TypeOK == RowType /\ PathType /\ job \in [Jobs -> JobType]

Init ==
  /\ camera = [c \in Cameras |-> NoCamera]
  /\ config = [c \in Cameras |-> NoConfig]
  /\ path = [c \in Cameras |-> "none"]
  /\ job = [j \in Jobs |-> Idle]
  /\ edits = 0
  /\ firm = {} /\ removed = {}
------------------------------------------------------------------------------
(* enforce_transport_policy; policy_for_outcome never requires TLS *)

\* Mutant: the gate refuses nothing
RefusesNothing(policy, source) == FALSE

Refuses(policy, source) == policy = "required" /\ source = "plain"

\* A job reads a policy and a source, which it keeps to the end, and is refused
\* before any call if they do not agree; "unset" is None, which refuses nothing
Begin(j, op, c, policy, source) ==
  /\ job[j] = Idle
  /\ ~Refuses(policy, source)
  /\ job' = [job EXCEPT ![j] = [Idle EXCEPT !.op = op, !.cam = c, !.at = "add", !.source = source]]

Reply(j, at, answer) == job' = [job EXCEPT ![j] = [@ EXCEPT !.at = at, !.answer = answer]]
Goto(j, at) == Reply(j, at, "none")
Finish(j)   == job' = [job EXCEPT ![j] = Idle]
SetStatus(c, status) == camera' = [camera EXCEPT ![c].status = status]
Store(c, policy, source, setBy) ==
  config' = [config EXCEPT ![c] = [policy |-> policy, source |-> source, setBy |-> setBy]]
------------------------------------------------------------------------------
(* Rows *)

Edit == edits < MaxEdits /\ edits' = edits + 1

\* create_camera: the row is committed, then pushed with no policy, ahead of the probe
CreateCamera(j, c, u) ==
  /\ ~Known(c)
  /\ camera' = [camera EXCEPT ![c] = [status |-> "unknown", url |-> u, life |-> "active"]]
  /\ IF u = "none" THEN UNCHANGED job ELSE Begin(j, "create", c, "unset", u)
  /\ UNCHANGED <<config, edits, path, history>>

\* PUT /cameras/{id}: neither the policy nor the path is looked at
UpdateUrl(c, u) ==
  /\ Edit
  /\ Known(c)
  /\ camera' = [camera EXCEPT ![c].url = u]
  /\ UNCHANGED <<config, path, job, history>>

\* A soft delete, which leaves the path
DeleteCamera(c) ==
  /\ Edit
  /\ Known(c)
  /\ camera' = [camera EXCEPT ![c].life = "deleted"]
  /\ UNCHANGED <<config, path, job, history>>

\* POST and PUT of /camera-config, with or without a policy, which is stored but
\* not marked as the operator's
UpsertConfig(c, policy, source) ==
  /\ Edit
  /\ Known(c)
  /\ \E default \in Lenient :
       Store(c, IF policy # "unset" THEN policy ELSE IF Configured(c) THEN config[c].policy ELSE default,
             source, config[c].setBy)
  /\ firm' = IF policy = "unset" THEN firm ELSE firm \ {c}
  /\ UNCHANGED <<camera, path, job, removed>>

\* PUT /cameras/{id}/transport-security
SetPolicy(c, policy) ==
  /\ Edit
  /\ Known(c) /\ Configured(c)
  /\ Store(c, policy, config[c].source, "operator")
  /\ \/ Quiet(c) /\ firm' = firm \cup {c}
     \/ ~Quiet(c) /\ firm' = firm \ {c}
  /\ UNCHANGED <<camera, path, job, removed>>
------------------------------------------------------------------------------
(* The probes *)

\* POST /cameras/{id}/probe-transport: the row is read before the probe is awaited
StartProbe(j, c, reset) ==
  /\ job[j] = Idle
  /\ Known(c) /\ camera[c].url # "none" /\ Configured(c)
  /\ job' = [job EXCEPT ![j] = [Idle EXCEPT
       !.op = "probe", !.cam = c, !.at = "probe", !.policy = config[c].policy,
       !.probe = IF config[c].setBy = "probe" THEN "set" ELSE IF reset THEN "reset" ELSE "keep"]]
  /\ firm' = IF reset THEN firm \ {c} ELSE firm
  /\ UNCHANGED <<rows, path, removed>>

\* Mutant: the operator's override is not looked at
ProbeOverrides(j) ==
  /\ job[j].op = "probe" /\ job[j].at = "probe"
  /\ \E policy \in Lenient : Store(job[j].cam, policy, config[job[j].cam].source, config[job[j].cam].setBy)
  /\ Finish(j)
  /\ UNCHANGED <<camera, edits, path, history>>

\* Only columns whose value differs from the one read are in the UPDATE: a
\* policy set meanwhile is overwritten, the mark set with it is not.
ProbeAnswered(j) ==
  LET c == job[j].cam IN
  /\ job[j].op = "probe" /\ job[j].at = "probe"
  /\ IF job[j].probe = "keep" THEN UNCHANGED config
     ELSE \E policy \in Lenient :
            Store(c, IF policy = job[j].policy THEN config[c].policy ELSE policy, config[c].source,
                  IF job[j].probe = "reset" THEN "probe" ELSE config[c].setBy)
  /\ Finish(j)
  /\ UNCHANGED <<camera, edits, path, history>>

\* create_camera once its push has worked: the status that waits for the commit,
\* and the configuration, unless an operator's has come in between
CreateProbed(j) ==
  LET c == job[j].cam IN
  /\ job[j].op = "create" /\ job[j].at = "probe"
  /\ SetStatus(c, "provisioned")
  /\ \E policy \in Lenient :
       \/ ~Configured(c) /\ Store(c, policy, job[j].source, "probe")
       \/ Configured(c) /\ config[c].setBy = "probe" /\ Store(c, policy, config[c].source, "probe")
       \/ Configured(c) /\ config[c].setBy = "operator" /\ UNCHANGED config
  /\ Finish(j)
  /\ UNCHANGED <<edits, path, history>>
------------------------------------------------------------------------------
(* Requests that provision *)

\* POST /cameras/{id}/provision-mediamtx
Push(j, c) ==
  /\ Known(c) /\ camera[c].url # "none"
  /\ Begin(j, "push", c, config[c].policy, camera[c].url)
  /\ UNCHANGED <<rows, path, history>>

\* POST /mediamtx/admin/streams/push/{id}, of any URL
AdminPush(j, c, u) ==
  /\ Edit
  /\ Known(c)
  /\ Begin(j, "admin", c, config[c].policy, u)
  /\ UNCHANGED <<camera, config, path, history>>

\* POST /camera-config/{id}/provision, of the configuration's URL
Provision(j, c) ==
  /\ Known(c) /\ Configured(c)
  /\ Begin(j, "provision", c, config[c].policy, config[c].source)
  /\ UNCHANGED <<rows, path, history>>

Unprovision(j, c) ==
  /\ job[j] = Idle /\ Known(c)
  /\ job' = [job EXCEPT ![j] = [Idle EXCEPT !.op = "unprovision", !.cam = c, !.at = "delete"]]
  /\ UNCHANGED <<rows, path, history>>

\* PATCH /mediamtx/admin/paths/{id} with a source
PatchSource(j, c, u) ==
  /\ Edit
  /\ job[j] = Idle /\ Known(c) /\ ~Refuses(config[c].policy, u)
  /\ job' = [job EXCEPT ![j] = [Idle EXCEPT !.op = "patch", !.cam = c, !.at = "patch", !.source = u]]
  /\ UNCHANGED <<camera, config, path, history>>

\* POST /mediamtx/startup/provision-camera/{id}: the sweep's steps for one camera
ProvisionOne(j, c) ==
  /\ job[j] = Idle
  /\ Known(c) /\ camera[c].life = "active" /\ camera[c].url # "none"
  /\ job' = [job EXCEPT ![j] = [Idle EXCEPT !.op = "one", !.at = "next",
                                 !.left = {<<c, IF Configured(c) THEN "gated" ELSE "bare">>}]]
  /\ UNCHANGED <<rows, path, history>>
------------------------------------------------------------------------------
(* MediaMTX *)

\* POST /config/paths/add: an existing path is left as it is
MtxAdd(j) ==
  LET c == job[j].cam
      done == IF job[j].at = "add" THEN "added" ELSE "readded"
  IN
  /\ job[j].at \in {"add", "readd"}
  /\ \E answer \in {IF path[c] = "none" THEN "ok" ELSE "exists", "error"} :
       Reply(j, done, answer)
  /\ \/ /\ path[c] = "none"
        /\ path' = [path EXCEPT ![c] = job[j].source]
        /\ removed' = removed \ {c}
     \/ /\ job'[j].answer # "ok"
        /\ UNCHANGED <<path, removed>>
  /\ UNCHANGED <<rows, firm>>

MtxDelete(j) ==
  LET c == job[j].cam IN
  /\ job[j].at = "delete"
  /\ \E answer \in {IF path[c] = "none" THEN "error" ELSE "ok", "error"} :
       Reply(j, "deleted", answer)
  /\ \/ path' = [path EXCEPT ![c] = "none"] /\ removed' = removed \cup {c}
     \/ job'[j].answer # "ok" /\ UNCHANGED <<path, removed>>
  /\ UNCHANGED <<rows, firm>>

MtxPatch(j) ==
  LET c == job[j].cam IN
  /\ job[j].at = "patch"
  /\ path' \in {path, [path EXCEPT ![c] = IF @ = "none" THEN @ ELSE job[j].source]}
  /\ Finish(j)
  /\ UNCHANGED <<rows, history>>

\* Its paths are lost; its hook may call, and get through, or not
MtxRestart ==
  /\ \E c \in Cameras : path[c] # "none"
  /\ path' = [c \in Cameras |-> "none"]
  /\ removed' = removed \cup {c \in Cameras : path[c] # "none"}
  /\ \/ UNCHANGED job
     \/ \E j \in Jobs : /\ job[j] = Idle
                        /\ job' = [job EXCEPT ![j] = [Idle EXCEPT !.op = "hook", !.at = "query"]]
  /\ UNCHANGED <<rows, firm>>
------------------------------------------------------------------------------
(* What a request does with MediaMTX's answer *)

\* push_rtsp_stream: a path that exists is deleted and added again
PushAnswered(j) ==
  LET c == job[j].cam IN
  /\ job[j].op \in {"create", "push", "admin"}
  /\ \/ /\ job[j].at = "added" /\ job[j].answer = "exists"
        /\ Goto(j, "delete") /\ UNCHANGED camera
     \/ /\ job[j].at = "deleted"
        /\ IF job[j].answer = "ok" THEN Goto(j, "readd") ELSE Finish(j)
        /\ UNCHANGED camera
     \/ /\ job[j].at \in {"added", "readded"} /\ job[j].answer = "ok"
        /\ IF job[j].op = "create" THEN Goto(j, "probe") ELSE Finish(j)
        /\ IF job[j].op = "push" THEN SetStatus(c, "provisioned") ELSE UNCHANGED camera
     \/ /\ \/ job[j].at = "readded" /\ job[j].answer # "ok"
           \/ job[j].at = "added" /\ job[j].answer = "error"
        /\ Finish(j) /\ UNCHANGED camera
  /\ UNCHANGED <<config, edits, path, history>>

\* The routes of camera_config.py hand the answer on and store nothing
Answered(j) ==
  /\ \/ job[j].op = "provision" /\ job[j].at = "added"
     \/ job[j].op = "unprovision" /\ job[j].at = "deleted"
  /\ Finish(j)
  /\ UNCHANGED <<rows, path, history>>
------------------------------------------------------------------------------
(* MediaMtxStartupService: the sweep of the hook, and one camera's *)

QueryActive(j) ==
  /\ job[j].op = "hook" /\ job[j].at = "query"
  /\ job' = [job EXCEPT ![j] = [@ EXCEPT !.at = "next",
       !.left = {<<c, IF Configured(c) THEN "gated" ELSE "bare">> :
                    c \in {d \in Cameras : camera[d].life = "active" /\ camera[d].url # "none"}}]]
  /\ UNCHANGED <<rows, path, history>>

Skips(j, left) == job' = [job EXCEPT ![j] = [@ EXCEPT !.left = left]]
Tries(j, c, source, left) ==
  job' = [job EXCEPT ![j] = [@ EXCEPT !.cam = c, !.at = "add", !.source = source, !.left = left]]

\* The commit for the camera before has expired the rows: they are read again, but
\* not whether the camera is active, nor whether it has a configuration by now.
SweepNext(j, c, tag) ==
  LET policy == IF tag = "bare" THEN "unset" ELSE config[c].policy
      left   == job[j].left \ {<<c, tag>>}
  IN
  /\ job[j].op \in Sweeps /\ job[j].at = "next" /\ <<c, tag>> \in job[j].left
  /\ \/ Refuses(policy, camera[c].url) /\ Skips(j, left) /\ SetStatus(c, "blocked")
     \/ ~Refuses(policy, camera[c].url) /\ Tries(j, c, camera[c].url, left) /\ UNCHANGED camera
  /\ UNCHANGED <<config, edits, path, history>>

\* On to the next camera
Continue(j) == job' = [job EXCEPT ![j] = [Idle EXCEPT !.op = job[j].op, !.at = "next", !.left = job[j].left]]

\* Mutant: any answer is as good as another
SweepTrusts(j) ==
  /\ job[j].op \in Sweeps /\ job[j].at = "added"
  /\ SetStatus(job[j].cam, "provisioned") /\ Continue(j)
  /\ UNCHANGED <<config, edits, path, history>>

\* Mutant: a camera is tried for ever
SweepNeverGivesUp(j) ==
  /\ job[j].op \in Sweeps /\ job[j].at = "added" /\ job[j].answer = "error"
  /\ job' = [job EXCEPT ![j] = [@ EXCEPT !.at = "add", !.answer = "none", !.tries = @ + 1]]
  /\ UNCHANGED <<rows, path, history>>

\* A path that exists is as good as one that has been added
SweepAnswered(j) ==
  LET c == job[j].cam
      tries == job[j].tries + 1
  IN
  /\ job[j].op \in Sweeps /\ job[j].at = "added"
  /\ \/ job[j].answer # "error" /\ SetStatus(c, "provisioned") /\ Continue(j)
     \/ /\ job[j].answer = "error" /\ tries < MaxRetries
        /\ job' = [job EXCEPT ![j] = [@ EXCEPT !.at = "add", !.answer = "none", !.tries = tries]]
        /\ UNCHANGED camera
     \/ /\ job[j].answer = "error" /\ tries = MaxRetries
        /\ SetStatus(c, "failed") /\ Continue(j)
  /\ UNCHANGED <<config, edits, path, history>>

SweepEnds(j) ==
  /\ job[j].op \in Sweeps \cup {"boot"} /\ job[j].at = "next" /\ job[j].left = {}
  /\ Finish(j)
  /\ UNCHANGED <<rows, path, history>>
------------------------------------------------------------------------------
(* The server: a restart ends every job, and starts a sweep of its own (main.py) *)

Restart ==
  /\ \E j \in Jobs : job' = [k \in Jobs |-> IF k = j THEN [Idle EXCEPT !.op = "boot", !.at = "query"]
                                           ELSE Idle]
  /\ UNCHANGED <<rows, path, history>>

\* Every camera with a configuration, deleted ones too, with its source as of now
QueryConfigs(j) ==
  /\ job[j].op = "boot" /\ job[j].at = "query"
  /\ job' = [job EXCEPT ![j] = [@ EXCEPT !.at = "next",
       !.left = {<<c, config[c].source>> : c \in {d \in Cameras : Configured(d)}}]]
  /\ UNCHANGED <<rows, path, history>>

\* No policy is handed on, so that nothing is refused
BootNext(j, c, u) ==
  /\ job[j].op = "boot" /\ job[j].at = "next" /\ <<c, u>> \in job[j].left
  /\ Tries(j, c, u, job[j].left \ {<<c, u>>})
  /\ UNCHANGED <<rows, path, history>>

BootAnswered(j) ==
  /\ job[j].op = "boot" /\ job[j].at = "added"
  /\ Continue(j)
  /\ UNCHANGED <<rows, path, history>>
------------------------------------------------------------------------------
Operator ==
  \E c \in Cameras :
    \/ DeleteCamera(c)
    \/ \E u \in Schemes : UpdateUrl(c, u)
    \/ \E policy \in Policies : SetPolicy(c, policy)
    \/ \E policy \in Policies \cup {"unset"}, u \in Schemes : UpsertConfig(c, policy, u)

Requested(j) ==
  \E c \in Cameras :
    \/ \E u \in Schemes \cup {"none"} : CreateCamera(j, c, u)
    \/ \E reset \in BOOLEAN : StartProbe(j, c, reset)
    \/ \E u \in Schemes : AdminPush(j, c, u) \/ PatchSource(j, c, u)
    \/ Push(j, c) \/ Provision(j, c) \/ Unprovision(j, c) \/ ProvisionOne(j, c)

Proceeds(j) ==
  \/ MtxAdd(j) \/ MtxDelete(j) \/ MtxPatch(j)
  \/ ProbeAnswered(j) \/ CreateProbed(j) \/ PushAnswered(j) \/ Answered(j)
  \/ QueryActive(j) \/ SweepAnswered(j) \/ SweepEnds(j)
  \/ QueryConfigs(j) \/ BootAnswered(j)
  \/ \E c \in Cameras, tag \in {"gated", "bare"} : SweepNext(j, c, tag)
  \/ \E c \in Cameras, u \in Schemes : BootNext(j, c, u)

Next == Operator \/ MtxRestart \/ Restart \/ \E j \in Jobs : Requested(j) \/ Proceeds(j)

Spec == Init /\ [][Next]_vars
------------------------------------------------------------------------------
Unedited == edits' = edits

\* An override of the operator's, once it is in force, stays as it is until an
\* operator changes or resets it: no probe and no creation undoes it.
OverrideKept ==
  [][\A c \in firm \cap firm' : Unedited => config'[c].policy = config[c].policy
                                        /\ config'[c].setBy = "operator"]_vars

\* A camera for which the operator has required TLS gets no plaintext path: none is
\* added, and none is changed to plaintext, but by the sweep of the server's own
\* start, which hands on no policy.
Booting(c) == \E j \in Jobs : job[j].op = "boot" /\ job[j].cam = c
RequiredIsRefused ==
  [][\A c \in firm : config[c].policy = "required" /\ path'[c] = "plain"
       => path[c] = "plain" \/ Booting(c)]_vars

\* A camera is called provisioned only if MediaMTX has its path, or has lost it since
ProvisionedIsTrue ==
  \A c \in Cameras : camera[c].status = "provisioned" => path[c] # "none" \/ c \in removed

\* "... so the transport-policy gate runs here and covers every caller"
\* (services/mediamtx_admin_service.py:753); "runtime enforcement at every
\* stream-provisioning entry point" (docs/COMPLIANCE.md:21).
GateCoversEveryCaller ==
  [][\A c \in firm : config[c].policy = "required" /\ path'[c] = "plain" => path[c] = "plain"]_vars
==============================================================================
