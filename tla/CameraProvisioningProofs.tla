----------------------- MODULE CameraProvisioningProofs -----------------------
(***************************************************************************)
(* CameraProvisioning is type correct, an operator's override is kept, a   *)
(* camera that requires TLS gets no plaintext path but from the server's   *)
(* own start, and a camera called provisioned has had its path: for every  *)
(* set of cameras, of jobs and of lenient policies, and every bound.       *)
(***************************************************************************)
EXTENDS CameraProvisioning, TLAPS

LEMMA IdleType == Idle \in JobRecord /\ Idle \in JobType
BY BoundsAssumption DEF Idle, JobType, JobRecord, Ops, Places

LEMMA Names ==
  /\ {"create", "push", "admin", "provision", "unprovision", "patch", "probe", "boot", "hook", "one"} \subseteq Ops
  /\ {"query", "next", "add", "added", "delete", "deleted", "readd", "readded", "patch", "probe"} \subseteq Places
  /\ "hook" \in Sweeps /\ "one" \in Sweeps
BY DEF Ops, Places, Sweeps

LEMMA InitType == Init => TypeOK
BY IdleType DEF Init, TypeOK, RowType, PathType, CameraType, ConfigType, NoCamera, NoConfig

\* A job that gets a record of its type.
LEMMA JobChanges ==
  ASSUME TypeOK, NEW j \in Jobs, NEW r \in JobType, job' = [job EXCEPT ![j] = r]
  PROVE  job' \in [Jobs -> JobType]
BY DEF TypeOK

\* A configuration that is stored.
LEMMA StoreType ==
  ASSUME TypeOK, NEW c \in Cameras, NEW policy \in Policies \cup {"unset"},
         NEW source \in Schemes \cup {"none"}, NEW setBy \in {"probe", "operator"},
         Store(c, policy, source, setBy)
  PROVE  config' \in [Cameras -> ConfigType]
BY DEF TypeOK, RowType, ConfigType, Store

LEMMA ConfigFields ==
  ASSUME TypeOK, NEW c \in Cameras
  PROVE  /\ config[c].policy \in Policies \cup {"unset"}
         /\ config[c].source \in Schemes \cup {"none"}
         /\ config[c].setBy \in {"probe", "operator"}
BY DEF TypeOK, RowType, ConfigType

\* A row of which one field changes.
LEMMA OtherFields ==
  ASSUME TypeOK, NEW d, NEW value
  PROVE  /\ camera' = [camera EXCEPT ![d].status = value]
              => \A c \in Cameras : camera'[c].life = camera[c].life /\ camera'[c].url = camera[c].url
         /\ camera' = [camera EXCEPT ![d].url = value]
              => \A c \in Cameras : camera'[c].life = camera[c].life /\ camera'[c].status = camera[c].status
         /\ camera' = [camera EXCEPT ![d].life = value]
              => \A c \in Cameras : camera'[c].url = camera[c].url /\ camera'[c].status = camera[c].status
<1>1. camera \in [Cameras -> CameraType]
  BY DEF TypeOK, RowType
<1>2. ASSUME camera' = [camera EXCEPT ![d].status = value], NEW c \in Cameras
      PROVE  camera'[c].life = camera[c].life /\ camera'[c].url = camera[c].url
  BY <1>1, <1>2 DEF CameraType
<1>3. ASSUME camera' = [camera EXCEPT ![d].url = value], NEW c \in Cameras
      PROVE  camera'[c].life = camera[c].life /\ camera'[c].status = camera[c].status
  BY <1>1, <1>3 DEF CameraType
<1>4. ASSUME camera' = [camera EXCEPT ![d].life = value], NEW c \in Cameras
      PROVE  camera'[c].url = camera[c].url /\ camera'[c].status = camera[c].status
  BY <1>1, <1>4 DEF CameraType
<1> QED BY <1>2, <1>3, <1>4

\* The operator's changes to the rows.
LEMMA OperatorType == TypeOK /\ Operator => TypeOK'
<1>1. ASSUME TypeOK, NEW c \in Cameras, DeleteCamera(c) PROVE TypeOK'
  BY <1>1 DEF TypeOK, RowType, PathType, CameraType, DeleteCamera, Edit, history
<1>2. ASSUME TypeOK, NEW c \in Cameras, NEW u \in Schemes, UpdateUrl(c, u) PROVE TypeOK'
  BY <1>2 DEF TypeOK, RowType, PathType, CameraType, UpdateUrl, Edit, history
<1>3. ASSUME TypeOK, NEW c \in Cameras, NEW policy \in Policies, SetPolicy(c, policy) PROVE TypeOK'
  <2>1. config' \in [Cameras -> ConfigType]
    BY <1>3, StoreType, ConfigFields DEF SetPolicy
  <2> QED BY <1>3, <2>1 DEF TypeOK, RowType, PathType, SetPolicy, Edit
<1>4. ASSUME TypeOK, NEW c \in Cameras, NEW policy \in Policies \cup {"unset"}, NEW u \in Schemes,
             UpsertConfig(c, policy, u)
      PROVE  TypeOK'
  <2>1. PICK p \in Policies \cup {"unset"} : Store(c, p, u, config[c].setBy)
    BY <1>4, ConfigFields DEF UpsertConfig, Configured, Policies
  <2>2. config' \in [Cameras -> ConfigType]
    BY <1>4, <2>1, StoreType, ConfigFields
  <2> QED BY <1>4, <2>2 DEF TypeOK, RowType, PathType, UpsertConfig, Edit
<1> QED BY <1>1, <1>2, <1>3, <1>4 DEF Operator

\* A job that begins with a policy and a source.
LEMMA BeginType ==
  ASSUME TypeOK, NEW j \in Jobs, NEW op \in {"create", "push", "admin", "provision"},
         NEW c \in Cameras, NEW policy, NEW source \in Schemes \cup {"none"},
         Begin(j, op, c, policy, source)
  PROVE  job' \in [Jobs -> JobType]
<1> DEFINE r == [Idle EXCEPT !.op = op, !.cam = c, !.at = "add", !.source = source]
<1>1. r \in JobRecord
  BY IdleType, Names DEF JobRecord
<1>2. r \in JobType
  BY <1>1 DEF JobType, Idle
<1> QED BY <1>2, JobChanges DEF Begin

\* The requests that start a job.
LEMMA RequestedType == TypeOK /\ (\E j \in Jobs : Requested(j)) => TypeOK'
<1> SUFFICES ASSUME TypeOK, NEW j \in Jobs, NEW c \in Cameras
             PROVE  /\ \A u \in Schemes \cup {"none"} : CreateCamera(j, c, u) => TypeOK'
                    /\ \A reset \in BOOLEAN : StartProbe(j, c, reset) => TypeOK'
                    /\ \A u \in Schemes : AdminPush(j, c, u) => TypeOK'
                    /\ \A u \in Schemes : PatchSource(j, c, u) => TypeOK'
                    /\ Push(j, c) \/ Provision(j, c) => TypeOK'
                    /\ Unprovision(j, c) => TypeOK'
                    /\ ProvisionOne(j, c) => TypeOK'
  BY DEF Requested
<1>1. ASSUME NEW u \in Schemes \cup {"none"}, CreateCamera(j, c, u) PROVE TypeOK'
  <2>1. job' \in [Jobs -> JobType]
    BY <1>1, BeginType DEF CreateCamera, TypeOK
  <2> QED BY <1>1, <2>1 DEF TypeOK, RowType, PathType, CameraType, CreateCamera, history
<1>2. ASSUME NEW reset \in BOOLEAN, StartProbe(j, c, reset) PROVE TypeOK'
  <2>1. ASSUME NEW probe \in {"set", "reset", "keep"}
        PROVE  [Idle EXCEPT !.op = "probe", !.cam = c, !.at = "probe",
                            !.policy = config[c].policy, !.probe = probe] \in JobType
    <3> DEFINE r == [Idle EXCEPT !.op = "probe", !.cam = c, !.at = "probe",
                                 !.policy = config[c].policy, !.probe = probe]
    <3>1. r \in JobRecord
      BY IdleType, Names, ConfigFields DEF JobRecord
    <3> QED BY <3>1 DEF JobType, Idle
  <2>2. job' \in [Jobs -> JobType]
    BY <1>2, <2>1, JobChanges DEF StartProbe
  <2> QED BY <1>2, <2>2 DEF TypeOK, RowType, PathType, StartProbe, rows
<1>3. ASSUME NEW u \in Schemes, AdminPush(j, c, u) PROVE TypeOK'
  <2>1. job' \in [Jobs -> JobType]
    BY <1>3, BeginType DEF AdminPush
  <2> QED BY <1>3, <2>1 DEF TypeOK, RowType, PathType, AdminPush, Edit, history
<1>4. ASSUME NEW u \in Schemes, PatchSource(j, c, u) PROVE TypeOK'
  <2>1. [Idle EXCEPT !.op = "patch", !.cam = c, !.at = "patch", !.source = u] \in JobType
    <3>1. [Idle EXCEPT !.op = "patch", !.cam = c, !.at = "patch", !.source = u] \in JobRecord
      BY IdleType, Names DEF JobRecord
    <3> QED BY <3>1 DEF JobType, Idle
  <2>2. job' \in [Jobs -> JobType]
    BY <1>4, <2>1, JobChanges DEF PatchSource
  <2> QED BY <1>4, <2>2 DEF TypeOK, RowType, PathType, PatchSource, Edit, history
<1>5. ASSUME Push(j, c) \/ Provision(j, c) PROVE TypeOK'
  <2>1. camera[c].url \in Schemes \cup {"none"}
    BY DEF TypeOK, RowType, CameraType
  <2>2. job' \in [Jobs -> JobType]
    BY <1>5, <2>1, BeginType, ConfigFields DEF Push, Provision
  <2> QED BY <1>5, <2>2 DEF TypeOK, RowType, PathType, Push, Provision, rows, history
<1>6. ASSUME Unprovision(j, c) PROVE TypeOK'
  <2>1. [Idle EXCEPT !.op = "unprovision", !.cam = c, !.at = "delete"] \in JobType
    <3>1. [Idle EXCEPT !.op = "unprovision", !.cam = c, !.at = "delete"] \in JobRecord
      BY IdleType, Names DEF JobRecord
    <3> QED BY <3>1 DEF JobType, Idle
  <2>2. job' \in [Jobs -> JobType]
    BY <1>6, <2>1, JobChanges DEF Unprovision
  <2> QED BY <1>6, <2>2 DEF TypeOK, RowType, PathType, Unprovision, rows, history
<1>7. ASSUME ProvisionOne(j, c) PROVE TypeOK'
  <2>1. ASSUME NEW tag \in Tags
        PROVE  [Idle EXCEPT !.op = "one", !.at = "next", !.left = {<<c, tag>>}] \in JobType
    <3> DEFINE r == [Idle EXCEPT !.op = "one", !.at = "next", !.left = {<<c, tag>>}]
    <3>1. {<<c, tag>>} \in SUBSET (Cameras \X Tags)
      OBVIOUS
    <3>2. r \in JobRecord
      BY <3>1, IdleType, Names DEF JobRecord
    <3> QED BY <3>2 DEF JobType, Idle
  <2>2. job' \in [Jobs -> JobType]
    <3>1. (IF Configured(c) THEN "gated" ELSE "bare") \in Tags
      BY DEF Tags, Configured
    <3> QED BY <1>7, <2>1, <3>1, JobChanges DEF ProvisionOne
  <2> QED BY <1>7, <2>2 DEF TypeOK, RowType, PathType, ProvisionOne, rows, history
<1> QED BY <1>1, <1>2, <1>3, <1>4, <1>5, <1>6, <1>7

\* What a job does with an answer keeps its type.
LEMMA ReplyType ==
  ASSUME TypeOK, NEW j \in Jobs,
         NEW at \in {"delete", "added", "deleted", "readd", "readded", "probe"},
         NEW answer \in {"none", "ok", "exists", "error"},
         job[j].at \notin {"idle", "query", "next"}, Reply(j, at, answer)
  PROVE  job' \in [Jobs -> JobType]
<1>1. job[j] \in JobType
  BY DEF TypeOK
<1> DEFINE r == [job[j] EXCEPT !.at = at, !.answer = answer]
<1>2. r \in JobRecord
  BY <1>1, Names DEF JobType, JobRecord
<1>3. r \in JobType
  BY <1>1, <1>2 DEF JobType, JobRecord
<1> QED BY <1>3, JobChanges DEF Reply

LEMMA FinishType ==
  ASSUME TypeOK, NEW j \in Jobs, Finish(j)
  PROVE  job' \in [Jobs -> JobType]
BY IdleType, JobChanges DEF Finish

\* MediaMTX's effects.
LEMMA MtxType ==
  ASSUME TypeOK, NEW j \in Jobs
  PROVE  /\ MtxAdd(j) => TypeOK'
         /\ MtxDelete(j) => TypeOK'
         /\ MtxPatch(j) => TypeOK'
<1>1. ASSUME MtxAdd(j) PROVE TypeOK'
  <2>1. job' \in [Jobs -> JobType]
    BY <1>1, ReplyType DEF MtxAdd
  <2>2. PathType'
    BY <1>1 DEF MtxAdd, TypeOK, PathType, JobType, JobRecord
  <2> QED BY <1>1, <2>1, <2>2 DEF MtxAdd, TypeOK, RowType, rows
<1>2. ASSUME MtxDelete(j) PROVE TypeOK'
  <2>1. job' \in [Jobs -> JobType]
    BY <1>2, ReplyType DEF MtxDelete
  <2>2. PathType'
    <3>1. job[j] \in JobType /\ job[j].at = "delete"
      BY <1>2 DEF MtxDelete, TypeOK
    <3>2. job[j].cam \in Cameras
      BY <3>1 DEF JobType
    <3> QED BY <1>2, <3>2 DEF MtxDelete, TypeOK, PathType
  <2> QED BY <1>2, <2>1, <2>2 DEF MtxDelete, TypeOK, RowType, rows
<1>3. ASSUME MtxPatch(j) PROVE TypeOK'
  <2>1. job' \in [Jobs -> JobType]
    BY <1>3, FinishType DEF MtxPatch
  <2> QED BY <1>3, <2>1 DEF MtxPatch, TypeOK, RowType, PathType, JobType, JobRecord, rows, history
<1> QED BY <1>1, <1>2, <1>3

\* What a job does with MediaMTX's answers and with those of its probes.
LEMMA AnswersType ==
  ASSUME TypeOK, NEW j \in Jobs
  PROVE  /\ ProbeAnswered(j) => TypeOK'
         /\ CreateProbed(j) => TypeOK'
         /\ PushAnswered(j) => TypeOK'
         /\ Answered(j) => TypeOK'
<1>0. job[j] \in JobType /\ job[j] \in JobRecord
  BY DEF TypeOK, JobType
<1>1. ASSUME ProbeAnswered(j) PROVE TypeOK'
  <2>1. job' \in [Jobs -> JobType]
    BY <1>1, FinishType DEF ProbeAnswered
  <2>2. config' \in [Cameras -> ConfigType]
    <3>1. CASE job[j].probe = "keep"
      BY <1>1, <3>1 DEF ProbeAnswered, TypeOK, RowType
    <3>2. CASE job[j].probe # "keep"
      <4> DEFINE c == job[j].cam
      <4>1. c \in Cameras
        BY <1>0, <1>1 DEF ProbeAnswered, JobType
      <4>2. PICK policy \in Policies \cup {"unset"}, setBy \in {"probe", "operator"} :
              Store(c, policy, config[c].source, setBy)
        BY <1>1, <3>2, <4>1, ConfigFields DEF ProbeAnswered, Policies
      <4> QED BY <4>1, <4>2, ConfigFields, StoreType
    <3> QED BY <3>1, <3>2
  <2> QED BY <1>1, <2>1, <2>2 DEF ProbeAnswered, TypeOK, RowType, PathType, history
<1>2. ASSUME CreateProbed(j) PROVE TypeOK'
  <2> DEFINE c == job[j].cam
  <2>0. c \in Cameras /\ job[j].source \in Schemes \cup {"none"}
    BY <1>0, <1>2 DEF CreateProbed, JobType, JobRecord
  <2>1. job' \in [Jobs -> JobType]
    BY <1>2, FinishType DEF CreateProbed
  <2>2. config' \in [Cameras -> ConfigType]
    <3>1. CASE UNCHANGED config
      BY <3>1 DEF TypeOK, RowType
    <3>2. CASE config' # config
      <4>1. PICK policy \in Policies \cup {"unset"}, source \in Schemes \cup {"none"} :
              Store(c, policy, source, "probe")
        BY <1>2, <2>0, <3>2, ConfigFields DEF CreateProbed, Policies
      <4> QED BY <2>0, <4>1, StoreType
    <3> QED BY <3>1, <3>2
  <2>3. camera' \in [Cameras -> CameraType]
    BY <1>2 DEF CreateProbed, SetStatus, TypeOK, RowType, CameraType
  <2>4. UNCHANGED <<edits, path, history>>
    BY <1>2 DEF CreateProbed
  <2> QED BY <2>1, <2>2, <2>3, <2>4 DEF TypeOK, RowType, PathType, history
<1>3. ASSUME PushAnswered(j) PROVE TypeOK'
  <2>1. job' \in [Jobs -> JobType]
    BY <1>3, FinishType, ReplyType DEF PushAnswered, Goto
  <2>2. camera' \in [Cameras -> CameraType]
    BY <1>0, <1>3 DEF PushAnswered, SetStatus, TypeOK, RowType, CameraType, JobRecord
  <2> QED BY <1>3, <2>1, <2>2 DEF PushAnswered, TypeOK, RowType, PathType, history
<1>4. ASSUME Answered(j) PROVE TypeOK'
  BY <1>4, FinishType DEF Answered, TypeOK, RowType, PathType, rows, history
<1> QED BY <1>1, <1>2, <1>3, <1>4

\* The sweeps.
LEMMA ContinueType ==
  ASSUME TypeOK, NEW j \in Jobs, Continue(j)
  PROVE  job' \in [Jobs -> JobType]
<1> DEFINE r == [Idle EXCEPT !.op = job[j].op, !.at = "next", !.left = job[j].left]
<1>1. job[j] \in JobRecord
  BY DEF TypeOK, JobType
<1>2. r \in JobRecord
  BY <1>1, IdleType, Names DEF JobRecord
<1>3. r \in JobType
  BY <1>2 DEF JobType, Idle
<1> QED BY <1>3, JobChanges DEF Continue

LEMMA TriesType ==
  ASSUME TypeOK, NEW j \in Jobs, NEW c \in Cameras, NEW left \in SUBSET (Cameras \X Tags),
         NEW source \in Schemes \cup {"none"}
  PROVE  Tries(j, c, source, left) => job' \in [Jobs -> JobType]
<1> DEFINE r == [job[j] EXCEPT !.cam = c, !.at = "add", !.source = source, !.left = left]
<1>1. job[j] \in JobRecord
  BY DEF TypeOK, JobType
<1>2. r \in JobRecord
  BY <1>1, Names DEF JobRecord
<1>3. r \in JobType
  BY <1>1, <1>2 DEF JobType, JobRecord
<1> QED BY <1>3, JobChanges DEF Tries

LEMMA SkipsType ==
  ASSUME TypeOK, NEW j \in Jobs, NEW left \in SUBSET (Cameras \X Tags)
  PROVE  Skips(j, left) => job' \in [Jobs -> JobType]
<1> DEFINE r == [job[j] EXCEPT !.left = left]
<1>1. job[j] \in JobRecord /\ job[j] \in JobType
  BY DEF TypeOK, JobType
<1>2. r \in JobRecord
  BY <1>1 DEF JobRecord
<1>3. r \in JobType
  BY <1>1, <1>2 DEF JobType, JobRecord
<1> QED BY <1>3, JobChanges DEF Skips

LEMMA QueriedType ==
  ASSUME TypeOK, NEW j \in Jobs, NEW left \in SUBSET (Cameras \X Tags)
  PROVE  [job[j] EXCEPT !.at = "next", !.left = left] \in JobType
<1> DEFINE r == [job[j] EXCEPT !.at = "next", !.left = left]
<1>1. job[j] \in JobRecord
  BY DEF TypeOK, JobType
<1>2. r \in JobRecord
  BY <1>1, Names DEF JobRecord
<1> QED BY <1>1, <1>2 DEF JobType, JobRecord

LEMMA SweepsType ==
  ASSUME TypeOK, NEW j \in Jobs
  PROVE  /\ QueryActive(j) => TypeOK'
         /\ QueryConfigs(j) => TypeOK'
         /\ \A c \in Cameras, tag \in {"gated", "bare"} : SweepNext(j, c, tag) => TypeOK'
         /\ \A c \in Cameras, u \in Schemes : BootNext(j, c, u) => TypeOK'
         /\ SweepAnswered(j) => TypeOK'
         /\ SweepEnds(j) => TypeOK'
         /\ BootAnswered(j) => TypeOK'
<1>0. job[j] \in JobRecord
  BY DEF TypeOK, JobType
<1>1. ASSUME QueryActive(j) PROVE TypeOK'
  <2> DEFINE left == {<<c, IF Configured(c) THEN "gated" ELSE "bare">> :
                        c \in {d \in Cameras : camera[d].life = "active" /\ camera[d].url # "none"}}
  <2>1. left \in SUBSET (Cameras \X Tags)
    BY DEF Tags, Configured
  <2>2. job' \in [Jobs -> JobType]
    BY <1>1, <2>1, QueriedType, JobChanges DEF QueryActive
  <2> QED BY <1>1, <2>2 DEF QueryActive, TypeOK, RowType, PathType, rows, history
<1>2. ASSUME QueryConfigs(j) PROVE TypeOK'
  <2> DEFINE left == {<<c, config[c].source>> : c \in {d \in Cameras : Configured(d)}}
  <2>1. left \in SUBSET (Cameras \X Tags)
    BY ConfigFields DEF Tags, Configured
  <2>2. job' \in [Jobs -> JobType]
    BY <1>2, <2>1, QueriedType, JobChanges DEF QueryConfigs
  <2> QED BY <1>2, <2>2 DEF QueryConfigs, TypeOK, RowType, PathType, rows, history
<1>3. ASSUME NEW c \in Cameras, NEW tag \in {"gated", "bare"}, SweepNext(j, c, tag) PROVE TypeOK'
  <2>1. camera[c].url \in Schemes \cup {"none"} /\ job[j].left \ {<<c, tag>>} \in SUBSET (Cameras \X Tags)
    BY <1>0 DEF TypeOK, RowType, CameraType, JobRecord
  <2>2. job' \in [Jobs -> JobType]
    BY <1>3, <2>1, TriesType, SkipsType DEF SweepNext
  <2>3. camera' \in [Cameras -> CameraType]
    BY <1>3 DEF SweepNext, SetStatus, TypeOK, RowType, CameraType
  <2> QED BY <1>3, <2>2, <2>3 DEF SweepNext, TypeOK, RowType, PathType, history
<1>4. ASSUME NEW c \in Cameras, NEW u \in Schemes, BootNext(j, c, u) PROVE TypeOK'
  <2>1. job[j].left \ {<<c, u>>} \in SUBSET (Cameras \X Tags)
    BY <1>0 DEF JobRecord
  <2>2. job' \in [Jobs -> JobType]
    BY <1>4, <2>1, TriesType DEF BootNext
  <2> QED BY <1>4, <2>2 DEF BootNext, TypeOK, RowType, PathType, rows, history
<1>5. ASSUME SweepAnswered(j) PROVE TypeOK'
  <2>1. CASE Continue(j)
    <3>1. job' \in [Jobs -> JobType]
      BY <2>1, ContinueType
    <3>2. camera' \in [Cameras -> CameraType]
      BY <1>5 DEF SweepAnswered, SetStatus, TypeOK, RowType, CameraType
    <3> QED BY <1>5, <3>1, <3>2 DEF SweepAnswered, TypeOK, RowType, PathType, history
  <2>2. CASE ~Continue(j)
    <3> DEFINE r == [job[j] EXCEPT !.at = "add", !.answer = "none", !.tries = job[j].tries + 1]
    <3>1. /\ job' = [job EXCEPT ![j] = r] /\ UNCHANGED camera
          /\ job[j].at = "added" /\ job[j].tries + 1 < MaxRetries
      BY <1>5, <2>2 DEF SweepAnswered
    <3>2. job[j].tries + 1 \in 0..MaxRetries
      BY <1>0, <3>1, BoundsAssumption DEF JobRecord
    <3>3. r \in JobRecord
      BY <1>0, <3>2, Names DEF JobRecord
    <3>4. r.cam = job[j].cam /\ job[j].cam \in Cameras
      BY <1>0, <3>1 DEF TypeOK, JobType, JobRecord
    <3>5. r \in JobType
      BY <3>3, <3>4 DEF JobType
    <3>6. job' \in [Jobs -> JobType]
      BY <3>1, <3>5, JobChanges
    <3> QED BY <1>5, <3>1, <3>6 DEF SweepAnswered, TypeOK, RowType, PathType, history
  <2> QED BY <2>1, <2>2
<1>6. ASSUME SweepEnds(j) PROVE TypeOK'
  BY <1>6, FinishType DEF SweepEnds, TypeOK, RowType, PathType, rows, history
<1>7. ASSUME BootAnswered(j) PROVE TypeOK'
  BY <1>7, ContinueType DEF BootAnswered, TypeOK, RowType, PathType, rows, history
<1> QED BY <1>1, <1>2, <1>3, <1>4, <1>5, <1>6, <1>7

LEMMA ProceedsType == TypeOK /\ (\E j \in Jobs : Proceeds(j)) => TypeOK'
BY MtxType, AnswersType, SweepsType DEF Proceeds

LEMMA RestartsType == TypeOK /\ (MtxRestart \/ Restart) => TypeOK'
<1>1. [Idle EXCEPT !.op = "hook", !.at = "query"] \in JobType
  <2>1. [Idle EXCEPT !.op = "hook", !.at = "query"] \in JobRecord
    BY IdleType, Names DEF JobRecord
  <2> QED BY <2>1 DEF JobType, Idle
<1>2. [Idle EXCEPT !.op = "boot", !.at = "query"] \in JobType
  <2>1. [Idle EXCEPT !.op = "boot", !.at = "query"] \in JobRecord
    BY IdleType, Names DEF JobRecord
  <2> QED BY <2>1 DEF JobType, Idle
<1>3. ASSUME TypeOK, MtxRestart PROVE TypeOK'
  <2>1. job' \in [Jobs -> JobType]
    <3>1. CASE UNCHANGED job
      BY <1>3, <3>1 DEF TypeOK
    <3>2. CASE job' # job
      BY <1>1, <1>3, <3>2, JobChanges DEF MtxRestart
    <3> QED BY <3>1, <3>2
  <2> QED BY <1>3, <2>1 DEF MtxRestart, TypeOK, RowType, PathType, rows
<1>4. ASSUME TypeOK, Restart PROVE TypeOK'
  BY <1>2, <1>4, IdleType DEF Restart, TypeOK, RowType, PathType, rows, history
<1> QED BY <1>3, <1>4

LEMMA StepType == TypeOK /\ [Next]_vars => TypeOK'
<1>1. TypeOK /\ UNCHANGED vars => TypeOK'
  BY DEF TypeOK, RowType, PathType, vars, rows, history
<1> QED BY <1>1, OperatorType, RequestedType, ProceedsType, RestartsType DEF Next

\* Rows, paths and jobs keep their types through requests, sweeps and restarts of
\* both servers.
THEOREM CamerasTypeCorrect == Spec => []TypeOK
BY InitType, StepType, PTL DEF Spec
------------------------------------------------------------------------------
(* The fields of the job that takes a step, the others staying as they are *)

Others(j) == \A k \in Jobs : k # j => job'[k] = job[k]

LEMMA BeginFields ==
  ASSUME TypeOK, NEW j \in Jobs, NEW op, NEW c, NEW policy, NEW source, Begin(j, op, c, policy, source)
  PROVE  /\ Others(j)
         /\ job'[j].op = op /\ job'[j].cam = c /\ job'[j].at = "add" /\ job'[j].source = source
         /\ job'[j].left = {}
BY DEF Begin, Idle, Others, TypeOK

LEMMA ReplyFields ==
  ASSUME TypeOK, NEW j \in Jobs, NEW at, NEW answer, Reply(j, at, answer)
  PROVE  /\ Others(j)
         /\ job'[j].op = job[j].op /\ job'[j].cam = job[j].cam /\ job'[j].source = job[j].source
         /\ job'[j].probe = job[j].probe /\ job'[j].left = job[j].left
         /\ job'[j].at = at /\ job'[j].answer = answer
BY DEF Reply, Others, TypeOK, JobType, JobRecord

LEMMA IdleFields ==
  /\ Idle.op = "idle" /\ Idle.cam = "none" /\ Idle.at = "idle" /\ Idle.source = "none"
  /\ Idle.left = {}
BY DEF Idle

LEMMA FinishFields ==
  ASSUME TypeOK, NEW j \in Jobs, Finish(j)
  PROVE  Others(j) /\ job'[j] = Idle
BY DEF Finish, Others, TypeOK

LEMMA ContinueFields ==
  ASSUME TypeOK, NEW j \in Jobs, Continue(j)
  PROVE  /\ Others(j)
         /\ job'[j].op = job[j].op /\ job'[j].cam = "none" /\ job'[j].at = "next"
         /\ job'[j].source = "none" /\ job'[j].left = job[j].left
BY DEF Continue, Idle, Others, TypeOK

LEMMA SkipsFields ==
  ASSUME TypeOK, NEW j \in Jobs, NEW left, Skips(j, left)
  PROVE  /\ Others(j)
         /\ job'[j].op = job[j].op /\ job'[j].cam = job[j].cam /\ job'[j].at = job[j].at
         /\ job'[j].source = job[j].source /\ job'[j].left = left /\ job'[j].answer = job[j].answer
BY DEF Skips, Others, TypeOK, JobType, JobRecord

LEMMA TriesFields ==
  ASSUME TypeOK, NEW j \in Jobs, NEW c, NEW source, NEW left, Tries(j, c, source, left)
  PROVE  /\ Others(j)
         /\ job'[j].op = job[j].op /\ job'[j].cam = c /\ job'[j].at = "add"
         /\ job'[j].source = source /\ job'[j].left = left
BY DEF Tries, Others, TypeOK, JobType, JobRecord

LEMMA StartFields ==
  ASSUME TypeOK, NEW j \in Jobs, NEW c \in Cameras
  PROVE  /\ \A reset \in BOOLEAN : StartProbe(j, c, reset) =>
              /\ Others(j)
              /\ job'[j].op = "probe" /\ job'[j].cam = c /\ job'[j].at = "probe"
              /\ job'[j].source = "none" /\ job'[j].left = {}
              /\ config[c].setBy # "probe" /\ ~reset => job'[j].probe = "keep"
         /\ Unprovision(j, c) =>
              /\ Others(j)
              /\ job'[j].op = "unprovision" /\ job'[j].cam = c /\ job'[j].at = "delete"
              /\ job'[j].source = "none" /\ job'[j].left = {}
         /\ \A u \in Schemes : PatchSource(j, c, u) =>
              /\ Others(j)
              /\ job'[j].op = "patch" /\ job'[j].cam = c /\ job'[j].at = "patch"
              /\ job'[j].source = u /\ job'[j].left = {}
         /\ ProvisionOne(j, c) =>
              /\ Others(j)
              /\ job'[j].op = "one" /\ job'[j].cam = "none" /\ job'[j].at = "next"
              /\ job'[j].source = "none"
              /\ job'[j].left = {<<c, IF Configured(c) THEN "gated" ELSE "bare">>}
<1>1. ASSUME NEW reset \in BOOLEAN, StartProbe(j, c, reset)
      PROVE  /\ Others(j)
             /\ job'[j].op = "probe" /\ job'[j].cam = c /\ job'[j].at = "probe"
             /\ job'[j].source = "none" /\ job'[j].left = {}
             /\ config[c].setBy # "probe" /\ ~reset => job'[j].probe = "keep"
  BY <1>1 DEF StartProbe, Idle, Others, TypeOK
<1>2. ASSUME Unprovision(j, c)
      PROVE  /\ Others(j)
             /\ job'[j].op = "unprovision" /\ job'[j].cam = c /\ job'[j].at = "delete"
             /\ job'[j].source = "none" /\ job'[j].left = {}
  BY <1>2 DEF Unprovision, Idle, Others, TypeOK
<1>3. ASSUME NEW u \in Schemes, PatchSource(j, c, u)
      PROVE  /\ Others(j)
             /\ job'[j].op = "patch" /\ job'[j].cam = c /\ job'[j].at = "patch"
             /\ job'[j].source = u /\ job'[j].left = {}
  BY <1>3 DEF PatchSource, Idle, Others, TypeOK
<1>4. ASSUME ProvisionOne(j, c)
      PROVE  /\ Others(j)
             /\ job'[j].op = "one" /\ job'[j].cam = "none" /\ job'[j].at = "next"
             /\ job'[j].source = "none"
             /\ job'[j].left = {<<c, IF Configured(c) THEN "gated" ELSE "bare">>}
  BY <1>4 DEF ProvisionOne, Idle, Others, TypeOK
<1> QED BY <1>1, <1>2, <1>3, <1>4

LEMMA QueryFields ==
  ASSUME TypeOK, NEW j \in Jobs
  PROVE  /\ QueryActive(j) =>
              /\ Others(j)
              /\ job'[j].op = job[j].op /\ job'[j].cam = job[j].cam /\ job'[j].at = "next"
              /\ job'[j].source = job[j].source
              /\ job'[j].left = {<<c, IF Configured(c) THEN "gated" ELSE "bare">> :
                    c \in {d \in Cameras : camera[d].life = "active" /\ camera[d].url # "none"}}
         /\ QueryConfigs(j) =>
              /\ Others(j)
              /\ job'[j].op = job[j].op /\ job'[j].cam = job[j].cam /\ job'[j].at = "next"
              /\ job'[j].source = job[j].source
<1>1. job \in [Jobs -> JobRecord]
  BY DEF TypeOK, JobType
<1>2. ASSUME NEW tags, job' = [job EXCEPT ![j] = [@ EXCEPT !.at = "next", !.left = tags]]
      PROVE  /\ Others(j)
             /\ job'[j].op = job[j].op /\ job'[j].cam = job[j].cam /\ job'[j].at = "next"
             /\ job'[j].source = job[j].source /\ job'[j].left = tags
  BY <1>1, <1>2 DEF Others, JobRecord
<1> QED BY <1>2 DEF QueryActive, QueryConfigs

\* A sweep goes on to the next camera or tries this one again.
LEMMA SweepFields ==
  ASSUME TypeOK, NEW j \in Jobs, SweepAnswered(j)
  PROVE  /\ Others(j)
         /\ job'[j].op = job[j].op /\ job'[j].left = job[j].left
         /\ \/ job'[j].at = "next" /\ job'[j].cam = "none" /\ job'[j].source = "none"
            \/ /\ job'[j].at = "add" /\ job'[j].cam = job[j].cam /\ job'[j].source = job[j].source
<1>1. CASE Continue(j)
  BY <1>1, ContinueFields
<1>2. CASE ~Continue(j)
  <2>1. job' = [job EXCEPT ![j] = [@ EXCEPT !.at = "add", !.answer = "none", !.tries = job[j].tries + 1]]
    BY <1>2 DEF SweepAnswered
  <2>2. job[j] \in JobRecord
    BY DEF TypeOK, JobType
  <2> QED BY <2>1, <2>2 DEF Others, TypeOK, JobRecord
<1> QED BY <1>1, <1>2

\* What a restart leaves of the jobs.
LEMMA RestartFields ==
  ASSUME TypeOK
  PROVE  /\ MtxRestart => \/ UNCHANGED job
                          \/ \E j \in Jobs : /\ Others(j)
                                             /\ job'[j].op = "hook" /\ job'[j].cam = "none"
                                             /\ job'[j].at = "query" /\ job'[j].source = "none"
                                             /\ job'[j].left = {}
         /\ Restart => \A j \in Jobs : /\ job'[j].op \in {"idle", "boot"} /\ job'[j].cam = "none"
                                       /\ job'[j].at \in {"idle", "query"} /\ job'[j].source = "none"
                                       /\ job'[j].left = {}
<1>1. ASSUME MtxRestart, job' # job
      PROVE  \E j \in Jobs : /\ Others(j)
                            /\ job'[j].op = "hook" /\ job'[j].cam = "none"
                            /\ job'[j].at = "query" /\ job'[j].source = "none"
                            /\ job'[j].left = {}
  <2>1. PICK j \in Jobs : job' = [job EXCEPT ![j] = [Idle EXCEPT !.op = "hook", !.at = "query"]]
    BY <1>1 DEF MtxRestart
  <2>2. Others(j)
    BY <2>1 DEF Others, TypeOK
  <2>3. job'[j] = [Idle EXCEPT !.op = "hook", !.at = "query"]
    BY <2>1 DEF TypeOK
  <2> QED BY <2>2, <2>3 DEF Idle
<1>2. ASSUME Restart, NEW j \in Jobs
      PROVE  /\ job'[j].op \in {"idle", "boot"} /\ job'[j].cam = "none"
             /\ job'[j].at \in {"idle", "query"} /\ job'[j].source = "none"
             /\ job'[j].left = {}
  BY <1>2 DEF Restart, Idle
<1> QED BY <1>1, <1>2
------------------------------------------------------------------------------
\* What OverrideKept rests on: no probe under way may touch an override in force
Overrides ==
  \A c \in firm :
    /\ Known(c) /\ Configured(c) /\ config[c].setBy = "operator"
    /\ \A j \in Jobs : job[j].op = "probe" /\ job[j].cam = c => job[j].probe = "keep"

\* What RequiredIsRefused rests on: what is under way has been through the gate, or will be
Gated ==
  \A c \in firm, j \in Jobs :
    /\ job[j].op \in Sweeps => <<c, "bare">> \notin job[j].left
    /\ config[c].policy = "required" /\ job[j].cam = c /\ job[j].op # "boot" => job[j].source # "plain"

\* What ProvisionedIsTrue rests on: what is added has a source, and an answer that
\* is not an error tells that the path is, or has been, there
Had(c) == path[c] # "none" \/ c \in removed
SourcedRow(c) ==
  /\ ~Known(c) => camera[c].url = "none"
  /\ Configured(c) => config[c].source # "none"
SourcedJob(j) ==
  /\ job[j].op = "probe" => job[j].cam \in Cameras /\ Configured(job[j].cam)
  /\ job[j].at \in {"add", "added", "readd", "readded", "patch"} => job[j].source # "none"
  /\ job[j].op \in {"create", "push", "admin"} => job[j].source # "none"
  /\ job[j].op \in Sweeps =>
       \A c \in Cameras, tag \in Tags : <<c, tag>> \in job[j].left => camera[c].url # "none"
Sourced == (\A c \in Cameras : SourcedRow(c)) /\ (\A j \in Jobs : SourcedJob(j))
Answer(j) ==
  /\ job[j].at \in {"added", "readded"} =>
       job[j].answer # "none" /\ (job[j].answer # "error" => Had(job[j].cam))
  /\ job[j].op = "create" /\ job[j].at = "probe" => Had(job[j].cam)
Answers == \A j \in Jobs : Answer(j)
------------------------------------------------------------------------------
(* OverrideKept *)

\* A step of a job's that touches neither the configurations nor the history, and
\* forgets no camera, keeps the overrides.
LEMMA OverridesFrame ==
  ASSUME TypeOK, Overrides, NEW j \in Jobs, Others(j), UNCHANGED <<config, firm>>,
         \A c \in Cameras : Known(c) => Known(c)',
         job'[j].op = "probe" => /\ job[j].op = "probe" /\ job'[j].cam = job[j].cam
                                 /\ job'[j].probe = job[j].probe
  PROVE  Overrides'
BY DEF Overrides, Others, Configured, TypeOK, PathType

\* Nothing forgets a camera.
LEMMA StillKnown ==
  ASSUME TypeOK, NEW c \in Cameras, NEW d \in Cameras, Known(d)
  PROVE  /\ \A status \in {"provisioned", "failed", "blocked"} : SetStatus(c, status) => Known(d)'
         /\ UNCHANGED camera => Known(d)'
BY DEF TypeOK, RowType, CameraType, SetStatus, Known

\* The operator's changes.
LEMMA OverridesOperator ==
  ASSUME TypeOK, Overrides, Operator
  PROVE  Overrides'
<1> SUFFICES ASSUME NEW c \in Cameras,
                    \/ DeleteCamera(c)
                    \/ \E u \in Schemes : UpdateUrl(c, u)
                    \/ \E policy \in Policies : SetPolicy(c, policy)
                    \/ \E policy \in Policies \cup {"unset"}, u \in Schemes : UpsertConfig(c, policy, u)
             PROVE  Overrides'
  BY DEF Operator
<1>1. CASE DeleteCamera(c)
  <2>1. \A d \in Cameras : Known(d) => Known(d)'
    BY <1>1 DEF DeleteCamera, Known, TypeOK, RowType, CameraType
  <2> QED BY <1>1, <2>1 DEF DeleteCamera, history, Overrides, Configured, TypeOK, PathType
<1>2. ASSUME NEW u \in Schemes, UpdateUrl(c, u) PROVE Overrides'
  <2>1. \A d \in Cameras : Known(d) => Known(d)'
    BY <1>2 DEF UpdateUrl, Known, TypeOK, RowType, CameraType
  <2> QED BY <1>2, <2>1 DEF UpdateUrl, history, Overrides, Configured, TypeOK, PathType
<1>3. ASSUME NEW policy \in Policies, SetPolicy(c, policy) PROVE Overrides'
  <2>1. /\ \A d \in Cameras : d # c => config'[d] = config[d]
        /\ config'[c].policy # "unset" /\ config'[c].setBy = "operator"
    BY <1>3, LenientAssumption DEF SetPolicy, Store, TypeOK, RowType, Policies
  <2>2. c \in firm' => \A j \in Jobs : job[j].cam # c
    BY <1>3 DEF SetPolicy, Quiet, At
  <2> QED BY <1>3, <2>1, <2>2 DEF SetPolicy, Overrides, Known, Configured, TypeOK, PathType
<1>4. ASSUME NEW policy \in Policies \cup {"unset"}, NEW u \in Schemes, UpsertConfig(c, policy, u)
      PROVE  Overrides'
  <2>1. \A d \in Cameras : d # c => config'[d] = config[d]
    BY <1>4 DEF UpsertConfig, Store, TypeOK, RowType
  <2>2. config'[c].setBy = config[c].setBy
    BY <1>4 DEF UpsertConfig, Store, TypeOK, RowType
  <2>3. c \in firm' => policy = "unset" /\ c \in firm
    BY <1>4 DEF UpsertConfig
  <2>4. c \in firm' => config'[c].policy = config[c].policy
    BY <1>4, <2>3 DEF UpsertConfig, Store, TypeOK, RowType, Overrides
  <2> QED BY <1>4, <2>1, <2>2, <2>3, <2>4 DEF UpsertConfig, Overrides, Known, Configured, TypeOK, PathType
<1> QED BY <1>1, <1>2, <1>3, <1>4

\* The requests.
LEMMA OverridesRequested ==
  ASSUME TypeOK, Overrides, NEW j \in Jobs, Requested(j)
  PROVE  Overrides'
<1> SUFFICES ASSUME NEW c \in Cameras,
                    \/ \E u \in Schemes \cup {"none"} : CreateCamera(j, c, u)
                    \/ \E reset \in BOOLEAN : StartProbe(j, c, reset)
                    \/ \E u \in Schemes : AdminPush(j, c, u) \/ PatchSource(j, c, u)
                    \/ Push(j, c) \/ Provision(j, c) \/ Unprovision(j, c) \/ ProvisionOne(j, c)
             PROVE  Overrides'
  BY DEF Requested
<1>1. ASSUME NEW u \in Schemes \cup {"none"}, CreateCamera(j, c, u) PROVE Overrides'
  <2>1. \A d \in Cameras : Known(d) => Known(d)'
    BY <1>1 DEF CreateCamera, Known, TypeOK, RowType, CameraType
  <2>2. Others(j) /\ (job'[j] = job[j] \/ job'[j].op = "create")
    BY <1>1, BeginFields DEF CreateCamera, Others
  <2> QED BY <1>1, <2>1, <2>2, OverridesFrame DEF CreateCamera, history
<1>2. ASSUME NEW reset \in BOOLEAN, StartProbe(j, c, reset) PROVE Overrides'
  <2>1. /\ Others(j) /\ job'[j].cam = c
        /\ config[c].setBy # "probe" /\ ~reset => job'[j].probe = "keep"
    BY <1>2, StartFields
  <2>2. c \in firm' => ~reset /\ c \in firm
    BY <1>2 DEF StartProbe
  <2>3. UNCHANGED <<camera, config>> /\ firm' \subseteq firm
    BY <1>2 DEF StartProbe, rows
  <2>4. c \in firm' => job'[j].probe = "keep"
    BY <2>1, <2>2 DEF Overrides
  <2> QED BY <2>1, <2>3, <2>4 DEF Overrides, Others, Known, Configured
<1>3. ASSUME NEW u \in Schemes, AdminPush(j, c, u) PROVE Overrides'
  BY <1>3, BeginFields, OverridesFrame, StillKnown DEF AdminPush, history
<1>4. ASSUME NEW u \in Schemes, PatchSource(j, c, u) PROVE Overrides'
  <2>1. Others(j) /\ job'[j].op = "patch" /\ UNCHANGED <<camera, config, history>>
    BY <1>4, StartFields DEF PatchSource
  <2> QED BY <2>1, OverridesFrame, StillKnown DEF history
<1>5. ASSUME Push(j, c) \/ Provision(j, c) PROVE Overrides'
  BY <1>5, BeginFields, OverridesFrame, StillKnown DEF Push, Provision, rows, history
<1>6. ASSUME Unprovision(j, c) PROVE Overrides'
  <2>1. Others(j) /\ job'[j].op = "unprovision" /\ UNCHANGED <<rows, history>>
    BY <1>6, StartFields DEF Unprovision
  <2> QED BY <2>1, OverridesFrame, StillKnown DEF rows, history
<1>7. ASSUME ProvisionOne(j, c) PROVE Overrides'
  <2>1. Others(j) /\ job'[j].op = "one" /\ UNCHANGED <<rows, history>>
    BY <1>7, StartFields DEF ProvisionOne
  <2> QED BY <2>1, OverridesFrame, StillKnown DEF rows, history
<1> QED BY <1>1, <1>2, <1>3, <1>4, <1>5, <1>6, <1>7

\* The steps of the jobs under way.
LEMMA OverridesProceeds ==
  ASSUME TypeOK, Overrides, NEW j \in Jobs, Proceeds(j)
  PROVE  Overrides'
<1>0. job[j] \in JobRecord
  BY DEF TypeOK, JobType
<1>1. CASE MtxAdd(j)
  <2>1. Others(j) /\ job'[j].op = job[j].op /\ job'[j].cam = job[j].cam /\ job'[j].probe = job[j].probe
    BY <1>1, ReplyFields DEF MtxAdd
  <2> QED BY <1>1, <2>1, OverridesFrame, StillKnown DEF MtxAdd, rows
<1>2. CASE MtxDelete(j)
  <2>1. Others(j) /\ job'[j].op = job[j].op /\ job'[j].cam = job[j].cam /\ job'[j].probe = job[j].probe
    BY <1>2, ReplyFields DEF MtxDelete
  <2> QED BY <1>2, <2>1, OverridesFrame, StillKnown DEF MtxDelete, rows
<1>3. CASE MtxPatch(j)
  BY <1>3, FinishFields, IdleFields, OverridesFrame, StillKnown DEF MtxPatch, rows, history
<1>4. CASE ProbeAnswered(j)
  <2>1. Others(j) /\ job'[j].op = "idle"
    BY <1>4, FinishFields, IdleFields DEF ProbeAnswered
  <2>2. \A c \in firm : config'[c] = config[c]
    <3>1. CASE job[j].probe = "keep"
      BY <1>4, <3>1 DEF ProbeAnswered
    <3>2. CASE job[j].probe # "keep"
      BY <1>4, <3>2 DEF ProbeAnswered, Store, Overrides, TypeOK, RowType, PathType
    <3> QED BY <3>1, <3>2
  <2> QED BY <1>4, <2>1, <2>2 DEF ProbeAnswered, history, Overrides, Others, Known, Configured, TypeOK, PathType
<1>5. CASE CreateProbed(j)
  <2>0. job[j].cam \in Cameras
    BY <1>5 DEF CreateProbed, TypeOK, JobType
  <2>1. Others(j) /\ job'[j].op = "idle"
    BY <1>5, FinishFields, IdleFields DEF CreateProbed
  <2>2. \A c \in firm : config'[c] = config[c]
    BY <1>5 DEF CreateProbed, Store, Overrides, TypeOK, RowType, PathType
  <2>3. \A c \in Cameras : Known(c) => Known(c)'
    BY <1>5, <2>0, StillKnown DEF CreateProbed
  <2> QED BY <1>5, <2>1, <2>2, <2>3 DEF CreateProbed, history, Overrides, Others, Configured, TypeOK, PathType
<1>6. CASE PushAnswered(j)
  <2>0. job[j].op # "probe"
    BY <1>6 DEF PushAnswered
  <2>1. Others(j) /\ job'[j].op \in {job[j].op, "idle"}
    BY <1>6, ReplyFields, FinishFields, IdleFields DEF PushAnswered, Goto
  <2>2. \A c \in Cameras : Known(c) => Known(c)'
    BY <1>6, StillKnown DEF PushAnswered, SetStatus, TypeOK, RowType, CameraType, Known
  <2> QED BY <1>6, <2>0, <2>1, <2>2, OverridesFrame DEF PushAnswered, history
<1>7. CASE Answered(j)
  BY <1>7, FinishFields, IdleFields, OverridesFrame, StillKnown DEF Answered, rows, history
<1>8. CASE QueryActive(j) \/ QueryConfigs(j)
  <2>1. Others(j) /\ job'[j].op # "probe" /\ UNCHANGED <<rows, history>>
    BY <1>8, QueryFields DEF QueryActive, QueryConfigs, Sweeps
  <2> QED BY <2>1, OverridesFrame, StillKnown DEF rows, history
<1>9. CASE SweepAnswered(j)
  <2>1. Others(j) /\ job'[j].op # "probe"
    BY <1>9, SweepFields DEF SweepAnswered, Sweeps
  <2>0. UNCHANGED camera \/ \E status \in {"provisioned", "failed"} : SetStatus(job[j].cam, status)
    BY <1>9 DEF SweepAnswered
  <2>2. \A c \in Cameras : Known(c) => Known(c)'
    <3>1. CASE UNCHANGED camera
      BY <3>1 DEF Known
    <3>2. ASSUME NEW status \in {"provisioned", "failed"}, SetStatus(job[j].cam, status),
                 NEW c \in Cameras, Known(c)
          PROVE  Known(c)'
      <4>1. camera \in [Cameras -> CameraType]
        BY DEF TypeOK, RowType
      <4>2. camera'[c].status = camera[c].status \/ camera'[c].status = status
        BY <3>2, <4>1 DEF SetStatus, CameraType
      <4> QED BY <3>2, <4>2 DEF Known
    <3> QED BY <2>0, <3>1, <3>2
  <2>3. UNCHANGED <<config, history>>
    BY <1>9 DEF SweepAnswered
  <2> QED BY <2>1, <2>2, <2>3, OverridesFrame, SMTT(30) DEF history
<1>10. CASE SweepEnds(j)
  BY <1>10, FinishFields, IdleFields, OverridesFrame, StillKnown DEF SweepEnds, rows, history
<1>11. CASE BootAnswered(j)
  <2>1. Others(j) /\ job'[j].op # "probe"
    BY <1>11, ContinueFields DEF BootAnswered
  <2> QED BY <1>11, <2>1, OverridesFrame, StillKnown DEF BootAnswered, rows, history
<1>12. ASSUME NEW c \in Cameras, NEW tag \in {"gated", "bare"}, SweepNext(j, c, tag) PROVE Overrides'
  <2>1. Others(j) /\ job'[j].op # "probe"
    BY <1>12, SkipsFields, TriesFields DEF SweepNext, Sweeps
  <2>2. \A d \in Cameras : Known(d) => Known(d)'
    BY <1>12, StillKnown DEF SweepNext
  <2> QED BY <1>12, <2>1, <2>2, OverridesFrame DEF SweepNext, history
<1>13. ASSUME NEW c \in Cameras, NEW u \in Schemes, BootNext(j, c, u) PROVE Overrides'
  <2>1. Others(j) /\ job'[j].op # "probe"
    BY <1>13, TriesFields DEF BootNext
  <2> QED BY <1>13, <2>1, OverridesFrame, StillKnown DEF BootNext, rows, history
<1> QED BY <1>1, <1>2, <1>3, <1>4, <1>5, <1>6, <1>7, <1>8, <1>9, <1>10, <1>11, <1>12, <1>13 DEF Proceeds

LEMMA OverridesStep == TypeOK /\ Overrides /\ [Next]_vars => Overrides'
<1> SUFFICES ASSUME TypeOK, Overrides, [Next]_vars PROVE Overrides'
  OBVIOUS
<1>1. CASE MtxRestart
  <2>1. CASE UNCHANGED job
    BY <1>1, <2>1 DEF MtxRestart, rows, Overrides, Known, Configured
  <2>2. ASSUME NEW j \in Jobs, Others(j), job'[j].op = "hook" PROVE Overrides'
    BY <1>1, <2>2, OverridesFrame, StillKnown DEF MtxRestart, rows
  <2> QED BY <1>1, <2>1, <2>2, RestartFields
<1>2. CASE Restart
  BY <1>2, RestartFields DEF Restart, rows, history, Overrides, Known, Configured
<1>3. CASE UNCHANGED vars
  BY <1>3 DEF vars, rows, history, Overrides, Known, Configured
<1> QED BY <1>1, <1>2, <1>3, OverridesOperator, OverridesRequested, OverridesProceeds DEF Next

\* No probe and no creation undoes an override of the operator's.
LEMMA OverrideKeptStep ==
  TypeOK /\ Overrides /\ Overrides' /\ [Next]_vars
    => \A c \in firm \cap firm' : Unedited => config'[c].policy = config[c].policy
                                           /\ config'[c].setBy = "operator"
<1> SUFFICES ASSUME TypeOK, Overrides, Overrides', [Next]_vars, NEW c \in firm \cap firm', Unedited
             PROVE  config'[c].policy = config[c].policy
  BY DEF Overrides
<1>0. edits \in Nat /\ c \in Cameras /\ firm \subseteq Cameras
  BY DEF TypeOK, RowType, PathType
<1>1. CASE Operator
  BY <1>0, <1>1 DEF Operator, DeleteCamera, UpdateUrl, SetPolicy, UpsertConfig, Edit, Unedited
<1>2. ASSUME NEW j \in Jobs, Requested(j) PROVE UNCHANGED config
  BY <1>2 DEF Requested, CreateCamera, StartProbe, AdminPush, PatchSource, Push, Provision, Unprovision,
              ProvisionOne, rows
<1>3. ASSUME NEW j \in Jobs, Proceeds(j) PROVE config'[c].policy = config[c].policy
  <2>1. CASE ProbeAnswered(j)
    <3>1. CASE job[j].probe = "keep"
      BY <2>1, <3>1 DEF ProbeAnswered
    <3>2. CASE job[j].probe # "keep"
      BY <2>1, <3>2, <1>0 DEF ProbeAnswered, Store, Overrides, TypeOK, RowType
    <3> QED BY <3>1, <3>2
  <2>2. CASE CreateProbed(j)
    BY <2>2, <1>0 DEF CreateProbed, Store, Overrides, TypeOK, RowType
  <2>3. CASE ~ProbeAnswered(j) /\ ~CreateProbed(j)
    <3>1. UNCHANGED config
      BY <1>3, <2>3 DEF Proceeds, MtxAdd, MtxDelete, MtxPatch, PushAnswered, Answered, QueryActive,
                        QueryConfigs, SweepNext, SweepAnswered, SweepEnds, BootNext, BootAnswered, rows
    <3> QED BY <3>1
  <2> QED BY <2>1, <2>2, <2>3
<1>4. CASE MtxRestart \/ Restart \/ UNCHANGED vars
  BY <1>4 DEF MtxRestart, Restart, vars, rows
<1> QED BY <1>1, <1>2, <1>3, <1>4 DEF Next

LEMMA InitOverrides == Init => Overrides
BY DEF Init, Overrides

\* An operator's override, once in force, outlives probes, creations, sweeps and
\* restarts until an operator changes or resets it.
THEOREM OverridesAreKept == Spec => OverrideKept
<1>1. Init => TypeOK /\ Overrides
  BY InitType, InitOverrides
<1>2. TypeOK /\ Overrides /\ [Next]_vars
        => /\ TypeOK' /\ Overrides'
           /\ [\A c \in firm \cap firm' : Unedited => config'[c].policy = config[c].policy
                                           /\ config'[c].setBy = "operator"]_vars
  BY StepType, OverridesStep, OverrideKeptStep
<1> QED BY <1>1, <1>2, PTL DEF Spec, OverrideKept
------------------------------------------------------------------------------
(* RequiredIsRefused *)

\* A step of a job's that changes neither the configurations nor the history.
LEMMA GatedFrame ==
  ASSUME TypeOK, Overrides, Gated, NEW j \in Jobs, Others(j), UNCHANGED <<config, firm>>,
         job'[j].op \in Sweeps => \A c \in firm : <<c, "bare">> \notin job'[j].left,
         job'[j].op = "boot" \/ \A c \in firm : config[c].policy = "required" /\ job'[j].cam = c
                                                   => job'[j].source # "plain"
  PROVE  Gated'
BY DEF Gated, Others

LEMMA GatedOperator ==
  ASSUME TypeOK, Overrides, Gated, Operator
  PROVE  Gated'
<1> SUFFICES ASSUME NEW c \in Cameras,
                    \/ DeleteCamera(c)
                    \/ \E u \in Schemes : UpdateUrl(c, u)
                    \/ \E policy \in Policies : SetPolicy(c, policy)
                    \/ \E policy \in Policies \cup {"unset"}, u \in Schemes : UpsertConfig(c, policy, u)
             PROVE  Gated'
  BY DEF Operator
<1>1. CASE DeleteCamera(c) \/ \E u \in Schemes : UpdateUrl(c, u)
  <2>1. UNCHANGED <<config, job, firm>>
    BY <1>1 DEF DeleteCamera, UpdateUrl, history
  <2> QED BY <2>1 DEF Gated
<1>2. ASSUME NEW policy \in Policies, SetPolicy(c, policy) PROVE Gated'
  <2>1. \A d \in Cameras : d # c => config'[d] = config[d]
    BY <1>2 DEF SetPolicy, Store, TypeOK, RowType
  <2>0. c \in firm' => Quiet(c)
    BY <1>2 DEF SetPolicy
  <2>2. c \in firm' => \A j \in Jobs : job[j].cam # c /\ <<c, "bare">> \notin job[j].left
    BY <2>0 DEF Quiet, At, Tags
  <2>3. firm' \subseteq firm \cup {c} /\ firm \subseteq Cameras /\ UNCHANGED job
    BY <1>2 DEF SetPolicy, TypeOK, PathType
  <2> QED BY <2>1, <2>2, <2>3 DEF Gated
<1>3. ASSUME NEW policy \in Policies \cup {"unset"}, NEW u \in Schemes, UpsertConfig(c, policy, u)
      PROVE  Gated'
  <2>1. \A d \in Cameras : d # c => config'[d] = config[d]
    BY <1>3 DEF UpsertConfig, Store, TypeOK, RowType
  <2>2. c \in firm' => policy = "unset" /\ c \in firm
    BY <1>3 DEF UpsertConfig
  <2>0. c \in firm => Configured(c)
    BY DEF Overrides
  <2>3. c \in firm' => config'[c].policy = config[c].policy
    BY <1>3, <2>0, <2>2 DEF UpsertConfig, Store, TypeOK, RowType
  <2>4. firm' \subseteq firm /\ firm \subseteq Cameras /\ UNCHANGED job
    BY <1>3 DEF UpsertConfig, TypeOK, PathType
  <2> QED BY <2>1, <2>3, <2>4 DEF Gated
<1> QED BY <1>1, <1>2, <1>3

LEMMA GatedRequested ==
  ASSUME TypeOK, Overrides, Gated, NEW j \in Jobs, Requested(j)
  PROVE  Gated'
<1> SUFFICES ASSUME NEW c \in Cameras,
                    \/ \E u \in Schemes \cup {"none"} : CreateCamera(j, c, u)
                    \/ \E reset \in BOOLEAN : StartProbe(j, c, reset)
                    \/ \E u \in Schemes : AdminPush(j, c, u) \/ PatchSource(j, c, u)
                    \/ Push(j, c) \/ Provision(j, c) \/ Unprovision(j, c) \/ ProvisionOne(j, c)
             PROVE  Gated'
  BY DEF Requested
<1>1. ASSUME NEW u \in Schemes \cup {"none"}, CreateCamera(j, c, u) PROVE Gated'
  <2>1. c \notin firm
    BY <1>1 DEF CreateCamera, Overrides
  <2>2. CASE u = "none"
    BY <1>1, <2>2 DEF CreateCamera, history, Gated
  <2>3. CASE u # "none"
    BY <1>1, <2>1, <2>3, BeginFields, GatedFrame DEF CreateCamera, history
  <2> QED BY <2>2, <2>3
<1>2. ASSUME NEW reset \in BOOLEAN, StartProbe(j, c, reset) PROVE Gated'
  <2>1. Others(j) /\ job'[j].op = "probe" /\ job'[j].source = "none" /\ job'[j].left = {}
    BY <1>2, StartFields
  <2>2. UNCHANGED config /\ firm' \subseteq firm
    BY <1>2 DEF StartProbe, rows
  <2> QED BY <2>1, <2>2 DEF Gated, Others
<1>3. ASSUME NEW u \in Schemes, AdminPush(j, c, u) PROVE Gated'
  <2>1. config[c].policy = "required" => u # "plain"
    BY <1>3 DEF AdminPush, Begin, Refuses
  <2> QED BY <1>3, <2>1, BeginFields, GatedFrame DEF AdminPush, history
<1>4. ASSUME NEW u \in Schemes, PatchSource(j, c, u) PROVE Gated'
  <2>1. /\ Others(j) /\ job'[j].cam = c /\ job'[j].source = u /\ job'[j].left = {}
        /\ UNCHANGED <<config, history>>
    BY <1>4, StartFields DEF PatchSource
  <2>2. config[c].policy = "required" => u # "plain"
    BY <1>4 DEF PatchSource, Refuses
  <2> QED BY <2>1, <2>2, GatedFrame DEF history
<1>5. CASE Push(j, c) \/ Provision(j, c)
  <2>1. PICK op, source : /\ op \in {"push", "provision"}
                          /\ Begin(j, op, c, config[c].policy, source)
                          /\ UNCHANGED <<rows, history>>
    BY <1>5 DEF Push, Provision
  <2>2. config[c].policy = "required" => source # "plain"
    BY <2>1 DEF Begin, Refuses
  <2> QED BY <2>1, <2>2, BeginFields, GatedFrame DEF rows, history
<1>6. CASE Unprovision(j, c)
  <2>1. Others(j) /\ job'[j].source = "none" /\ job'[j].left = {} /\ UNCHANGED <<rows, history>>
    BY <1>6, StartFields DEF Unprovision
  <2> QED BY <2>1, GatedFrame DEF rows, history
<1>7. CASE ProvisionOne(j, c)
  <2>1. /\ Others(j) /\ job'[j].source = "none" /\ UNCHANGED <<rows, history>>
        /\ job'[j].left = {<<c, IF Configured(c) THEN "gated" ELSE "bare">>}
    BY <1>7, StartFields DEF ProvisionOne
  <2>2. c \in firm => <<c, "bare">> \notin job'[j].left
    BY <2>1 DEF Overrides
  <2>3. \A d \in firm : <<d, "bare">> \notin job'[j].left
    BY <2>1, <2>2
  <2> QED BY <2>1, <2>3, GatedFrame DEF rows, history
<1> QED BY <1>1, <1>2, <1>3, <1>4, <1>5, <1>6, <1>7

LEMMA GatedProceeds ==
  ASSUME TypeOK, Overrides, Gated, NEW j \in Jobs, Proceeds(j)
  PROVE  Gated'
<1>1. CASE MtxAdd(j) \/ MtxDelete(j)
  <2>1. PICK at, answer : Reply(j, at, answer)
    BY <1>1 DEF MtxAdd, MtxDelete
  <2>2. /\ Others(j) /\ job'[j].op = job[j].op /\ job'[j].cam = job[j].cam
        /\ job'[j].source = job[j].source /\ job'[j].left = job[j].left
    BY <2>1, ReplyFields
  <2>3. UNCHANGED <<config, firm>>
    BY <1>1 DEF MtxAdd, MtxDelete, rows
  <2> QED BY <2>2, <2>3, GatedFrame DEF Gated
<1>2. CASE MtxPatch(j) \/ Answered(j) \/ SweepEnds(j)
  BY <1>2, FinishFields, IdleFields, GatedFrame DEF MtxPatch, Answered, SweepEnds, rows, history
<1>3. CASE ProbeAnswered(j) \/ CreateProbed(j)
  <2>1. Others(j) /\ job'[j] = Idle
    BY <1>3, FinishFields DEF ProbeAnswered, CreateProbed
  <2>2. \A c \in firm : config'[c] = config[c]
    <3>1. CASE ProbeAnswered(j)
      <4>1. CASE job[j].probe = "keep"
        BY <3>1, <4>1 DEF ProbeAnswered
      <4>2. CASE job[j].probe # "keep"
        BY <3>1, <4>2 DEF ProbeAnswered, Store, Overrides, TypeOK, RowType, PathType
      <4> QED BY <4>1, <4>2
    <3>2. CASE CreateProbed(j)
      BY <3>2 DEF CreateProbed, Store, Overrides, TypeOK, RowType, PathType
    <3> QED BY <1>3, <3>1, <3>2
  <2>3. UNCHANGED firm
    BY <1>3 DEF ProbeAnswered, CreateProbed, history
  <2>4. job'[j].op \notin Sweeps /\ job'[j].source # "plain"
    BY <2>1, IdleFields DEF Sweeps
  <2>5. \A k \in Jobs : k = j \/ job'[k] = job[k]
    BY <2>1 DEF Others
  <2> SUFFICES ASSUME NEW c \in firm, NEW k \in Jobs
               PROVE  /\ job'[k].op \in Sweeps => <<c, "bare">> \notin job'[k].left
                      /\ config[c].policy = "required" /\ job'[k].cam = c /\ job'[k].op # "boot"
                           => job'[k].source # "plain"
    BY <2>2, <2>3 DEF Gated
  <2> QED BY <2>4, <2>5 DEF Gated
<1>4. CASE PushAnswered(j)
  <2>1. \/ Others(j) /\ job'[j] = Idle
        \/ /\ Others(j) /\ job'[j].op = job[j].op /\ job'[j].cam = job[j].cam
           /\ job'[j].source = job[j].source /\ job'[j].left = job[j].left
    BY <1>4, ReplyFields, FinishFields DEF PushAnswered, Goto
  <2>2. UNCHANGED <<config, firm>>
    BY <1>4 DEF PushAnswered, history
  <2> QED BY <2>1, <2>2, IdleFields, GatedFrame DEF Gated
<1>5. CASE QueryActive(j)
  <2>1. /\ Others(j) /\ job'[j].op = job[j].op /\ job'[j].cam = job[j].cam
        /\ job'[j].source = job[j].source
        /\ job'[j].left = {<<c, IF Configured(c) THEN "gated" ELSE "bare">> :
                c \in {d \in Cameras : camera[d].life = "active" /\ camera[d].url # "none"}}
    BY <1>5, QueryFields
  <2>2. UNCHANGED <<config, firm>>
    BY <1>5 DEF QueryActive, rows, history
  <2>3. \A c \in firm : <<c, "bare">> \notin job'[j].left
    BY <2>1 DEF Overrides
  <2>4. Others(j) /\ (job'[j].op = "boot" \/ \A c \in firm :
          config[c].policy = "required" /\ job'[j].cam = c => job'[j].source # "plain")
    BY <2>1 DEF Gated
  <2> QED BY <2>2, <2>3, <2>4, GatedFrame
<1>6. CASE QueryConfigs(j)
  <2>1. Others(j) /\ job'[j].op = "boot" /\ UNCHANGED <<config, firm>>
    BY <1>6, QueryFields DEF QueryConfigs, rows, history
  <2> QED BY <2>1, GatedFrame DEF Sweeps
<1>7. CASE SweepAnswered(j)
  <2>1. /\ Others(j) /\ job'[j].op = job[j].op /\ job'[j].left = job[j].left
        /\ \/ job'[j].source = "none"
           \/ job'[j].cam = job[j].cam /\ job'[j].source = job[j].source
        /\ UNCHANGED <<config, firm>>
    BY <1>7, SweepFields DEF SweepAnswered, history
  <2> QED BY <2>1, GatedFrame DEF Gated
<1>8. CASE BootAnswered(j)
  <2>1. Others(j) /\ job'[j].op = "boot" /\ UNCHANGED <<config, firm>>
    BY <1>8, ContinueFields DEF BootAnswered, rows, history
  <2> QED BY <2>1, GatedFrame DEF Sweeps
<1>9. ASSUME NEW c \in Cameras, NEW tag \in {"gated", "bare"}, SweepNext(j, c, tag) PROVE Gated'
  <2> DEFINE left == job[j].left \ {<<c, tag>>}
  <2>1. job[j].op \in Sweeps /\ <<c, tag>> \in job[j].left /\ UNCHANGED <<config, firm>>
    BY <1>9 DEF SweepNext, history
  <2>0. \A d \in firm : <<d, "bare">> \notin left
    BY <2>1 DEF Gated
  <2>2. CASE Skips(j, left)
    <3>1. /\ Others(j) /\ job'[j].op = job[j].op /\ job'[j].cam = job[j].cam
          /\ job'[j].source = job[j].source /\ job'[j].left = left
      BY <2>2, SkipsFields
    <3> HIDE DEF left
    <3> QED BY <2>0, <2>1, <3>1, GatedFrame DEF Gated
  <2>3. CASE Tries(j, c, camera[c].url, left)
    <3>1. c \in firm => tag = "gated"
      BY <2>1 DEF Gated
    <3>2. c \in firm /\ config[c].policy = "required" => camera[c].url # "plain"
      <4>1. CASE Refuses(IF tag = "bare" THEN "unset" ELSE config[c].policy, camera[c].url)
        <5>1. job'[j].at = "next"
          BY <1>9, <4>1, SkipsFields DEF SweepNext
        <5> QED BY <2>3, <5>1, TriesFields
      <4>2. CASE ~Refuses(IF tag = "bare" THEN "unset" ELSE config[c].policy, camera[c].url)
        BY <3>1, <4>2 DEF Refuses
      <4> QED BY <4>1, <4>2
    <3>3. Others(j) /\ job'[j].cam = c /\ job'[j].source = camera[c].url /\ job'[j].left = left
      BY <2>3, TriesFields
    <3> HIDE DEF left
    <3> QED BY <2>0, <2>1, <3>2, <3>3, GatedFrame
  <2> QED BY <1>9, <2>2, <2>3 DEF SweepNext
<1>10. ASSUME NEW c \in Cameras, NEW u \in Schemes, BootNext(j, c, u) PROVE Gated'
  <2>1. Others(j) /\ job'[j].op = "boot" /\ UNCHANGED <<config, firm>>
    BY <1>10, TriesFields DEF BootNext, rows, history
  <2> QED BY <2>1, GatedFrame DEF Sweeps
<1> QED BY <1>1, <1>2, <1>3, <1>4, <1>5, <1>6, <1>7, <1>8, <1>9, <1>10 DEF Proceeds

LEMMA GatedStep == TypeOK /\ Overrides /\ Gated /\ [Next]_vars => Gated'
<1> SUFFICES ASSUME TypeOK, Overrides, Gated, [Next]_vars PROVE Gated'
  OBVIOUS
<1>1. CASE MtxRestart
  <2>1. CASE UNCHANGED job
    BY <1>1, <2>1 DEF MtxRestart, rows, Gated
  <2>2. ASSUME NEW j \in Jobs, Others(j), job'[j].source = "none", job'[j].left = {} PROVE Gated'
    BY <1>1, <2>2, GatedFrame DEF MtxRestart, rows
  <2> QED BY <1>1, <2>1, <2>2, RestartFields
<1>2. CASE Restart
  BY <1>2, RestartFields DEF Restart, rows, history, Gated
<1>3. CASE UNCHANGED vars
  BY <1>3 DEF vars, rows, history, Gated
<1> QED BY <1>1, <1>2, <1>3, GatedOperator, GatedRequested, GatedProceeds DEF Next

\* Only MediaMTX's own steps change a path, and an added path has its job's source.
LEMMA PlainPath ==
  ASSUME TypeOK, Gated, [Next]_vars, NEW c \in firm,
         config[c].policy = "required", path'[c] = "plain", path[c] # "plain"
  PROVE  Booting(c)
<1>0. c \in Cameras
  BY DEF TypeOK, PathType
<1>1. PICK j \in Jobs : MtxAdd(j) \/ MtxDelete(j) \/ MtxPatch(j)
  <2>1. path' # path
    OBVIOUS
  <2>2. ~MtxRestart
    BY <1>0 DEF MtxRestart
  <2>0. ~Operator
    BY <2>1 DEF Operator, DeleteCamera, UpdateUrl, SetPolicy, UpsertConfig
  <2>3. ~Operator /\ ~Restart /\ ~UNCHANGED vars
    BY <2>0, <2>1 DEF Restart, vars
  <2>4. ASSUME NEW k \in Jobs PROVE ~Requested(k)
    BY <2>1 DEF Requested, CreateCamera, StartProbe, AdminPush, PatchSource, Push, Provision,
                Unprovision, ProvisionOne
  <2>5. ASSUME NEW k \in Jobs, Proceeds(k) PROVE MtxAdd(k) \/ MtxDelete(k) \/ MtxPatch(k)
    BY <2>1, <2>5 DEF Proceeds, ProbeAnswered, CreateProbed, PushAnswered, Answered, QueryActive,
                QueryConfigs, SweepNext, SweepAnswered, SweepEnds, BootNext, BootAnswered
  <2> QED BY <2>2, <2>3, <2>4, <2>5 DEF Next
<1>2. job[j].cam = c /\ job[j].source = "plain"
  BY <1>0, <1>1 DEF MtxAdd, MtxDelete, MtxPatch, TypeOK, PathType
<1> QED BY <1>2 DEF Gated, Booting

LEMMA InitGated == Init => Gated
BY DEF Init, Gated

\* With TLS required by the operator, no request and no sweep but that of the
\* server's own start gives a camera a plaintext path.
THEOREM RequiredTlsIsRefused == Spec => RequiredIsRefused
<1>1. Init => TypeOK /\ Overrides /\ Gated
  BY InitType, InitOverrides, InitGated
<1>2. TypeOK /\ Overrides /\ Gated /\ [Next]_vars
        => /\ TypeOK' /\ Overrides' /\ Gated'
           /\ [\A c \in firm : config[c].policy = "required" /\ path'[c] = "plain"
                 => path[c] = "plain" \/ Booting(c)]_vars
  BY StepType, OverridesStep, GatedStep, PlainPath
<1> QED BY <1>1, <1>2, PTL DEF Spec, RequiredIsRefused
------------------------------------------------------------------------------
(* ProvisionedIsTrue *)

\* What a step never takes back of a camera's rows.
RowStays(c) ==
  /\ camera[c].url # "none" => camera'[c].url # "none"
  /\ Configured(c) => Configured(c)'

\* A status or a URL that is written.
LEMMA CameraWrites ==
  ASSUME TypeOK, NEW c \in Cameras, NEW d \in Cameras
  PROVE  /\ \A status \in {"provisioned", "failed", "blocked"} : SetStatus(c, status) =>
              camera'[d].url = camera[d].url /\ (Known(d) => Known(d)')
         /\ \A u \in Schemes : UpdateUrl(c, u) =>
              /\ d # c => camera'[d] = camera[d]
              /\ camera'[c].url = u /\ (Known(d) => Known(d)')
         /\ DeleteCamera(c) => camera'[d].url = camera[d].url /\ (Known(d) => Known(d)')
BY DEF SetStatus, UpdateUrl, DeleteCamera, Known, TypeOK, RowType, CameraType

\* A configuration that is stored with a source.
LEMMA ConfigWrites ==
  ASSUME TypeOK, NEW c \in Cameras, NEW d \in Cameras, NEW policy \in Policies, NEW source, NEW setBy,
         Store(c, policy, source, setBy)
  PROVE  /\ d # c => config'[d] = config[d]
         /\ Configured(c)' /\ config'[c].source = source
BY LenientAssumption DEF Store, Configured, Policies, TypeOK, RowType

\* A job's step that leaves the configurations alone.
LEMMA RowsFrame ==
  ASSUME TypeOK, Sourced, UNCHANGED config, NEW c \in Cameras,
         camera'[c].url = camera[c].url, Known(c) => Known(c)'
  PROVE  RowStays(c) /\ SourcedRow(c)'
BY DEF RowStays, Sourced, SourcedRow, Configured

LEMMA UnchangedRows ==
  ASSUME TypeOK, Sourced, UNCHANGED <<camera, config>>, NEW c \in Cameras
  PROVE  RowStays(c) /\ SourcedRow(c)'
BY DEF RowStays, Sourced, SourcedRow, Configured, Known

LEMMA RowsOperator ==
  ASSUME TypeOK, Sourced, Operator, NEW d \in Cameras
  PROVE  RowStays(d) /\ SourcedRow(d)'
<1>0. PICK c \in Cameras :
         \/ DeleteCamera(c)
         \/ \E u \in Schemes : UpdateUrl(c, u)
         \/ \E policy \in Policies : SetPolicy(c, policy)
         \/ \E policy \in Policies \cup {"unset"}, u \in Schemes : UpsertConfig(c, policy, u)
  BY DEF Operator
<1>1. CASE DeleteCamera(c)
  BY <1>1, CameraWrites, RowsFrame DEF DeleteCamera
<1>2. ASSUME NEW u \in Schemes, UpdateUrl(c, u) PROVE RowStays(d) /\ SourcedRow(d)'
  <2>1. /\ d # c => camera'[d] = camera[d]
        /\ camera'[c].url = u /\ (Known(d) => Known(d)') /\ u # "none"
    BY <1>2, CameraWrites DEF Schemes
  <2>2. UNCHANGED config /\ Known(c)
    BY <1>2 DEF UpdateUrl
  <2> QED BY <2>1, <2>2 DEF RowStays, Sourced, SourcedRow, Configured, Known
<1>3. ASSUME NEW policy \in Policies, SetPolicy(c, policy) PROVE RowStays(d) /\ SourcedRow(d)'
  <2>1. /\ d # c => config'[d] = config[d]
        /\ Configured(c)' /\ config'[c].source = config[c].source /\ Configured(c) /\ UNCHANGED camera
    BY <1>3, ConfigWrites DEF SetPolicy
  <2> QED BY <2>1 DEF RowStays, Sourced, SourcedRow, Configured, Known
<1>4. ASSUME NEW policy \in Policies \cup {"unset"}, NEW u \in Schemes, UpsertConfig(c, policy, u)
      PROVE  RowStays(d) /\ SourcedRow(d)'
  <2>1. PICK p \in Policies : Store(c, p, u, config[c].setBy)
    BY <1>4, ConfigFields DEF UpsertConfig, Configured, Policies
  <2>2. /\ d # c => config'[d] = config[d]
        /\ Configured(c)' /\ config'[c].source = u /\ u # "none" /\ UNCHANGED camera
    BY <1>4, <2>1, ConfigWrites DEF UpsertConfig, Schemes
  <2> QED BY <2>2 DEF RowStays, Sourced, SourcedRow, Configured, Known
<1> QED BY <1>0, <1>1, <1>2, <1>3, <1>4

LEMMA RowsRequested ==
  ASSUME TypeOK, Sourced, NEW j \in Jobs, Requested(j), NEW d \in Cameras
  PROVE  RowStays(d) /\ SourcedRow(d)'
<1>1. ASSUME NEW c \in Cameras, NEW u \in Schemes \cup {"none"}, CreateCamera(j, c, u)
      PROVE  RowStays(d) /\ SourcedRow(d)'
  <2>1. /\ d # c => camera'[d] = camera[d]
        /\ Known(c)' /\ ~Known(c) /\ UNCHANGED config
    BY <1>1 DEF CreateCamera, Known, TypeOK, RowType
  <2> QED BY <2>1 DEF RowStays, Sourced, SourcedRow, Configured, Known
<1>2. CASE ~\E c \in Cameras, u \in Schemes \cup {"none"} : CreateCamera(j, c, u)
  <2>1. UNCHANGED <<camera, config>>
    BY <1>2 DEF Requested, StartProbe, AdminPush, PatchSource, Push, Provision, Unprovision,
                ProvisionOne, rows
  <2> QED BY <2>1, UnchangedRows
<1> QED BY <1>1, <1>2

LEMMA RowsProceeds ==
  ASSUME TypeOK, Sourced, NEW j \in Jobs, Proceeds(j), NEW d \in Cameras
  PROVE  RowStays(d) /\ SourcedRow(d)'
<1>0. job[j] \in JobType
  BY DEF TypeOK
<1>1. CASE ProbeAnswered(j)
  <2>1. CASE job[j].probe = "keep"
    BY <1>1, <2>1, UnchangedRows DEF ProbeAnswered
  <2>2. CASE job[j].probe # "keep"
    <3>1. PICK c \in Cameras : c = job[j].cam /\ Configured(c)
      BY <1>1 DEF ProbeAnswered, Sourced, SourcedJob
    <3>2. PICK p, setBy : p \in Policies /\ Store(c, p, config[c].source, setBy)
      BY <1>1, <2>2, <3>1, ConfigFields DEF ProbeAnswered, Configured, Policies
    <3>3. /\ d # c => config'[d] = config[d]
          /\ Configured(c)' /\ config'[c].source = config[c].source /\ UNCHANGED camera
      BY <1>1, <3>1, <3>2, ConfigWrites DEF ProbeAnswered
    <3> QED BY <3>1, <3>3 DEF RowStays, Sourced, SourcedRow, Configured, Known
  <2> QED BY <2>1, <2>2
<1>2. CASE CreateProbed(j)
  <2>1. PICK c \in Cameras : c = job[j].cam /\ job[j].source # "none"
    BY <1>0, <1>2 DEF CreateProbed, JobType, Sourced, SourcedJob
  <2>2. camera'[d].url = camera[d].url /\ (Known(d) => Known(d)')
    BY <1>2, <2>1, CameraWrites DEF CreateProbed
  <2>3. CASE UNCHANGED config
    BY <2>2, <2>3, RowsFrame
  <2>4. CASE config' # config
    <3>1. PICK p \in Policies : \/ Store(c, p, job[j].source, "probe")
                                \/ Configured(c) /\ Store(c, p, config[c].source, "probe")
      BY <1>2, <2>1, <2>4 DEF CreateProbed, Policies
    <3>2. Configured(c) => config[c].source # "none"
      BY DEF Sourced, SourcedRow
    <3>3. /\ d # c => config'[d] = config[d]
          /\ Configured(c)' /\ config'[c].source # "none"
      BY <2>1, <3>1, <3>2, ConfigWrites
    <3> QED BY <2>2, <3>3 DEF RowStays, Sourced, SourcedRow, Configured
  <2> QED BY <2>3, <2>4
<1>3. CASE PushAnswered(j)
  <2>1. job[j].at # "idle" /\ job[j].at # "query" /\ job[j].at # "next" /\ UNCHANGED config
    BY <1>3 DEF PushAnswered
  <2>2. UNCHANGED camera \/ SetStatus(job[j].cam, "provisioned")
    BY <1>3 DEF PushAnswered
  <2> QED BY <1>0, <2>1, <2>2, CameraWrites, RowsFrame, UnchangedRows DEF JobType
<1>4. CASE SweepAnswered(j)
  <2>1. job[j].at = "added" /\ UNCHANGED config
    BY <1>4 DEF SweepAnswered
  <2>2. UNCHANGED camera \/ \E status \in {"provisioned", "failed"} : SetStatus(job[j].cam, status)
    BY <1>4 DEF SweepAnswered
  <2> QED BY <1>0, <2>1, <2>2, CameraWrites, RowsFrame, UnchangedRows DEF JobType
<1>5. ASSUME NEW c \in Cameras, NEW tag \in {"gated", "bare"}, SweepNext(j, c, tag)
      PROVE  RowStays(d) /\ SourcedRow(d)'
  <2>1. UNCHANGED config /\ (UNCHANGED camera \/ SetStatus(c, "blocked"))
    BY <1>5 DEF SweepNext
  <2> QED BY <2>1, CameraWrites, RowsFrame, UnchangedRows
<1>6. CASE /\ ~ProbeAnswered(j) /\ ~CreateProbed(j) /\ ~PushAnswered(j) /\ ~SweepAnswered(j)
           /\ ~\E c \in Cameras, tag \in {"gated", "bare"} : SweepNext(j, c, tag)
  <2>1. UNCHANGED <<camera, config>>
    BY <1>6 DEF Proceeds, MtxAdd, MtxDelete, MtxPatch, Answered, QueryActive, QueryConfigs, SweepEnds,
                BootNext, BootAnswered, rows
  <2> QED BY <2>1, UnchangedRows
<1> QED BY <1>1, <1>2, <1>3, <1>4, <1>5, <1>6

LEMMA RowsStep ==
  ASSUME TypeOK, Sourced, [Next]_vars, NEW d \in Cameras
  PROVE  RowStays(d) /\ SourcedRow(d)'
<1>1. CASE MtxRestart \/ Restart \/ UNCHANGED vars
  BY <1>1, UnchangedRows DEF MtxRestart, Restart, vars, rows
<1> QED BY <1>1, RowsOperator, RowsRequested, RowsProceeds DEF Next

\* The jobs.
LEMMA JobsFrame ==
  ASSUME TypeOK, Sourced, \A c \in Cameras : RowStays(c), NEW k \in Jobs,
         job'[k].op = job[k].op, job'[k].cam = job[k].cam, job'[k].source = job[k].source,
         job'[k].left \subseteq job[k].left,
         job'[k].at \in {"add", "added", "readd", "readded", "patch"} => job[k].source # "none"
  PROVE  SourcedJob(k)'
<1>1. SourcedJob(k)
  BY DEF Sourced
<1>2. job'[k].op = "probe" => job'[k].cam \in Cameras /\ Configured(job[k].cam)'
  BY <1>1 DEF SourcedJob, RowStays
<1>3. ASSUME job'[k].op \in Sweeps, NEW c \in Cameras, NEW tag \in Tags, <<c, tag>> \in job'[k].left
      PROVE  camera'[c].url # "none"
  BY <1>1, <1>3 DEF SourcedJob, RowStays
<1>4. job'[k].op \in {"create", "push", "admin"} => job'[k].source # "none"
  BY <1>1 DEF SourcedJob
<1> QED BY <1>2, <1>3, <1>4 DEF SourcedJob, Configured

\* A job that starts, or ends.
LEMMA JobsStart ==
  ASSUME NEW k \in Jobs, job'[k].op # "probe", job'[k].left = {},
         job'[k].at \in {"add", "added", "readd", "readded", "patch"} => job'[k].source # "none",
         job'[k].op \in {"create", "push", "admin"} => job'[k].source # "none"
  PROVE  SourcedJob(k)'
BY DEF SourcedJob

LEMMA OtherJobs ==
  ASSUME TypeOK, Sourced, \A c \in Cameras : RowStays(c), NEW j \in Jobs, Others(j), SourcedJob(j)'
  PROVE  \A k \in Jobs : SourcedJob(k)'
<1>1. ASSUME NEW k \in Jobs, k # j PROVE SourcedJob(k)'
  <2>1. job'[k] = job[k]
    BY <1>1 DEF Others
  <2>2. job[k].at \in {"add", "added", "readd", "readded", "patch"} => job[k].source # "none"
    BY DEF Sourced, SourcedJob
  <2> QED BY <2>1, <2>2, JobsFrame
<1> QED BY <1>1

LEMMA SameJobs ==
  ASSUME TypeOK, Sourced, \A c \in Cameras : RowStays(c), NEW k \in Jobs, job'[k] = job[k]
  PROVE  SourcedJob(k)'
<1>1. job[k].at \in {"add", "added", "readd", "readded", "patch"} => job[k].source # "none"
  BY DEF Sourced, SourcedJob
<1> QED BY <1>1, JobsFrame

LEMMA SourcedRequested ==
  ASSUME TypeOK, Sourced, \A c \in Cameras : RowStays(c), NEW j \in Jobs, Requested(j)
  PROVE  \A k \in Jobs : SourcedJob(k)'
<1> SUFFICES ASSUME NEW c \in Cameras,
                    \/ \E u \in Schemes \cup {"none"} : CreateCamera(j, c, u)
                    \/ \E reset \in BOOLEAN : StartProbe(j, c, reset)
                    \/ \E u \in Schemes : AdminPush(j, c, u) \/ PatchSource(j, c, u)
                    \/ Push(j, c) \/ Provision(j, c) \/ Unprovision(j, c) \/ ProvisionOne(j, c)
             PROVE  Others(j) /\ SourcedJob(j)'
  BY OtherJobs DEF Requested
<1>1. ASSUME NEW u \in Schemes \cup {"none"}, CreateCamera(j, c, u) PROVE Others(j) /\ SourcedJob(j)'
  <2>1. CASE u = "none"
    BY <1>1, <2>1, SameJobs DEF CreateCamera, Others
  <2>2. CASE u # "none"
    BY <1>1, <2>2, BeginFields, JobsStart DEF CreateCamera
  <2> QED BY <2>1, <2>2
<1>2. ASSUME NEW reset \in BOOLEAN, StartProbe(j, c, reset) PROVE Others(j) /\ SourcedJob(j)'
  <2>1. Others(j) /\ job'[j].op = "probe" /\ job'[j].cam = c /\ job'[j].at = "probe" /\ job'[j].left = {}
    BY <1>2, StartFields
  <2>2. Configured(c)'
    BY <1>2 DEF StartProbe, RowStays
  <2> QED BY <2>1, <2>2 DEF SourcedJob, Configured
<1>3. ASSUME NEW u \in Schemes, AdminPush(j, c, u) PROVE Others(j) /\ SourcedJob(j)'
  BY <1>3, BeginFields, JobsStart DEF AdminPush, Schemes
<1>4. ASSUME NEW u \in Schemes, PatchSource(j, c, u) PROVE Others(j) /\ SourcedJob(j)'
  BY <1>4, StartFields, JobsStart DEF Schemes
<1>5. CASE Push(j, c) \/ Provision(j, c)
  <2>1. Configured(c) => config[c].source # "none"
    BY DEF Sourced, SourcedRow
  <2> QED BY <1>5, <2>1, BeginFields, JobsStart DEF Push, Provision
<1>6. CASE Unprovision(j, c)
  BY <1>6, StartFields, JobsStart
<1>7. CASE ProvisionOne(j, c)
  <2>1. /\ Others(j) /\ job'[j].op = "one" /\ job'[j].at = "next"
        /\ job'[j].left = {<<c, IF Configured(c) THEN "gated" ELSE "bare">>}
    BY <1>7, StartFields
  <2>2. camera'[c].url # "none"
    BY <1>7 DEF ProvisionOne, RowStays
  <2> QED BY <2>1, <2>2 DEF SourcedJob
<1> QED BY <1>1, <1>2, <1>3, <1>4, <1>5, <1>6, <1>7

LEMMA SourcedProceeds ==
  ASSUME TypeOK, Sourced, \A c \in Cameras : RowStays(c), NEW j \in Jobs, Proceeds(j)
  PROVE  \A k \in Jobs : SourcedJob(k)'
<1> SUFFICES Others(j) /\ SourcedJob(j)'
  BY OtherJobs
<1>0. SourcedJob(j)
  BY DEF Sourced
<1>1. CASE MtxAdd(j) \/ MtxDelete(j)
  <2>1. CASE MtxAdd(j)
    <3>1. job[j].source # "none"
      BY <1>0, <2>1 DEF MtxAdd, SourcedJob
    <3>2. PICK at, answer : Reply(j, at, answer)
      BY <2>1 DEF MtxAdd
    <3> QED BY <3>1, <3>2, ReplyFields, JobsFrame
  <2>2. CASE MtxDelete(j)
    <3>1. PICK answer : Reply(j, "deleted", answer)
      BY <2>2 DEF MtxDelete
    <3> QED BY <3>1, ReplyFields, JobsFrame
  <2> QED BY <1>1, <2>1, <2>2
<1>2. CASE MtxPatch(j) \/ Answered(j) \/ SweepEnds(j) \/ ProbeAnswered(j) \/ CreateProbed(j)
  BY <1>2, FinishFields, IdleFields, JobsStart
  DEF MtxPatch, Answered, SweepEnds, ProbeAnswered, CreateProbed
<1>3. CASE PushAnswered(j)
  <2>1. job[j].source # "none"
    BY <1>0, <1>3 DEF PushAnswered, SourcedJob
  <2>2. \/ Others(j) /\ job'[j] = Idle
        \/ /\ Others(j) /\ job'[j].op = job[j].op /\ job'[j].cam = job[j].cam
           /\ job'[j].source = job[j].source /\ job'[j].left = job[j].left
    BY <1>3, ReplyFields, FinishFields DEF PushAnswered, Goto
  <2> QED BY <2>1, <2>2, IdleFields, JobsStart, JobsFrame
<1>4. CASE QueryActive(j)
  <2>1. /\ Others(j) /\ job'[j].op = "hook" /\ job'[j].at = "next"
        /\ job'[j].left = {<<c, IF Configured(c) THEN "gated" ELSE "bare">> :
                c \in {d \in Cameras : camera[d].life = "active" /\ camera[d].url # "none"}}
    BY <1>4, QueryFields DEF QueryActive
  <2>2. ASSUME NEW c \in Cameras, NEW tag \in Tags, <<c, tag>> \in job'[j].left
        PROVE  camera'[c].url # "none"
    BY <2>1, <2>2 DEF RowStays
  <2> QED BY <2>1, <2>2 DEF SourcedJob
<1>5. CASE QueryConfigs(j)
  <2>1. Others(j) /\ job'[j].op = "boot" /\ job'[j].at = "next"
    BY <1>5, QueryFields DEF QueryConfigs
  <2> QED BY <2>1 DEF SourcedJob, Sweeps
<1>6. CASE SweepAnswered(j)
  <2>1. /\ Others(j) /\ job'[j].op = job[j].op /\ job'[j].left = job[j].left /\ job[j].op \in Sweeps
        /\ job'[j].at = "next" \/ job'[j].source = job[j].source
        /\ job[j].source # "none"
    BY <1>0, <1>6, SweepFields DEF SweepAnswered, SourcedJob
  <2>2. ASSUME NEW c \in Cameras, NEW tag \in Tags, <<c, tag>> \in job'[j].left
        PROVE  camera'[c].url # "none"
    BY <1>0, <2>1, <2>2 DEF SourcedJob, RowStays
  <2> QED BY <2>1, <2>2 DEF SourcedJob, Sweeps
<1>7. CASE BootAnswered(j)
  <2>1. Others(j) /\ job'[j].op = "boot" /\ job'[j].at = "next"
    BY <1>7, ContinueFields DEF BootAnswered
  <2> QED BY <2>1 DEF SourcedJob, Sweeps
<1>8. ASSUME NEW c \in Cameras, NEW tag \in {"gated", "bare"}, SweepNext(j, c, tag)
      PROVE  Others(j) /\ SourcedJob(j)'
  <2> DEFINE left == job[j].left \ {<<c, tag>>}
  <2>1. job[j].op \in Sweeps /\ job[j].at = "next" /\ <<c, tag>> \in job[j].left /\ tag \in Tags
    BY <1>8 DEF SweepNext, Tags
  <2>2. camera[c].url # "none"
    BY <1>0, <2>1 DEF SourcedJob
  <2>3. Skips(j, left) \/ Tries(j, c, camera[c].url, left)
    BY <1>8 DEF SweepNext
  <2>4. /\ Others(j) /\ job'[j].op = job[j].op /\ job'[j].left \subseteq job[j].left
        /\ job'[j].at = "next" \/ job'[j].source # "none"
    BY <2>1, <2>2, <2>3, SkipsFields, TriesFields
  <2>5. ASSUME NEW d \in Cameras, NEW t \in Tags, <<d, t>> \in job'[j].left
        PROVE  camera'[d].url # "none"
    BY <1>0, <2>1, <2>4, <2>5 DEF SourcedJob, RowStays
  <2> QED BY <2>1, <2>4, <2>5 DEF SourcedJob, Sweeps
<1>9. ASSUME NEW c \in Cameras, NEW u \in Schemes, BootNext(j, c, u) PROVE Others(j) /\ SourcedJob(j)'
  <2>1. Others(j) /\ job'[j].op = "boot" /\ job'[j].source = u /\ u # "none"
    BY <1>9, TriesFields DEF BootNext, Schemes
  <2> QED BY <2>1 DEF SourcedJob, Sweeps
<1> QED BY <1>1, <1>2, <1>3, <1>4, <1>5, <1>6, <1>7, <1>8, <1>9 DEF Proceeds

LEMMA SourcedStep == TypeOK /\ Sourced /\ [Next]_vars => Sourced'
<1> SUFFICES ASSUME TypeOK, Sourced, [Next]_vars PROVE \A k \in Jobs : SourcedJob(k)'
  BY RowsStep DEF Sourced
<1>0. \A c \in Cameras : RowStays(c)
  BY RowsStep
<1>1. CASE Operator \/ UNCHANGED vars
  <2>1. UNCHANGED job
    BY <1>1 DEF Operator, DeleteCamera, UpdateUrl, SetPolicy, UpsertConfig, vars
  <2> QED BY <1>0, <2>1, SameJobs
<1>2. CASE MtxRestart
  <2>1. CASE UNCHANGED job
    BY <1>0, <2>1, SameJobs
  <2>2. ASSUME NEW j \in Jobs, Others(j), job'[j].op = "hook", job'[j].at = "query", job'[j].left = {}
        PROVE  \A k \in Jobs : SourcedJob(k)'
    BY <1>0, <2>2, OtherJobs, JobsStart
  <2> QED BY <1>2, <2>1, <2>2, RestartFields
<1>3. CASE Restart
  <2>1. ASSUME NEW k \in Jobs PROVE SourcedJob(k)'
    BY <1>3, RestartFields, JobsStart
  <2> QED BY <2>1
<1> QED BY <1>0, <1>1, <1>2, <1>3, SourcedRequested, SourcedProceeds DEF Next

\* A path that has been there has been there ever since.
LEMMA HadStays ==
  ASSUME TypeOK, Sourced, [Next]_vars, NEW c \in Cameras, Had(c)
  PROVE  Had(c)'
<1>1. CASE MtxRestart
  BY <1>1 DEF MtxRestart, Had
<1>2. CASE UNCHANGED <<path, removed>>
  BY <1>2 DEF Had
<1>3. ASSUME NEW j \in Jobs, MtxAdd(j) PROVE Had(c)'
  <2>1. job[j].source # "none"
    BY <1>3 DEF MtxAdd, Sourced, SourcedJob
  <2>2. job[j].cam \in Cameras
    BY <1>3 DEF MtxAdd, TypeOK, JobType
  <2> QED BY <1>3, <2>1, <2>2 DEF MtxAdd, Had, TypeOK, PathType
<1>4. ASSUME NEW j \in Jobs, MtxDelete(j) PROVE Had(c)'
  BY <1>4 DEF MtxDelete, Had, TypeOK, PathType
<1>5. ASSUME NEW j \in Jobs, MtxPatch(j) PROVE Had(c)'
  <2>1. job[j].source # "none"
    BY <1>5 DEF MtxPatch, Sourced, SourcedJob
  <2> QED BY <1>5, <2>1 DEF MtxPatch, history, Had, TypeOK, PathType
<1>6. CASE ~MtxRestart /\ \A j \in Jobs : ~MtxAdd(j) /\ ~MtxDelete(j) /\ ~MtxPatch(j)
  <2>1. UNCHANGED <<path, removed>>
    <3>0. CASE Operator
      BY <3>0 DEF Operator, DeleteCamera, UpdateUrl, SetPolicy, UpsertConfig, history
    <3>1. CASE Restart \/ UNCHANGED vars
      BY <3>1 DEF Restart, vars, history
    <3>2. ASSUME NEW j \in Jobs, Requested(j) PROVE UNCHANGED <<path, removed>>
      BY <3>2 DEF Requested, CreateCamera, StartProbe, AdminPush, PatchSource, Push, Provision,
                  Unprovision, ProvisionOne, history
    <3>3. ASSUME NEW j \in Jobs, Proceeds(j) PROVE UNCHANGED <<path, removed>>
      BY <1>6, <3>3 DEF Proceeds, ProbeAnswered, CreateProbed, PushAnswered, Answered, QueryActive,
                        QueryConfigs, SweepNext, SweepAnswered, SweepEnds, BootNext, BootAnswered, history
    <3> QED BY <1>6, <3>0, <3>1, <3>2, <3>3 DEF Next
  <2> QED BY <1>2, <2>1
<1> QED BY <1>1, <1>3, <1>4, <1>5, <1>6

LEMMA OtherAnswers ==
  ASSUME TypeOK, Sourced, Answers, [Next]_vars, NEW k \in Jobs, job'[k] = job[k]
  PROVE  Answer(k)'
<1>1. job[k].at \in {"added", "readded", "probe"} => job[k].cam \in Cameras
  BY DEF TypeOK, JobType
<1> QED BY <1>1, HadStays DEF Answers, Answer, Had

\* A job that is not left with an answer, nor with a probe after its push.
LEMMA NoAnswer ==
  ASSUME NEW k \in Jobs, job'[k].at \notin {"added", "readded"},
         job'[k].op # "create" \/ job'[k].at # "probe"
  PROVE  Answer(k)'
BY DEF Answer

LEMMA AnswersRequested ==
  ASSUME TypeOK, Sourced, Answers, [Next]_vars, NEW j \in Jobs, Requested(j)
  PROVE  Others(j) /\ Answer(j)'
<1> SUFFICES ASSUME NEW c \in Cameras,
                    \/ \E u \in Schemes \cup {"none"} : CreateCamera(j, c, u)
                    \/ \E reset \in BOOLEAN : StartProbe(j, c, reset)
                    \/ \E u \in Schemes : AdminPush(j, c, u) \/ PatchSource(j, c, u)
                    \/ Push(j, c) \/ Provision(j, c) \/ Unprovision(j, c) \/ ProvisionOne(j, c)
             PROVE  Others(j) /\ Answer(j)'
  BY DEF Requested
<1>1. ASSUME NEW u \in Schemes \cup {"none"}, CreateCamera(j, c, u) PROVE Others(j) /\ Answer(j)'
  <2>1. CASE u = "none"
    BY <1>1, <2>1, OtherAnswers DEF CreateCamera, Others
  <2>2. CASE u # "none"
    BY <1>1, <2>2, BeginFields, NoAnswer DEF CreateCamera
  <2> QED BY <2>1, <2>2
<1>2. ASSUME NEW reset \in BOOLEAN, StartProbe(j, c, reset) PROVE Others(j) /\ Answer(j)'
  BY <1>2, StartFields, NoAnswer
<1>3. ASSUME NEW u \in Schemes, AdminPush(j, c, u) PROVE Others(j) /\ Answer(j)'
  BY <1>3, BeginFields, NoAnswer DEF AdminPush
<1>4. ASSUME NEW u \in Schemes, PatchSource(j, c, u) PROVE Others(j) /\ Answer(j)'
  BY <1>4, StartFields, NoAnswer
<1>5. CASE Push(j, c) \/ Provision(j, c)
  BY <1>5, BeginFields, NoAnswer DEF Push, Provision
<1>6. CASE Unprovision(j, c) \/ ProvisionOne(j, c)
  BY <1>6, StartFields, NoAnswer
<1> QED BY <1>1, <1>2, <1>3, <1>4, <1>5, <1>6

LEMMA AnswersProceeds ==
  ASSUME TypeOK, Sourced, Answers, [Next]_vars, NEW j \in Jobs, Proceeds(j)
  PROVE  Others(j) /\ Answer(j)'
<1>0. job[j] \in JobType /\ Answer(j)
  BY DEF TypeOK, Answers
<1>1. CASE MtxAdd(j)
  <2>1. PICK c \in Cameras : c = job[j].cam
    BY <1>0, <1>1 DEF MtxAdd, JobType
  <2>2. job[j].source # "none"
    BY <1>1 DEF MtxAdd, Sourced, SourcedJob
  <2>3. PICK at \in {"added", "readded"},
             answer \in {IF path[c] = "none" THEN "ok" ELSE "exists", "error"} : Reply(j, at, answer)
    BY <1>1, <2>1 DEF MtxAdd
  <2>4. Others(j) /\ job'[j].cam = c /\ job'[j].at = at /\ job'[j].answer = answer
    BY <2>1, <2>3, ReplyFields
  <2>5. answer # "none"
    BY <2>3
  <2>6. answer # "error" => Had(c)'
    <3>1. CASE path[c] = "none"
      <4>1. answer \in {"ok", "error"}
        BY <2>3, <3>1
      <4>2. answer = "ok" => path' = [path EXCEPT ![c] = job[j].source]
        BY <1>1, <2>1, <2>4 DEF MtxAdd
      <4> QED BY <2>2, <4>1, <4>2 DEF Had, TypeOK, PathType
    <3>2. CASE path[c] # "none"
      BY <1>1, <2>1, <3>2 DEF MtxAdd, Had
    <3> QED BY <3>1, <3>2
  <2>7. job'[j].at # "probe"
    BY <2>3, <2>4
  <2> QED BY <2>4, <2>5, <2>6, <2>7 DEF Answer, Had
<1>2. CASE MtxDelete(j)
  <2>1. PICK answer : Reply(j, "deleted", answer)
    BY <1>2 DEF MtxDelete
  <2> QED BY <2>1, ReplyFields, NoAnswer
<1>3. CASE MtxPatch(j) \/ Answered(j) \/ SweepEnds(j) \/ ProbeAnswered(j) \/ CreateProbed(j)
  BY <1>3, FinishFields, IdleFields, NoAnswer
  DEF MtxPatch, Answered, SweepEnds, ProbeAnswered, CreateProbed
<1>4. CASE PushAnswered(j)
  <2>1. CASE Finish(j)
    BY <2>1, FinishFields, IdleFields, NoAnswer
  <2>2. CASE Goto(j, "delete") \/ Goto(j, "readd")
    BY <2>2, ReplyFields, NoAnswer DEF Goto
  <2>3. CASE Goto(j, "probe") /\ job[j].at \in {"added", "readded"} /\ job[j].answer = "ok"
    <3>1. PICK c \in Cameras : c = job[j].cam
      BY <1>0, <2>3 DEF JobType
    <3>2. Had(c)
      BY <1>0, <2>3, <3>1 DEF Answer
    <3>3. Had(c)'
      BY <3>2, HadStays
    <3>4. Others(j) /\ job'[j].cam = c /\ job'[j].at = "probe"
      BY <2>3, <3>1, ReplyFields DEF Goto
    <3> QED BY <3>3, <3>4 DEF Answer, Had
  <2> QED BY <1>4, <2>1, <2>2, <2>3 DEF PushAnswered
<1>5. CASE QueryActive(j) \/ QueryConfigs(j)
  BY <1>5, QueryFields, NoAnswer
<1>6. CASE SweepAnswered(j)
  BY <1>6, SweepFields, NoAnswer
<1>7. CASE BootAnswered(j)
  BY <1>7, ContinueFields, NoAnswer DEF BootAnswered
<1>8. ASSUME NEW c \in Cameras, NEW tag \in {"gated", "bare"}, SweepNext(j, c, tag)
      PROVE  Others(j) /\ Answer(j)'
  BY <1>8, SkipsFields, TriesFields, NoAnswer DEF SweepNext
<1>9. ASSUME NEW c \in Cameras, NEW u \in Schemes, BootNext(j, c, u) PROVE Others(j) /\ Answer(j)'
  BY <1>9, TriesFields, NoAnswer DEF BootNext
<1> QED BY <1>1, <1>2, <1>3, <1>4, <1>5, <1>6, <1>7, <1>8, <1>9 DEF Proceeds

LEMMA AnswersStep == TypeOK /\ Sourced /\ Answers /\ [Next]_vars => Answers'
<1> SUFFICES ASSUME TypeOK, Sourced, Answers, [Next]_vars, NEW k \in Jobs PROVE Answer(k)'
  BY DEF Answers
<1>1. CASE Operator \/ UNCHANGED vars
  <2>1. UNCHANGED job
    BY <1>1 DEF Operator, DeleteCamera, UpdateUrl, SetPolicy, UpsertConfig, vars
  <2> QED BY <2>1, OtherAnswers
<1>2. CASE MtxRestart
  <2>1. CASE UNCHANGED job
    BY <2>1, OtherAnswers
  <2>2. ASSUME NEW j \in Jobs, Others(j), job'[j].op = "hook", job'[j].at = "query" PROVE Answer(k)'
    BY <2>2, OtherAnswers, NoAnswer DEF Others
  <2> QED BY <1>2, <2>1, <2>2, RestartFields
<1>3. CASE Restart
  BY <1>3, RestartFields, NoAnswer
<1>4. ASSUME NEW j \in Jobs, Requested(j) \/ Proceeds(j) PROVE Answer(k)'
  BY <1>4, AnswersRequested, AnswersProceeds, OtherAnswers DEF Others
<1> QED BY <1>1, <1>2, <1>3, <1>4 DEF Next

\* The status is written where the path is known to have been there.
LEMMA StatusStep == TypeOK /\ Sourced /\ Answers /\ ProvisionedIsTrue /\ [Next]_vars => ProvisionedIsTrue'
<1> SUFFICES ASSUME TypeOK, Sourced, Answers, ProvisionedIsTrue, [Next]_vars, NEW c \in Cameras,
                    camera'[c].status = "provisioned", camera[c].status # "provisioned"
             PROVE  Had(c)
  BY HadStays DEF ProvisionedIsTrue, Had
<1>0. \A j \in Jobs : job[j] \in JobType /\ Answer(j)
  BY DEF TypeOK, Answers
<1>1. PICK j \in Jobs : Requested(j) \/ Proceeds(j)
  <2>1. ~Operator
    <3>0. camera'[c].status # camera[c].status
      OBVIOUS
    <3>1. ASSUME NEW d \in Cameras, DeleteCamera(d) \/ \E u \in Schemes : UpdateUrl(d, u) PROVE FALSE
      <4>1. CASE DeleteCamera(d)
        BY <3>0, <4>1, OtherFields DEF DeleteCamera
      <4>2. ASSUME NEW u, UpdateUrl(d, u) PROVE FALSE
        BY <3>0, <4>2, OtherFields DEF UpdateUrl
      <4> QED BY <3>1, <4>1, <4>2
    <3>2. ASSUME NEW d \in Cameras, NEW policy,
                 SetPolicy(d, policy) \/ \E u \in Schemes : UpsertConfig(d, policy, u)
          PROVE  FALSE
      BY <3>0, <3>2 DEF SetPolicy, UpsertConfig
    <3> QED BY <3>1, <3>2 DEF Operator
  <2>0. camera' # camera
    OBVIOUS
  <2>2. ~MtxRestart /\ ~Restart /\ ~UNCHANGED vars
    BY <2>0, SMTT(30) DEF MtxRestart, Restart, vars, rows
  <2> QED BY <2>1, <2>2 DEF Next
<1>2. ~Requested(j)
  <2>1. ASSUME NEW d \in Cameras, NEW u \in Schemes \cup {"none"} PROVE ~CreateCamera(j, d, u)
    BY DEF CreateCamera, TypeOK, RowType
  <2>2. camera' # camera
    OBVIOUS
  <2> QED BY <2>1, <2>2 DEF Requested, StartProbe, AdminPush, PatchSource, Push, Provision, Unprovision,
                            ProvisionOne, rows
<1>3. /\ CreateProbed(j) \/ PushAnswered(j) \/ SweepAnswered(j)
      /\ SetStatus(job[j].cam, "provisioned")
  <2>1. ASSUME NEW d \in Cameras, NEW tag \in {"gated", "bare"} PROVE ~SweepNext(j, d, tag)
    BY DEF SweepNext, SetStatus, TypeOK, RowType, CameraType
  <2>2. camera' # camera
    OBVIOUS
  <2>3. CreateProbed(j) \/ PushAnswered(j) \/ SweepAnswered(j)
    BY <1>1, <1>2, <2>1, <2>2 DEF Proceeds, MtxAdd, MtxDelete, MtxPatch, ProbeAnswered, Answered, QueryActive,
       QueryConfigs, SweepEnds, BootNext, BootAnswered, rows
  <2>4. ~SetStatus(job[j].cam, "failed")
    BY DEF SetStatus, TypeOK, RowType, CameraType
  <2> QED BY <2>2, <2>3, <2>4 DEF CreateProbed, PushAnswered, SweepAnswered
<1>4. job[j].cam = c
  BY <1>3 DEF SetStatus, TypeOK, RowType, CameraType
<1>5. CASE CreateProbed(j)
  BY <1>0, <1>4, <1>5 DEF CreateProbed, Answer
<1>6. CASE PushAnswered(j)
  <2>1. job[j].at \in {"added", "readded"} /\ job[j].answer = "ok"
    BY <1>3, <1>6 DEF PushAnswered
  <2> QED BY <1>0, <1>4, <2>1 DEF Answer
<1>7. CASE SweepAnswered(j)
  <2>1. ~SetStatus(job[j].cam, "failed") /\ camera' # camera
    BY DEF SetStatus, TypeOK, RowType, CameraType
  <2>2. job[j].at = "added" /\ job[j].answer # "error"
    BY <1>7, <2>1 DEF SweepAnswered
  <2> QED BY <1>0, <1>4, <2>2 DEF Answer
<1> QED BY <1>3, <1>5, <1>6, <1>7

LEMMA InitProvisioned == Init => Sourced /\ Answers /\ ProvisionedIsTrue
BY DEF Init, Sourced, SourcedRow, SourcedJob, Answers, Answer, ProvisionedIsTrue, Idle, NoCamera, NoConfig,
       Known, Configured, Sweeps

\* The status never runs ahead of MediaMTX: a camera called provisioned has its
\* path there, or has had it.
THEOREM ProvisionedMeansAdded == Spec => []ProvisionedIsTrue
<1>1. Init => TypeOK /\ Sourced /\ Answers /\ ProvisionedIsTrue
  BY InitType, InitProvisioned
<1>2. TypeOK /\ Sourced /\ Answers /\ ProvisionedIsTrue /\ [Next]_vars
        => TypeOK' /\ Sourced' /\ Answers' /\ ProvisionedIsTrue'
  BY StepType, SourcedStep, AnswersStep, StatusStep
<1> QED BY <1>1, <1>2, PTL DEF Spec
==============================================================================
