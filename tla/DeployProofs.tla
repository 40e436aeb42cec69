---------------------------- MODULE DeployProofs ----------------------------
(***************************************************************************)
(* What a deployment promises, proved for any number of people who deploy  *)
(* from one checkout, any sources and any tags git may give them.          *)
(***************************************************************************)
EXTENDS Deploy, TLAPS

----------------------------------------------------------------------------
(* What the locals of a run have to do with the account and with the tree. *)

JobInv(j) ==
  /\ job[j].pc \in {"tag", "build", "describe"} => job[j].mode = "deploy"
  /\ job[j].pc \in {"build", "describe"} => job[j].tag \in Tags
  /\ job[j].pc = "describe" => tags[job[j].tag] # None
  /\ job[j].repo => repo
  /\ job[j].supplied \/ job[j].role => roleMade
  /\ job[j].pc \in {"list", "write"} => job[j].repo /\ job[j].role
  /\ job[j].mode = "check" => job[j].pc \in {"idle", "died", "ecr", "role", "inventory"}
  /\ job[j].mode # "deploy" \/ job[j].pc \notin {"blockers", "list", "write"}
       => job[j].uri.by = "tag"

(* A run in which the tree stands still, from its first read of it on.     *)
StillInv(j) ==
  (job[j].mode = "deploy" /\ job[j].still) =>
    /\ job[j].pc \in {"build", "describe"} => job[j].tag = TagOf[tree]
    /\ job[j].pc = "describe" => tags[job[j].tag] = tree
    /\ job[j].uri.by = "digest" =>
         /\ job[j].pc \in {"blockers", "list"} => job[j].uri.of = tree
         /\ job[j].pc = "write" => job[j].tag = TagOf[job[j].uri.of]

JobsInv == \A j \in Jobs : JobInv(j) /\ StillInv(j)

DeployInv == TypeOK /\ JobsInv /\ RuntimeCanStart /\ StampIsTrue

LEMMA NoneIsNoSource == None \notin Sources /\ None \notin Tags /\ Unknown \notin Sources
BY SourcesAssumption

LEMMA DeployInitInv == Init => DeployInv
<1> SUFFICES ASSUME Init PROVE DeployInv
  OBVIOUS
<1>1. Idle \in Job
  BY DEF Idle, Job, Steps, Modes, NoUri, Uri
<1>2. NoRuntime \in Runtime
  BY DEF NoRuntime, Runtime, NoUri, Uri, NoStamp, Stamp
<1>3. TypeOK
  BY <1>1, <1>2 DEF Init, TypeOK
<1>4. JobsInv
  BY DEF Init, JobsInv, JobInv, StillInv, Idle, NoUri
<1>5. RuntimeCanStart /\ StampIsTrue
  BY DEF Init, RuntimeCanStart, StampIsTrue, Exists, NoRuntime
<1>6. QED BY <1>3, <1>4, <1>5 DEF DeployInv

(* A run's own step leaves the other runs alone, as long as it only adds   *)
(* to the account.                                                         *)
LEMMA OthersKeepInv ==
  ASSUME DeployInv, NEW k \in Jobs, job'[k] = job[k],
         UNCHANGED <<tree, tags>>, repo => repo', roleMade => roleMade'
  PROVE  JobInv(k)' /\ StillInv(k)'
BY DEF DeployInv, JobsInv, JobInv, StillInv

LEMMA RuntimeKeepsInv ==
  ASSUME DeployInv, UNCHANGED <<runtime, tags>>, repo => repo', roleMade => roleMade'
  PROVE  RuntimeCanStart' /\ StampIsTrue'
BY DEF DeployInv, RuntimeCanStart, StampIsTrue, Exists, Resolve, Image, RuntimeVersion

(* A step that moves one run on and makes at most the repository.          *)
LEMMA LocalStepKeepsInv ==
  ASSUME DeployInv, NEW j \in Jobs, NEW locals \in Job, job' = [job EXCEPT ![j] = locals],
         UNCHANGED <<tree, tags, runtime, granted, roleMade>>, repo' \in BOOLEAN, repo => repo',
         JobInv(j)', StillInv(j)'
  PROVE  DeployInv'
<1>1. TypeOK'
  BY DEF DeployInv, TypeOK
<1>2. \A k \in Jobs : k # j => job'[k] = job[k]
  OBVIOUS
<1>3. JobsInv'
  BY <1>2, OthersKeepInv DEF JobsInv
<1>4. RuntimeCanStart' /\ StampIsTrue'
  BY RuntimeKeepsInv
<1>5. QED BY <1>1, <1>3, <1>4 DEF DeployInv

LEMMA StopKeepsInv ==
  ASSUME DeployInv, NEW j \in Jobs, NEW pc \in {"idle", "died"},
         job' = [job EXCEPT ![j] = [Idle EXCEPT !.pc = pc]],
         UNCHANGED <<tree, tags, runtime, granted, roleMade, repo>>
  PROVE  DeployInv'
<1>1. [Idle EXCEPT !.pc = pc] \in Job
  BY DEF Idle, Job, Steps, Modes, NoUri, Uri
<1>2. job'[j] = [Idle EXCEPT !.pc = pc]
  BY DEF DeployInv, TypeOK
<1>3. JobInv(j)' /\ StillInv(j)'
  BY <1>2 DEF JobInv, StillInv, Idle, NoUri
<1>4. QED BY <1>1, <1>3, LocalStepKeepsInv DEF DeployInv, TypeOK

----------------------------------------------------------------------------
(* The steps of the script.                                                *)

LEMMA JobFields ==
  ASSUME DeployInv, NEW j \in Jobs
  PROVE  /\ job[j] \in Job /\ job \in [Jobs -> Job]
         /\ job[j].pc \in Steps /\ job[j].mode \in Modes /\ job[j].supplied \in BOOLEAN
         /\ job[j].repo \in BOOLEAN /\ job[j].role \in BOOLEAN /\ job[j].exists \in BOOLEAN
         /\ job[j].still \in BOOLEAN /\ job[j].tag \in Tags \cup {None} /\ job[j].uri \in Uri
         /\ tree \in Sources /\ TagOf[tree] \in Tags /\ repo \in BOOLEAN
         /\ JobInv(j) /\ StillInv(j)
BY SourcesAssumption DEF DeployInv, TypeOK, Job, JobsInv

LEMMA StartKeepsInv ==
  ASSUME DeployInv, NEW j \in Jobs, NEW mode \in Modes, NEW supplied \in BOOLEAN,
         Start(j, mode, supplied)
  PROVE  DeployInv'
<1> DEFINE locals == [Idle EXCEPT !.pc = "ecr", !.mode = mode, !.supplied = supplied]
<1>1. locals \in Job
  BY DEF Idle, Job, Steps, Modes, NoUri, Uri
<1>2. job' = [job EXCEPT ![j] = locals] /\ UNCHANGED <<account, others>> /\ (supplied => roleMade)
  BY DEF Start
<1>3. /\ job'[j].pc = "ecr" /\ job'[j].mode = mode /\ job'[j].supplied = supplied
      /\ job'[j].repo = FALSE /\ job'[j].role = FALSE /\ job'[j].uri.by = "tag"
  BY <1>2, JobFields DEF Idle, NoUri
<1>4. JobInv(j)' /\ StillInv(j)'
  BY <1>2, <1>3 DEF JobInv, StillInv, others
<1>5. QED BY <1>1, <1>2, <1>4, LocalStepKeepsInv, JobFields DEF account, others

LEMMA EnsureEcrKeepsInv ==
  ASSUME DeployInv, NEW j \in Jobs, EnsureEcr(j)
  PROVE  DeployInv'
<1> DEFINE creates == job[j].mode # "check" /\ "create repository" \in granted
           locals  == [job[j] EXCEPT !.pc = "role", !.repo = repo \/ creates]
<1>1. /\ job[j].pc = "ecr" /\ job' = [job EXCEPT ![j] = locals]
      /\ repo' = (repo \/ creates) /\ UNCHANGED <<tags, runtime, others>>
  BY DEF EnsureEcr, Go
<1> HIDE DEF creates
<1>2. locals \in Job /\ repo' \in BOOLEAN /\ (repo => repo')
  BY <1>1, JobFields DEF Job, Steps
<1>3. job'[j] = locals
  BY <1>1, JobFields
<1>4. JobInv(j)' /\ StillInv(j)'
  BY <1>1, <1>3, JobFields DEF JobInv, StillInv, others, Modes, Job
<1>5. QED BY <1>1, <1>2, <1>4, LocalStepKeepsInv DEF others

LEMMA EnsureRoleKeepsInv ==
  ASSUME DeployInv, NEW j \in Jobs, EnsureRole(j)
  PROVE  DeployInv'
<1> PICK readable \in BOOLEAN :
      Go(j, "role", [job[j] EXCEPT !.pc = AfterRole(j), !.supplied = FALSE,
                                   !.role = job[j].supplied \/ (roleMade /\ readable)])
  BY DEF EnsureRole
<1> DEFINE role   == job[j].supplied \/ (roleMade /\ readable)
           locals == [job[j] EXCEPT !.pc = AfterRole(j), !.supplied = FALSE, !.role = role]
<1>1. /\ job[j].pc = "role" /\ job' = [job EXCEPT ![j] = locals] /\ UNCHANGED <<account, others>>
  BY DEF EnsureRole, Go
<1>2. /\ AfterRole(j) \in {"inventory", "by_tag", "tag", "blockers"}
      /\ job[j].mode = "check" => AfterRole(j) = "inventory"
      /\ AfterRole(j) \in {"tag", "blockers"} => job[j].mode = "deploy"
  <2>1. CASE job[j].mode = "check"
    BY <2>1 DEF AfterRole
  <2>2. CASE job[j].mode = "skip_push"
    BY <2>2 DEF AfterRole
  <2>3. CASE job[j].mode = "deploy" /\ job[j].repo
    BY <2>3 DEF AfterRole
  <2>4. CASE job[j].mode = "deploy" /\ ~job[j].repo
    BY <2>4 DEF AfterRole
  <2>5. QED BY <2>1, <2>2, <2>3, <2>4, JobFields DEF Modes
<1>3. role \in BOOLEAN /\ (role => roleMade)
  BY JobFields DEF JobInv
<1>4. locals \in Job
  BY <1>2, <1>3, JobFields DEF Job, Steps
<1>5. /\ job'[j] = locals
      /\ job'[j].pc = AfterRole(j) /\ job'[j].uri = job[j].uri /\ job'[j].mode = job[j].mode
      /\ job'[j].repo = job[j].repo /\ job'[j].role = role /\ job'[j].supplied = FALSE
      /\ job'[j].still = job[j].still /\ job'[j].tag = job[j].tag
  BY <1>1, JobFields DEF Job
<1>6. JobInv(j)' /\ StillInv(j)'
  BY <1>1, <1>2, <1>3, <1>5, JobFields DEF JobInv, StillInv, others, account
<1>7. QED BY <1>1, <1>4, <1>6, LocalStepKeepsInv, JobFields DEF others, account

LEMMA NameByTagKeepsInv ==
  ASSUME DeployInv, NEW j \in Jobs, NameByTag(j)
  PROVE  DeployInv'
<1> DEFINE uri    == IF job[j].repo THEN [by |-> "tag", of |-> ImageTag(tree)] ELSE NoUri
           locals == [job[j] EXCEPT !.pc = "blockers", !.uri = uri]
<1>1. CASE ImageTag(tree) = Unknown
  BY <1>1, StopKeepsInv DEF NameByTag, Exit, Go, Idle, account, others
<1>2. CASE ImageTag(tree) # Unknown
  <2>1. job[j].pc = "by_tag" /\ job' = [job EXCEPT ![j] = locals] /\ UNCHANGED <<account, others>>
    BY <1>2 DEF NameByTag, Go
  <2>2. uri \in Uri /\ uri.by = "tag"
    BY JobFields DEF ImageTag, Uri, NoUri
  <2> HIDE DEF uri
  <2>3. locals \in Job
    BY <2>2, JobFields DEF Job, Steps
  <2>4. /\ job'[j].pc = "blockers" /\ job'[j].uri = uri /\ job'[j].mode = job[j].mode
        /\ job'[j].repo = job[j].repo /\ job'[j].role = job[j].role
        /\ job'[j].supplied = job[j].supplied
    BY <2>1, JobFields DEF Job
  <2>5. JobInv(j)' /\ StillInv(j)'
    BY <2>1, <2>2, <2>4, JobFields DEF JobInv, StillInv, account, others
  <2>6. QED BY <2>1, <2>3, <2>5, LocalStepKeepsInv, JobFields DEF account, others
<1>3. QED BY <1>1, <1>2

LEMMA ReadTagKeepsInv ==
  ASSUME DeployInv, NEW j \in Jobs, ReadTag(j)
  PROVE  DeployInv'
<1> DEFINE locals == [job[j] EXCEPT !.pc = "build", !.tag = ImageTag(tree)]
<1>1. job[j].pc = "tag" /\ job' = [job EXCEPT ![j] = locals] /\ UNCHANGED <<account, others>>
  BY DEF ReadTag, Go
<1>2. locals \in Job
  BY JobFields DEF Job, Steps, ImageTag
<1>3. /\ job'[j].pc = "build" /\ job'[j].uri = job[j].uri /\ job'[j].mode = job[j].mode
      /\ job'[j].repo = job[j].repo /\ job'[j].role = job[j].role
      /\ job'[j].supplied = job[j].supplied /\ job'[j].tag = TagOf[tree]
  BY <1>1, JobFields DEF Job, ImageTag
<1>4. JobInv(j)' /\ StillInv(j)'
  BY <1>1, <1>3, JobFields DEF JobInv, StillInv, account, others
<1>5. QED BY <1>1, <1>2, <1>4, LocalStepKeepsInv, JobFields DEF account, others

(* The step that disturbs the others: they lose the tag it pushes to.      *)
LEMMA BuildAndPushKeepsInv ==
  ASSUME DeployInv, NEW j \in Jobs, BuildAndPush(j)
  PROVE  DeployInv'
<1>1. /\ job[j].pc = "build" /\ tags' = [tags EXCEPT ![job[j].tag] = tree]
      /\ UNCHANGED <<tree, granted, roleMade, repo, runtime>>
      /\ job[j].tag \in Tags /\ tree \in Sources /\ tags \in [Tags -> Sources \cup {None}]
  BY JobFields DEF BuildAndPush, others, JobInv, DeployInv, TypeOK
<1>2. /\ job'[j] = [job[j] EXCEPT !.pc = "describe"]
      /\ \A k \in Jobs : k # j =>
           job'[k] = [job[k] EXCEPT !.still = @ /\ ~(job[k].pc = "describe" /\ job[k].tag = job[j].tag)]
  BY DEF BuildAndPush
<1>3. \A x \in Tags : tags[x] # None => tags'[x] # None
  BY <1>1, NoneIsNoSource
<1>4. TypeOK'
  <2>1. [job[j] EXCEPT !.pc = "describe"] \in Job
    BY JobFields DEF Job, Steps
  <2>2. ASSUME NEW k \in Jobs, k # j
        PROVE  [job[k] EXCEPT !.still = @ /\ ~(job[k].pc = "describe" /\ job[k].tag = job[j].tag)] \in Job
    BY JobFields DEF Job
  <2>3. job' \in [Jobs -> Job]
    BY <2>1, <2>2 DEF BuildAndPush
  <2>4. QED BY <1>1, <2>3 DEF DeployInv, TypeOK
<1>5. JobInv(j)' /\ StillInv(j)'
  <2>1. /\ job'[j].pc = "describe" /\ job'[j].uri = job[j].uri /\ job'[j].mode = job[j].mode
        /\ job'[j].repo = job[j].repo /\ job'[j].role = job[j].role
        /\ job'[j].supplied = job[j].supplied /\ job'[j].tag = job[j].tag
        /\ job'[j].still = job[j].still
    BY <1>2, JobFields DEF Job
  <2>2. tags'[job[j].tag] = tree /\ tree # None
    BY <1>1, NoneIsNoSource
  <2>3. QED BY <1>1, <2>1, <2>2, JobFields DEF JobInv, StillInv
<1>6. ASSUME NEW k \in Jobs, k # j
      PROVE  JobInv(k)' /\ StillInv(k)'
  <2>1. /\ job'[k].pc = job[k].pc /\ job'[k].uri = job[k].uri /\ job'[k].mode = job[k].mode
        /\ job'[k].repo = job[k].repo /\ job'[k].role = job[k].role
        /\ job'[k].supplied = job[k].supplied /\ job'[k].tag = job[k].tag
        /\ job'[k].still = (job[k].still /\ ~(job[k].pc = "describe" /\ job[k].tag = job[j].tag))
    BY <1>2, <1>6, JobFields DEF Job
  <2>2. JobInv(k)'
    BY <1>1, <1>3, <2>1, JobFields DEF JobInv
  <2>3. job'[k].still /\ job[k].pc = "describe" => tags'[job[k].tag] = tags[job[k].tag]
    BY <1>1, <2>1, JobFields DEF JobInv
  <2>4. StillInv(k)'
    BY <1>1, <2>1, <2>3, JobFields DEF StillInv
  <2>5. QED BY <2>2, <2>4
<1>7. RuntimeCanStart' /\ StampIsTrue'
  <2>1. Exists' = Exists /\ Resolve(runtime.uri) # None => Resolve(runtime.uri)' # None
    BY <1>1, <1>3 DEF Exists, Resolve, DeployInv, TypeOK, Runtime, Uri
  <2>2. RuntimeCanStart'
    BY <1>1, <2>1 DEF DeployInv, RuntimeCanStart, Exists
  <2>3. StampIsTrue'
    BY <1>1 DEF DeployInv, StampIsTrue, Exists, Image, Resolve, RuntimeVersion
  <2>4. QED BY <2>2, <2>3
<1>8. QED BY <1>4, <1>5, <1>6, <1>7 DEF DeployInv, JobsInv

LEMMA DescribeDigestKeepsInv ==
  ASSUME DeployInv, NEW j \in Jobs, DescribeDigest(j)
  PROVE  DeployInv'
<1> DEFINE uri    == [by |-> "digest", of |-> tags[job[j].tag]]
           locals == [job[j] EXCEPT !.pc = "blockers", !.tag = None, !.uri = uri]
<1>1. job[j].pc = "describe" /\ job' = [job EXCEPT ![j] = locals] /\ UNCHANGED <<account, others>>
  BY DEF DescribeDigest, Go
<1>2. tags[job[j].tag] \in Sources
  BY <1>1, JobFields DEF JobInv, DeployInv, TypeOK
<1>3. locals \in Job
  BY <1>2, JobFields DEF Job, Steps, Uri
<1>4. /\ job'[j].pc = "blockers" /\ job'[j].uri = uri /\ job'[j].mode = job[j].mode
      /\ job'[j].repo = job[j].repo /\ job'[j].role = job[j].role
      /\ job'[j].supplied = job[j].supplied /\ job'[j].still = job[j].still
  BY <1>1, JobFields DEF Job
<1>5. JobInv(j)' /\ StillInv(j)'
  BY <1>1, <1>4, JobFields DEF JobInv, StillInv, account, others
<1>6. QED BY <1>1, <1>3, <1>5, LocalStepKeepsInv, JobFields DEF account, others

LEMMA BlockersKeepsInv ==
  ASSUME DeployInv, NEW j \in Jobs, Blockers(j)
  PROVE  DeployInv'
<1> DEFINE locals == [job[j] EXCEPT !.pc = "list"]
<1>1. CASE ~(job[j].repo /\ job[j].role)
  BY <1>1, StopKeepsInv DEF Blockers, Exit, Go, Idle, account, others
<1>2. CASE job[j].repo /\ job[j].role
  <2>1. job[j].pc = "blockers" /\ job' = [job EXCEPT ![j] = locals] /\ UNCHANGED <<account, others>>
    BY <1>2 DEF Blockers, Go
  <2>2. locals \in Job
    BY JobFields DEF Job, Steps
  <2>3. /\ job'[j].pc = "list" /\ job'[j].uri = job[j].uri /\ job'[j].mode = job[j].mode
        /\ job'[j].repo = job[j].repo /\ job'[j].role = job[j].role
        /\ job'[j].supplied = job[j].supplied /\ job'[j].still = job[j].still
    BY <2>1, JobFields DEF Job
  <2>4. JobInv(j)' /\ StillInv(j)'
    BY <1>2, <2>1, <2>3, JobFields DEF JobInv, StillInv, account, others
  <2>5. QED BY <2>1, <2>2, <2>4, LocalStepKeepsInv, JobFields DEF account, others
<1>3. QED BY <1>1, <1>2

LEMMA ListRuntimesKeepsInv ==
  ASSUME DeployInv, NEW j \in Jobs, ListRuntimes(j)
  PROVE  DeployInv'
<1> DEFINE locals == [job[j] EXCEPT !.pc = "write", !.exists = Exists, !.tag = ImageTag(tree)]
<1>1. job[j].pc = "list" /\ job' = [job EXCEPT ![j] = locals] /\ UNCHANGED <<account, others>>
  BY DEF ListRuntimes, Go
<1>2. Exists \in BOOLEAN
  BY DEF Exists
<1>3. locals \in Job
  BY <1>2, JobFields DEF Job, Steps, ImageTag
<1>4. /\ job'[j].pc = "write" /\ job'[j].uri = job[j].uri /\ job'[j].mode = job[j].mode
      /\ job'[j].repo = job[j].repo /\ job'[j].role = job[j].role
      /\ job'[j].supplied = job[j].supplied /\ job'[j].still = job[j].still
      /\ job'[j].tag = TagOf[tree]
  BY <1>1, JobFields DEF Job, ImageTag
<1>5. JobInv(j)' /\ StillInv(j)'
  BY <1>1, <1>4, JobFields DEF JobInv, StillInv, account, others
<1>6. QED BY <1>1, <1>3, <1>5, LocalStepKeepsInv, JobFields DEF account, others

(* The step that makes or replaces the runtime.                            *)
LEMMA WriteRuntimeKeepsInv ==
  ASSUME DeployInv, NEW j \in Jobs, WriteRuntime(j)
  PROVE  DeployInv'
<1>1. /\ job[j].pc = "write" /\ job' = [job EXCEPT ![j] = Idle]
      /\ UNCHANGED <<repo, tags, tree, granted, roleMade>>
  BY DEF WriteRuntime, Exit, Go, others
<1>2. CASE UNCHANGED runtime
  BY <1>1, <1>2, StopKeepsInv DEF Idle
<1>3. CASE runtime' = Written(j) /\ Resolve(job[j].uri) # None
  <2>1. runtime.arn \in Nat
    BY DEF DeployInv, TypeOK, Runtime
  <2>2. [tag |-> job[j].tag, artifact |-> job[j].uri.of] \in Stamp
    BY JobFields DEF Stamp, Uri
  <2>3. (IF job[j].exists THEN runtime.arn ELSE runtime.arn + 1) \in Nat
    BY <2>1
  <2>4. Written(j) \in Runtime
    BY <2>2, <2>3, JobFields DEF Written, Runtime
  <2>5. Idle \in Job /\ job'[j] = Idle
    BY <1>1, JobFields DEF Idle, Job, Steps, Modes, NoUri, Uri
  <2>6. TypeOK'
    BY <1>1, <1>3, <2>4, <2>5 DEF DeployInv, TypeOK
  <2>7. JobInv(j)' /\ StillInv(j)'
    BY <2>5 DEF JobInv, StillInv, Idle, NoUri
  <2>8. JobsInv'
    BY <1>1, <2>7, OthersKeepInv DEF JobsInv
  <2>9. job[j].repo /\ job[j].role /\ repo /\ roleMade
    BY <1>1, JobFields DEF JobInv
  <2>10. /\ runtime'.uri = job[j].uri /\ runtime'.env = Environment /\ runtime'.role = job[j].role
         /\ runtime'.stamp = [tag |-> job[j].tag, artifact |-> job[j].uri.of]
         /\ runtime'.still = job[j].still
    BY <1>3 DEF Written
  <2>11. RuntimeCanStart'
    BY <1>1, <1>3, <2>9, <2>10 DEF RuntimeCanStart, Resolve
  <2>12. StampIsTrue'
    <3>1. runtime'.uri.by = "digest" => Image' = job[j].uri.of /\ job[j].mode = "deploy"
      BY <1>1, <2>10, JobFields DEF Image, Resolve, JobInv
    <3>2. RuntimeVersion' = [tag |-> job[j].tag, artifact |-> job[j].uri.of]
      BY <2>10 DEF RuntimeVersion, Environment
    <3>3. QED BY <1>1, <2>10, <3>1, <3>2, JobFields DEF StampIsTrue, StillInv
  <2>13. QED BY <2>6, <2>8, <2>11, <2>12 DEF DeployInv
<1>4. QED BY <1>2, <1>3 DEF WriteRuntime

LEMMA JobStepKeepsInv ==
  ASSUME DeployInv, NEW j \in Jobs, JobStep(j)
  PROVE  DeployInv'
<1>1. CASE Inventory(j)
  BY <1>1, StopKeepsInv DEF Inventory, Exit, Go, Idle, account, others
<1>2. QED
  BY <1>1, EnsureEcrKeepsInv, EnsureRoleKeepsInv, NameByTagKeepsInv, ReadTagKeepsInv,
     BuildAndPushKeepsInv, DescribeDigestKeepsInv, BlockersKeepsInv, ListRuntimesKeepsInv,
     WriteRuntimeKeepsInv DEF JobStep

LEMMA EditKeepsInv ==
  ASSUME DeployInv, Edit
  PROVE  DeployInv'
<1>1. tree' \in Sources /\ UNCHANGED <<repo, tags, runtime, granted, roleMade>>
  BY DEF Edit, account
<1>2. ASSUME NEW j \in Jobs
      PROVE  /\ [job[j] EXCEPT !.still = @ /\ ~Deploying(j)] \in Job
             /\ JobInv(j)' /\ StillInv(j)'
  <2>1. job'[j] = [job[j] EXCEPT !.still = @ /\ ~Deploying(j)]
    BY DEF Edit
  <2>2. /\ job'[j].pc = job[j].pc /\ job'[j].uri = job[j].uri /\ job'[j].mode = job[j].mode
        /\ job'[j].repo = job[j].repo /\ job'[j].role = job[j].role
        /\ job'[j].supplied = job[j].supplied /\ job'[j].tag = job[j].tag
        /\ job'[j].still = (job[j].still /\ ~Deploying(j))
    BY <2>1, JobFields DEF Job
  <2>3. [job[j] EXCEPT !.still = @ /\ ~Deploying(j)] \in Job
    BY JobFields DEF Job, Deploying
  <2>4. JobInv(j)'
    BY <1>1, <2>2, JobFields DEF JobInv
  <2>5. StillInv(j)'
    BY <1>1, <2>2, JobFields DEF StillInv, Deploying
  <2>6. QED BY <2>3, <2>4, <2>5
<1>3. TypeOK'
  BY <1>1, <1>2 DEF Edit, DeployInv, TypeOK
<1>4. RuntimeCanStart' /\ StampIsTrue'
  BY <1>1, RuntimeKeepsInv
<1>5. QED BY <1>2, <1>3, <1>4 DEF DeployInv, JobsInv

LEMMA GrantsKeepInv ==
  ASSUME DeployInv,
         (\E action \in Permissions : Permit(action)) \/ MakeRole \/ UNCHANGED vars
  PROVE  DeployInv'
<1>1. /\ UNCHANGED <<tree, repo, tags, runtime, job>>
      /\ granted' \in SUBSET Permissions /\ roleMade' \in BOOLEAN /\ (roleMade => roleMade')
  BY DEF Permit, MakeRole, vars, account, DeployInv, TypeOK
<1>2. TypeOK'
  BY <1>1 DEF DeployInv, TypeOK
<1>3. JobsInv'
  BY <1>1, OthersKeepInv DEF JobsInv
<1>4. RuntimeCanStart' /\ StampIsTrue'
  BY <1>1, RuntimeKeepsInv
<1>5. QED BY <1>2, <1>3, <1>4 DEF DeployInv

LEMMA NextKeepsDeployInv == DeployInv /\ [Next]_vars => DeployInv'
<1> SUFFICES ASSUME DeployInv, [Next]_vars PROVE DeployInv'
  OBVIOUS
<1>1. ASSUME NEW j \in Jobs, Crash(j) PROVE DeployInv'
  BY <1>1, StopKeepsInv DEF Crash, account
<1>2. ASSUME NEW j \in Jobs, NEW mode \in Modes, NEW supplied \in BOOLEAN,
             Start(j, mode, supplied)
      PROVE  DeployInv'
  BY <1>2, StartKeepsInv
<1>3. QED BY <1>1, <1>2, JobStepKeepsInv, EditKeepsInv, GrantsKeepInv DEF Next

----------------------------------------------------------------------------
(* What follows for every run of any number of deployments.                *)

(* The inductive invariant: what each run's locals say of the account, and *)
(* of the tree as long as it stands still.                                 *)
THEOREM DeployInvHolds == Spec => []DeployInv
<1>1. QED BY DeployInitInv, NextKeepsDeployInv, PTL DEF Spec

(* Every reachable state of the account, the tree and the runs is well     *)
(* typed: in particular no run pins a runtime to a digest nobody pushed    *)
(* (provision.py:119-152).                                                 *)
THEOREM DeployTypeCorrect == Spec => []TypeOK
<1>1. QED BY DeployInvHolds, PTL DEF DeployInv

(* However runs interleave, die, are denied and are repeated, a runtime    *)
(* that exists can start (provision.py:216-237, 300-310).                  *)
THEOREM CanAlwaysStart == Spec => []RuntimeCanStart
<1>1. QED BY DeployInvHolds, PTL DEF DeployInv

(* The stamp of a runtime deployed by digest names that image, and its     *)
(* source if the tree stood still (provision.py:129, 221-231).             *)
THEOREM StampTrue == Spec => []StampIsTrue
<1>1. QED BY DeployInvHolds, PTL DEF DeployInv

(* The runtime is updated in place for ever (provision.py:4-6).            *)
THEOREM ArnKept == Spec => ArnIsKept
<1>1. DeployInv /\ [Next]_vars => [Exists => runtime'.arn = runtime.arn]_vars
  <2>1. SUFFICES ASSUME DeployInv, Next, Exists PROVE runtime'.arn = runtime.arn
    OBVIOUS
  <2>2. ASSUME NEW j \in Jobs, WriteRuntime(j) PROVE runtime'.arn = runtime.arn
    BY <2>1, <2>2, JobFields DEF WriteRuntime, Written
  <2>3. ASSUME NEW j \in Jobs, JobStep(j), ~WriteRuntime(j) PROVE UNCHANGED runtime
    BY <2>3 DEF JobStep, EnsureEcr, EnsureRole, Inventory, NameByTag, ReadTag, BuildAndPush,
                DescribeDigest, Blockers, ListRuntimes, account
  <2>4. CASE ~\E j \in Jobs : JobStep(j)
    BY <2>1, <2>4 DEF Next, Edit, Permit, MakeRole, Start, Crash, account
  <2>5. QED BY <2>2, <2>3, <2>4
<1>2. QED BY <1>1, DeployInvHolds, PTL DEF Spec, ArnIsKept

(* --check changes nothing in the account (provision.py:98-100, 178-179).  *)
THEOREM CheckReadsOnly == Spec => CheckIsReadOnly
<1>1. DeployInv /\ [Next]_vars =>
        [\A j \in Jobs : (job[j].mode = "check" /\ JobStep(j)) => UNCHANGED account]_vars
  <2>1. SUFFICES ASSUME DeployInv, NEW j \in Jobs, job[j].mode = "check", JobStep(j)
                 PROVE  UNCHANGED account
    OBVIOUS
  <2>2. job[j].pc \in {"idle", "died", "ecr", "role", "inventory"}
    BY <2>1, JobFields DEF JobInv
  <2>3. EnsureEcr(j) \/ EnsureRole(j) \/ Inventory(j)
    BY <2>1, <2>2 DEF JobStep, NameByTag, ReadTag, BuildAndPush, DescribeDigest, Blockers,
                      ListRuntimes, WriteRuntime, Exit, Go
  <2>4. CASE EnsureEcr(j)
    BY <2>1, <2>4, JobFields DEF EnsureEcr, account
  <2>5. CASE EnsureRole(j) \/ Inventory(j)
    BY <2>5 DEF EnsureRole, Inventory
  <2>6. QED BY <2>3, <2>4, <2>5
<1>2. QED BY <1>1, DeployInvHolds, PTL DEF Spec, CheckIsReadOnly
=============================================================================
