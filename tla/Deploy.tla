-------------------------------- MODULE Deploy --------------------------------
(***************************************************************************)
(* scripts/provision.py: the job that makes or updates the one AgentCore   *)
(* runtime, and the stamp it leaves for RUN_STARTED.  A job is a sequence  *)
(* of remote calls and reads of the working tree; it may die between any   *)
(* two of them, is re-run, and shares the account with other jobs.  ECR,   *)
(* IAM and the AgentCore control plane are modelled as the script calls    *)
(* them.                                                                   *)
(*                                                                         *)
(* An image is its source: a digest names content.  A tag does not: every  *)
(* uncommitted edit of one commit has the tag of that commit with -dirty.  *)
(***************************************************************************)
EXTENDS Naturals

CONSTANTS
  Jobs,        \* those who run the script
  Sources,     \* contents of the working tree
  Tags,        \* what git calls them
  TagOf        \* the tag that identifies a source

VARIABLES
  tree,        \* the working tree
  granted,     \* what the identity may do
  roleMade,    \* the administrator created the execution role
  repo,        \* the ECR repository exists
  tags,        \* the image each tag of it names
  runtime,     \* the AgentCore runtime of this name
  job          \* the jobs' locals

vars == <<tree, granted, roleMade, repo, tags, runtime, job>>

None        == "none"
Unknown     == "unknown"
Environment == {"MODEL_ID", "AWS_REGION", "BUILD_VERSION"}
Modes       == {"check", "deploy", "skip_push"}
Permissions == {"create repository", "write runtime"}

ASSUME SourcesAssumption ==
  /\ {None, Unknown} \cap Sources = {} /\ None \notin Tags
  /\ TagOf \in [Sources -> Tags]

(* by: the artifact is named by its digest, or by a tag that may move.     *)
Uri     == [by : {"digest"}, of : Sources] \cup [by : {"tag"}, of : Tags \cup {None}]
NoUri   == [by |-> "tag", of |-> None]
Stamp   == [tag : Tags \cup {None}, artifact : Sources \cup Tags \cup {None}]
NoStamp == [tag |-> None, artifact |-> None]

(* `still` is no state of the script: between the two reads of the tree in *)
(* the run that wrote this, the tree was not touched and nobody moved the  *)
(* tag the run pushed.                                                     *)
Runtime   == [uri : Uri, env : SUBSET Environment, stamp : Stamp, role : BOOLEAN,
              still : BOOLEAN, arn : Nat]
NoRuntime == [uri |-> NoUri, env |-> {}, stamp |-> NoStamp, role |-> FALSE,
              still |-> TRUE, arn |-> 0]

Steps == {"idle", "died", "ecr", "role", "inventory", "by_tag", "tag", "build", "describe",
          "blockers", "list", "write"}
Job  == [pc : Steps, mode : Modes, supplied : BOOLEAN, repo : BOOLEAN, role : BOOLEAN,
         tag : Tags \cup {None}, uri : Uri, exists : BOOLEAN, still : BOOLEAN]
Idle == [pc |-> "idle", mode |-> "check", supplied |-> FALSE, repo |-> FALSE,
         role |-> FALSE, tag |-> None, uri |-> NoUri, exists |-> FALSE, still |-> TRUE]

TypeOK ==
  /\ tree \in Sources /\ granted \in SUBSET Permissions
  /\ roleMade \in BOOLEAN /\ repo \in BOOLEAN
  /\ tags \in [Tags -> Sources \cup {None}]
  /\ runtime \in Runtime
  /\ job \in [Jobs -> Job]

Init ==
  /\ tree \in Sources
  /\ granted = {}
  /\ roleMade = FALSE
  /\ repo = FALSE
  /\ tags = [t \in Tags |-> None]
  /\ runtime = NoRuntime
  /\ job = [j \in Jobs |-> Idle]

account == <<repo, tags, runtime>>
others  == <<tree, granted, roleMade>>

Exists == runtime.arn # 0

----------------------------------------------------------------------------
(* The script, one action per remote call or read of the tree.             *)

(* Mutant: the commit alone, whatever is uncommitted.                      *)
ImageTagOfCommit(source) == CHOOSE t \in Tags : TRUE

(* git rev-parse, and -dirty when git status has something to say.         *)
ImageTag(source) == TagOf[source]

Go(j, from, locals) == job[j].pc = from /\ job' = [job EXCEPT ![j] = locals]

Exit(j, from) == Go(j, from, Idle)

Start(j, mode, supplied) ==
  /\ job[j].pc \in {"idle", "died"}
  /\ job' = [job EXCEPT ![j] = [Idle EXCEPT !.pc = "ecr", !.mode = mode, !.supplied = supplied]]
  /\ supplied => roleMade
  /\ UNCHANGED <<account, others>>

(* Mutant: --check creates what is missing.                                *)
EnsureEcrAlways(j) ==
  /\ Go(j, "ecr", [job[j] EXCEPT !.pc = "role",
                                 !.repo = repo \/ "create repository" \in granted])
  /\ repo' = (repo \/ "create repository" \in granted)
  /\ UNCHANGED <<tags, runtime, others>>

(* A missing repository is created, unless this is --check or it is denied *)
(* to us: then the run goes on, to report everything that is missing.      *)
EnsureEcr(j) ==
  LET creates == job[j].mode # "check" /\ "create repository" \in granted
  IN  /\ Go(j, "ecr", [job[j] EXCEPT !.pc = "role", !.repo = repo \/ creates])
      /\ repo' = (repo \/ creates)
      /\ UNCHANGED <<tags, runtime, others>>

AfterRole(j) ==
  IF job[j].mode = "check" THEN "inventory"
  ELSE IF job[j].mode = "skip_push" THEN "by_tag"
  ELSE IF job[j].repo THEN "tag" ELSE "blockers"

(* Mutant: only a role that can be read counts.                            *)
EnsureRoleReadable(j) ==
  /\ \E readable \in BOOLEAN :
       Go(j, "role", [job[j] EXCEPT !.pc = AfterRole(j), !.supplied = FALSE,
                                    !.role = roleMade /\ readable])
  /\ UNCHANGED <<account, others>>

(* --role-arn is taken at its word; without it the role must be there, and *)
(* this identity must be let to read it.                                   *)
EnsureRole(j) ==
  /\ \E readable \in BOOLEAN :
       Go(j, "role", [job[j] EXCEPT !.pc = AfterRole(j), !.supplied = FALSE,
                                    !.role = job[j].supplied \/ (roleMade /\ readable)])
  /\ UNCHANGED <<account, others>>

(* --check: list the runtime, print, leave.                                *)
Inventory(j) == Exit(j, "inventory") /\ UNCHANGED <<account, others>>

(* --skip-push names an image by the tag of the tree, if it has one.       *)
NameByTag(j) ==
  /\ IF ImageTag(tree) = Unknown
     THEN Exit(j, "by_tag")
     ELSE Go(j, "by_tag",
             [job[j] EXCEPT !.pc = "blockers",
                !.uri = IF job[j].repo THEN [by |-> "tag", of |-> ImageTag(tree)]
                                       ELSE NoUri])
  /\ UNCHANGED <<account, others>>

ReadTag(j) ==
  /\ Go(j, "tag", [job[j] EXCEPT !.pc = "build", !.tag = ImageTag(tree)])
  /\ UNCHANGED <<account, others>>

(* Mutant: --load where --push was meant.                                  *)
BuildOnly(j) ==
  /\ Go(j, "build", [job[j] EXCEPT !.pc = "describe"])
  /\ UNCHANGED <<account, others>>

(* buildx reads the tree as it is by now and pushes under the tag read     *)
(* before: another run that pushed the same tag loses it.                  *)
BuildAndPush(j) ==
  /\ job[j].pc = "build"
  /\ tags' = [tags EXCEPT ![job[j].tag] = tree]
  /\ job' = [k \in Jobs |->
               IF k = j THEN [job[j] EXCEPT !.pc = "describe"]
               ELSE [job[k] EXCEPT !.still = @ /\ ~(job[k].pc = "describe"
                                                    /\ job[k].tag = job[j].tag)]]
  /\ UNCHANGED <<repo, runtime, others>>

(* describe_images: the digest the tag has now.                            *)
DescribeDigest(j) ==
  /\ Go(j, "describe", [job[j] EXCEPT !.pc = "blockers", !.tag = None,
                          !.uri = [by |-> "digest", of |-> tags[job[j].tag]]])
  /\ UNCHANGED <<account, others>>

Blockers(j) ==
  /\ IF job[j].repo /\ job[j].role
     THEN Go(j, "blockers", [job[j] EXCEPT !.pc = "list"])
     ELSE Exit(j, "blockers")
  /\ UNCHANGED <<account, others>>

(* list_agent_runtimes, and the source half of the stamp: the tree again.  *)
ListRuntimes(j) ==
  /\ Go(j, "list", [job[j] EXCEPT !.pc = "write", !.exists = Exists,
                                  !.tag = ImageTag(tree)])
  /\ UNCHANGED <<account, others>>

(* What a start of this uri would run; a tag nobody pushed names nothing.  *)
Resolve(uri) == IF uri.by = "digest" THEN uri.of
                ELSE IF uri.of = None THEN None ELSE tags[uri.of]

(* Mutant: the environment is passed on create only.                       *)
WrittenKeepingEnv(j) ==
  [uri |-> job[j].uri, env |-> IF job[j].exists THEN {} ELSE Environment,
   stamp |-> [tag |-> job[j].tag, artifact |-> job[j].uri.of],
   role |-> job[j].role, still |-> job[j].still, arn |-> 1]

(* Mutant: every run makes the runtime anew.                               *)
WrittenAnew(j) ==
  [uri |-> job[j].uri, env |-> Environment,
   stamp |-> [tag |-> job[j].tag, artifact |-> job[j].uri.of],
   role |-> job[j].role, still |-> job[j].still, arn |-> runtime.arn + 1]

(* Everything a create or an update sends; either replaces all of it but   *)
(* the ARN, which a create assigns.                                        *)
Written(j) ==
  [uri |-> job[j].uri, env |-> Environment,
   stamp |-> [tag |-> job[j].tag, artifact |-> job[j].uri.of],
   role |-> job[j].role, still |-> job[j].still,
   arn |-> IF job[j].exists THEN runtime.arn ELSE runtime.arn + 1]

(* create or update: an update of the runtime that was listed, a create if *)
(* none was.  A create of a name that was taken in between raises, like an *)
(* image that does not resolve; access denied is told and ends the run.    *)
WriteRuntime(j) ==
  /\ Exit(j, "write")
  /\ runtime' = IF /\ "write runtime" \in granted
                   /\ Resolve(job[j].uri) # None
                   /\ job[j].exists = Exists
                THEN Written(j) ELSE runtime
  /\ UNCHANGED <<repo, tags, others>>

JobStep(j) ==
  \/ EnsureEcr(j) \/ EnsureRole(j) \/ Inventory(j) \/ NameByTag(j)
  \/ ReadTag(j) \/ BuildAndPush(j) \/ DescribeDigest(j) \/ Blockers(j)
  \/ ListRuntimes(j) \/ WriteRuntime(j)

(* A call that raises, a build that fails, ^C: the locals are gone.  A run *)
(* that ends by itself is idle, so that the two can be told apart.         *)
Crash(j) ==
  /\ job[j].pc \notin {"idle", "died"}
  /\ job' = [job EXCEPT ![j] = [Idle EXCEPT !.pc = "died"]]
  /\ UNCHANGED <<account, tree, granted, roleMade>>

----------------------------------------------------------------------------
(* The developer, the administrator and the platform.                      *)

Deploying(j) == job[j].mode = "deploy" /\ job[j].pc \in {"build", "describe", "blockers", "list"}

Edit ==
  /\ \E s \in Sources \ {tree} : tree' = s
  /\ job' = [j \in Jobs |-> [job[j] EXCEPT !.still = @ /\ ~Deploying(j)]]
  /\ UNCHANGED <<account, granted, roleMade>>

Permit(action) ==
  /\ action \notin granted
  /\ granted' = granted \cup {action}
  /\ UNCHANGED <<account, tree, roleMade, job>>

MakeRole ==
  /\ ~roleMade
  /\ roleMade' = TRUE
  /\ UNCHANGED <<account, tree, granted, job>>

Next ==
  \/ Edit \/ MakeRole \/ \E action \in Permissions : Permit(action)
  \/ \E j \in Jobs : \/ \E mode \in Modes, supplied \in BOOLEAN : Start(j, mode, supplied)
                     \/ JobStep(j) \/ Crash(j)

(* "Re-running once access is granted finishes the job": whoever asked for *)
(* access gets it, goes on re-running with the role's ARN, and is not for  *)
(* ever killed on the way.                                                 *)
Fairness ==
  /\ WF_vars(MakeRole) /\ \A action \in Permissions : WF_vars(Permit(action))
  /\ \A j \in Jobs : WF_vars(JobStep(j)) /\ SF_vars(Start(j, "deploy", TRUE))
  /\ <>[][\A j \in Jobs : ~Crash(j)]_vars

Spec == Init /\ [][Next]_vars /\ Fairness

----------------------------------------------------------------------------
(* What a deployment promises.                                             *)

(* --check inspects and changes nothing, whatever is missing and whatever  *)
(* another run has just made (provision.py:98-100, 178-179, 284-288).      *)
CheckIsReadOnly ==
  [][ \A j \in Jobs :
        (job[j].mode = "check" /\ JobStep(j)) => UNCHANGED account ]_vars

(* Once there is a runtime, every run leaves it one that can start: its    *)
(* image was pushed, its role exists, and no variable was dropped by an    *)
(* update, which replaces all of it (provision.py:216-237, 300-310).       *)
RuntimeCanStart ==
  Exists => /\ Resolve(runtime.uri) # None
            /\ repo /\ roleMade /\ runtime.role
            /\ runtime.env = Environment

(* A session that starts now is pinned to this image, and its turns say    *)
(* this of it on RUN_STARTED, however often the runtime is updated while   *)
(* the session lives: a container keeps image and environment.             *)
Image == Resolve(runtime.uri)
RuntimeVersion == IF "BUILD_VERSION" \in runtime.env THEN runtime.stamp ELSE NoStamp

(* The stamp a session is served under names the image that serves it,     *)
(* whatever other runs push or update, as long as the deployment was by    *)
(* digest; and it names the source of that image if the tree stood still   *)
(* while the run read it, twice (provision.py:129, 221-231).               *)
StampIsTrue ==
  (Exists /\ runtime.uri.by = "digest") =>
    /\ RuntimeVersion.artifact = Image
    /\ runtime.still => RuntimeVersion.tag = TagOf[Image]

(* Blocked runs, denied ones and ones that died are made good by running   *)
(* the script again (provision.py:4-6, 308-309).                           *)
RerunFinishes == <>Exists

(* The runtime is never replaced by another one: the ARN the gateway holds *)
(* stays good (provision.py:4-6).                                          *)
ArnIsKept == [][Exists => runtime'.arn = runtime.arn]_vars
=============================================================================
