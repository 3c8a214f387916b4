--------------------------- MODULE NodeController ---------------------------
(***************************************************************************)
(* One node: its controller (node/controller.go, node/task.go) between the *)
(* panel it polls (api/panel, with its ETag and body hash caches), the     *)
(* core it configures through the Selector (core/selector.go) and the      *)
(* registry of limiters (limiter/limiter.go).                              *)
(*                                                                         *)
(* nodeInfoMonitor is a task body: it runs in one goroutine at a time      *)
(* (PeriodicTask) but beside Close, which is called by the config watcher, *)
(* and beside the report task.  Every call it makes that another goroutine *)
(* can see the effect of is a step of its own.                             *)
(*                                                                         *)
(* A user list is a function from users to attributes (the speed and       *)
(* device limits that userCompareKey compares) or NoUser.  An ETag or body *)
(* hash is the content it stands for.                                      *)
(*                                                                         *)
(* An operator that no action uses is a mistake the code could have made,  *)
(* named for it: the checks make sure that a property would notice.        *)
(***************************************************************************)
EXTENDS Naturals, FiniteSets

CONSTANTS
    User, Attr,     \* users, and the attributes a user may have
    Config,         \* node configurations of the panel
    Tag,            \* inbound tags
    TagOf,          \* buildNodeTag: the tag of a configuration without a name
    NameTag,        \* the tag when Options.Name is set
    Naming,         \* the cases to consider: is Options.Name set?
    NoTable,        \* GetUserList: not modified
    MaxChanges,     \* bound: changes made in the panel
    MaxFails        \* bound: failures

NoUser == "none"
UserTable == [User -> Attr \cup {NoUser}]
NoConfig == "nil"     \* GetNodeInfo: not modified; an empty cache; no inbound
ErrorBody == "error"  \* the cache holds the hash of an error response
NoTag == "untagged"   \* c.tag before it is set

ASSUME ControllerAssumption ==
    /\ NoUser \notin Attr
    /\ {NoConfig, ErrorBody} \cap Config = {}
    /\ NoTag \notin Tag
    /\ NoTable \notin UserTable
    /\ TagOf \in [Config -> Tag] /\ NameTag \in Tag
    /\ Naming \subseteq BOOLEAN
    /\ MaxChanges \in Nat /\ MaxFails \in Nat

VARIABLES
    named,                      \* Options.Name is set (never changes)
    pCfg, pUsers, changes,      \* the panel's configuration and user list
    nodeCache, userCache,       \* Client.responseBodyHash/nodeEtag, userEtag
    life,                       \* "new", "running", "failed", or where Close is
    pc, newN, newU,             \* nodeInfoMonitor
    info, users, tag,           \* c.info, c.userList, c.tag
    lims,                       \* tags in the limiter registry
    limUsers,                   \* UserLimitInfo of c.limiter
    selNodes,                   \* tags in Selector.nodes
    inbound, coreUsers,         \* per tag, what the core serves and to whom
    tasks,                      \* tasks of the controller that are running
    closeTag, overlapped,       \* Close: its tag; did it meet a running monitor
    fails, hurt                 \* failures; the kinds that nothing retries

givenVars  == <<named, pCfg, pUsers, changes>>
clientVars == <<nodeCache, userCache>>
monVars    == <<pc, newN, newU>>
ctlVars    == <<info, users, tag>>
limVars    == <<lims, limUsers>>
coreVars   == <<selNodes, inbound, coreUsers>>
lifeVars   == <<life, closeTag, overlapped>>
failVars   == <<fails, hurt>>
vars == <<givenVars, clientVars, monVars, ctlVars, limVars, coreVars, lifeVars, tasks, failVars>>

Task == {"monitor", "report", "onlineip", "renewcert", "dynamic"}

TypeOK ==
    /\ named \in BOOLEAN
    /\ pCfg \in Config /\ pUsers \in UserTable /\ changes \in 0..MaxChanges
    /\ nodeCache \in Config \cup {NoConfig, ErrorBody}
    /\ userCache \in UserTable \cup {NoTable}
    /\ life \in {"new", "running", "failed", "limiterDeleted", "tasksClosed", "closed"}
    /\ pc \in {"idle", "getUsers", "setState", "delNode", "delLimiter", "addLimiter",
               "prepare", "addNode", "addUsers", "rearm", "diffDel", "diffAdd", "diffApply"}
    /\ newN \in Config \cup {NoConfig} /\ newU \in UserTable \cup {NoTable}
    /\ info \in Config \cup {NoConfig} /\ users \in UserTable /\ tag \in Tag \cup {NoTag}
    /\ lims \subseteq Tag /\ limUsers \in UserTable
    /\ selNodes \subseteq Tag
    /\ inbound \in [Tag -> Config \cup {NoConfig}] /\ coreUsers \in [Tag -> SUBSET User]
    /\ tasks \subseteq Task
    /\ closeTag \in Tag \cup {NoTag} /\ overlapped \in BOOLEAN
    /\ fails \in 0..MaxFails /\ hurt \subseteq {"userList", "diff", "partial"}

NobodyTable == [u \in User |-> NoUser]
Listed(table) == {u \in User : table[u] # NoUser}

Init ==
    /\ named \in Naming
    /\ pCfg \in Config /\ pUsers \in UserTable /\ changes = 0
    /\ nodeCache = NoConfig /\ userCache = NoTable
    /\ life = "new" /\ closeTag = NoTag /\ overlapped = FALSE
    /\ pc = "idle" /\ newN = NoConfig /\ newU = NoTable
    /\ info = NoConfig /\ users = NobodyTable /\ tag = NoTag
    /\ lims = {} /\ limUsers = NobodyTable
    /\ selNodes = {} /\ inbound = [t \in Tag |-> NoConfig]
    /\ coreUsers = [t \in Tag |-> {}]
    /\ tasks = {} /\ fails = 0 /\ hurt = {}

BuildNodeTag(n) == IF named THEN NameTag ELSE TagOf[n]

Fail(kinds) == fails < MaxFails /\ fails' = fails + 1 /\ hurt' = hurt \cup kinds

-----------------------------------------------------------------------------
(* The panel (external) *)

PanelChanges(cfg, table) ==
    /\ changes < MaxChanges /\ changes' = changes + 1
    /\ <<cfg, table>> # <<pCfg, pUsers>>
    /\ pCfg' = cfg /\ pUsers' = table
    /\ UNCHANGED <<named, clientVars, monVars, ctlVars, limVars, coreVars, lifeVars, tasks, failVars>>

-----------------------------------------------------------------------------
(* Controller.Start, called by Node.Start.  Nothing else runs yet.         *)

Start ==
    /\ life = "new"
    /\ pUsers # NobodyTable      \* "not have any user" is an error
    /\ nodeCache' = pCfg /\ userCache' = pUsers
    /\ info' = pCfg /\ users' = pUsers /\ tag' = BuildNodeTag(pCfg)
    /\ lims' = lims \cup {BuildNodeTag(pCfg)} /\ limUsers' = pUsers
    /\ selNodes' = selNodes \cup {BuildNodeTag(pCfg)}
    /\ inbound' = [inbound EXCEPT ![BuildNodeTag(pCfg)] = pCfg]
    /\ coreUsers' = [coreUsers EXCEPT ![BuildNodeTag(pCfg)] = Listed(pUsers)]
    /\ \E optional \in SUBSET {"onlineip", "renewcert", "dynamic"} :
          tasks' = {"monitor", "report"} \cup optional
    /\ life' = "running"
    /\ UNCHANGED <<givenVars, monVars, closeTag, overlapped, failVars>>

\* An empty user list is an error of its own; the other errors are failures.
StartError(stage) ==
    /\ life = "new"
    /\ IF pUsers = NobodyTable THEN stage = "pull" /\ UNCHANGED failVars ELSE Fail({})
    /\ life' = "failed"

StartFailsUntagged(stage) ==
    LET t == BuildNodeTag(pCfg)
    IN  /\ StartError(stage)
        /\ nodeCache' = pCfg
        /\ userCache' = IF stage = "pull" THEN userCache ELSE pUsers
        /\ tag' = IF stage \in {"pull", "cert"} THEN NoTag ELSE t
        /\ users' = IF stage = "pull" THEN users ELSE pUsers
        /\ lims' = (IF stage = "pull" THEN lims ELSE lims \cup {t}) \ {tag'}
        /\ \/ UNCHANGED inbound
           \/ stage = "addNode" /\ inbound' = [inbound EXCEPT ![t] = pCfg]
        /\ UNCHANGED <<givenVars, monVars, info, limUsers, selNodes, coreUsers,
                       closeTag, overlapped, tasks>>

\* Start returns an error at some stage and Node.Start closes the controller:
\* Close deletes the limiter and the node of c.tag, which is set as soon as the
\* limiter is registered (UpdateRule, in between, never returns an error).
StartFailsAt(stage) ==
    LET t == BuildNodeTag(pCfg)
    IN  /\ StartError(stage)
        /\ nodeCache' = pCfg
        /\ userCache' = IF stage = "pull" THEN userCache ELSE pUsers
        /\ tag' = IF stage = "pull" THEN NoTag ELSE t
        /\ users' = IF stage = "pull" THEN users ELSE pUsers
        /\ lims' = (IF stage = "pull" THEN lims ELSE lims \cup {t}) \ {tag'}
        /\ \/ UNCHANGED inbound
           \/ stage = "addNode" /\ inbound' = [inbound EXCEPT ![t] = pCfg]
        /\ UNCHANGED <<givenVars, monVars, info, limUsers, selNodes, coreUsers,
                       closeTag, overlapped, tasks>>

-----------------------------------------------------------------------------
(* nodeInfoMonitor: the two pulls                                          *)

GetNodeInfo ==
    /\ pc = "idle" /\ "monitor" \in tasks
    /\ overlapped' = (overlapped \/ life = "limiterDeleted")
    /\ newN' = IF nodeCache = pCfg THEN NoConfig ELSE pCfg
    /\ nodeCache' = pCfg
    /\ pc' = "getUsers"
    /\ UNCHANGED <<userCache, newU, givenVars, ctlVars, limVars, coreVars, life,
                   closeTag, tasks, failVars>>

\* The hash of an error response is stored before the response is checked, and
\* the same error the next time counts as "not modified".
GetNodeInfoFails ==
    /\ pc = "idle" /\ "monitor" \in tasks
    /\ overlapped' = (overlapped \/ life = "limiterDeleted")
    /\ Fail({})
    /\ nodeCache' = ErrorBody
    /\ pc' = IF nodeCache = ErrorBody THEN "getUsers" ELSE "idle"
    /\ newN' = NoConfig
    /\ UNCHANGED <<userCache, newU, givenVars, ctlVars, limVars, coreVars, life,
                   closeTag, tasks>>

GetUserList ==
    /\ pc = "getUsers"
    /\ newU' = IF userCache = pUsers THEN NoTable ELSE pUsers
    /\ userCache' = pUsers
    /\ pc' = IF newN # NoConfig THEN "setState"
             ELSE IF userCache = pUsers THEN "idle" ELSE "diffDel"
    /\ UNCHANGED <<nodeCache, newN, givenVars, ctlVars, limVars, coreVars, lifeVars, tasks, failVars>>

\* The body returns; the node configuration it has just pulled is forgotten.
GetUserListFails ==
    /\ pc = "getUsers"
    /\ Fail({"userList"})
    /\ pc' = "idle"
    /\ UNCHANGED <<newN, newU, clientVars, givenVars, ctlVars, limVars, coreVars, lifeVars, tasks>>

-----------------------------------------------------------------------------
(* nodeInfoMonitor: reload                                                 *)

ReloadIgnoresUsers ==
    /\ pc = "setState"
    /\ info' = newN
    /\ pc' = "delNode"
    /\ UNCHANGED <<users, tag, newN, newU, givenVars, clientVars, limVars, coreVars,
                   lifeVars, tasks, failVars>>

\* setInfo, setUsers when the list changed too (resetTraffic: TrafficReport).
ReloadSetState ==
    /\ pc = "setState"
    /\ info' = newN
    /\ users' = IF newU # NoTable THEN newU ELSE users
    /\ pc' = "delNode"
    /\ UNCHANGED <<tag, newN, newU, givenVars, clientVars, limVars, coreVars, lifeVars, tasks, failVars>>

\* Selector.DelNode: an unknown tag is an error and changes nothing.
SelectorDelNode(t) ==
    IF t \in selNodes
    THEN /\ selNodes' = selNodes \ {t}
         /\ inbound' = [inbound EXCEPT ![t] = NoConfig]
         /\ coreUsers' = [coreUsers EXCEPT ![t] = {}]
    ELSE UNCHANGED coreVars

\* Errors of DelNode are only logged.
ReloadDelNode ==
    /\ pc = "delNode"
    /\ \/ SelectorDelNode(tag) /\ UNCHANGED failVars
       \/ Fail({}) /\ UNCHANGED coreVars
    /\ pc' = IF named THEN "prepare" ELSE "delLimiter"
    /\ UNCHANGED <<newN, newU, givenVars, clientVars, ctlVars, limVars, lifeVars, tasks>>

DelLimiterOfNewTag ==
    /\ pc = "delLimiter"
    /\ tag' = BuildNodeTag(newN)
    /\ lims' = lims \ {BuildNodeTag(newN)}
    /\ pc' = "addLimiter"
    /\ UNCHANGED <<info, users, limUsers, newN, newU, givenVars, clientVars, coreVars,
                   lifeVars, tasks, failVars>>

\* setTag, DeleteLimiter(oldTag)
ReloadDelLimiter ==
    /\ pc = "delLimiter"
    /\ tag' = BuildNodeTag(newN)
    /\ lims' = lims \ {tag}
    /\ pc' = "addLimiter"
    /\ UNCHANGED <<info, users, limUsers, newN, newU, givenVars, clientVars, coreVars,
                   lifeVars, tasks, failVars>>

\* AddLimiter(newTag, c.getUsers()), setLimiter
ReloadAddLimiter ==
    /\ pc = "addLimiter"
    /\ lims' = lims \cup {tag}
    /\ limUsers' = users
    /\ pc' = "prepare"
    /\ UNCHANGED <<newN, newU, givenVars, clientVars, ctlVars, coreVars, lifeVars, tasks, failVars>>

\* A failed step of the reload: retryNodeReload, and the body returns.
NoRetry ==
    /\ pc' = "idle"
    /\ UNCHANGED nodeCache

RetryNodeReload ==
    /\ pc' = "idle"
    /\ nodeCache' = NoConfig

\* UpdateRule, which never returns an error, and for a TLS node requestCert
ReloadPrepare ==
    /\ pc = "prepare"
    /\ \/ pc' = "addNode" /\ UNCHANGED <<nodeCache, failVars>>
       \/ Fail({}) /\ RetryNodeReload
    /\ UNCHANGED <<userCache, newN, newU, givenVars, ctlVars, limVars, coreVars, lifeVars, tasks>>

\* Selector.AddNode keeps the tag only when the core's AddNode succeeds.  An
\* inbound that is still there makes it fail: xray refuses the tag, hysteria2
\* cannot listen on its port.
ReloadAddNode ==
    /\ pc = "addNode"
    /\ UNCHANGED <<userCache, newN, newU, givenVars, ctlVars, limVars, lifeVars, tasks>>
    /\ \/ /\ inbound[tag] = NoConfig
          /\ inbound' = [inbound EXCEPT ![tag] = newN]
          /\ coreUsers' = [coreUsers EXCEPT ![tag] = {}]
          /\ selNodes' = selNodes \cup {tag}
          /\ pc' = "addUsers"
          /\ UNCHANGED <<nodeCache, failVars>>
       \/ /\ inbound[tag] # NoConfig
          /\ RetryNodeReload
          /\ UNCHANGED <<coreVars, failVars>>
       \/ /\ inbound[tag] = NoConfig
          /\ \/ Fail({}) /\ UNCHANGED inbound
             \/ Fail({"partial"}) /\ inbound' = [inbound EXCEPT ![tag] = newN]
          /\ RetryNodeReload
          /\ UNCHANGED <<selNodes, coreUsers>>

\* The core stops at the first user it cannot add; the ones before stay.
ReloadAddUsers ==
    /\ pc = "addUsers"
    /\ UNCHANGED <<userCache, newN, newU, selNodes, inbound, givenVars, ctlVars, limVars,
                   lifeVars, tasks>>
    /\ \/ /\ tag \in selNodes
          /\ coreUsers' = [coreUsers EXCEPT ![tag] = @ \cup Listed(users)]
          /\ pc' = "rearm"
          /\ UNCHANGED <<nodeCache, failVars>>
       \/ /\ tag \in selNodes
          /\ Fail({})
          /\ \E some \in SUBSET Listed(users) :
                coreUsers' = [coreUsers EXCEPT ![tag] = @ \cup some]
          /\ RetryNodeReload
       \/ /\ tag \notin selNodes
          /\ RetryNodeReload
          /\ UNCHANGED <<coreUsers, failVars>>

RearmClosesOnly ==
    /\ pc = "rearm"
    /\ \E stopped \in SUBSET {"monitor", "report", "onlineip"} : tasks' = tasks \ stopped
    /\ pc' = "idle"
    /\ UNCHANGED <<newN, newU, givenVars, clientVars, ctlVars, limVars, coreVars, lifeVars, failVars>>

\* A changed interval closes and starts the monitor's own task and the report
\* task; ensureOnlineIPSyncTask may start its task or stop it.
ReloadRearm ==
    /\ pc = "rearm"
    /\ \E started \in SUBSET {"monitor", "report", "onlineip"}, stopped \in SUBSET {"onlineip"} :
          tasks' = (tasks \ stopped) \cup started
    /\ pc' = "idle"
    /\ UNCHANGED <<newN, newU, givenVars, clientVars, ctlVars, limVars, coreVars, lifeVars, failVars>>

-----------------------------------------------------------------------------
(* nodeInfoMonitor: user diff.  compareUserList treats a user whose        *)
(* attributes changed as deleted and added.  The core stops at the first   *)
(* user it fails on.                                                       *)

Deleted(old, new) == {u \in User : old[u] # NoUser /\ new[u] # old[u]}
Added(old, new)   == {u \in User : new[u] # NoUser /\ new[u] # old[u]}

DiffDelUsers ==
    LET deleted == Deleted(users, newU)
    IN  /\ pc = "diffDel"
        /\ UNCHANGED <<newN, newU, selNodes, inbound, givenVars, clientVars, ctlVars, limVars,
                       lifeVars, tasks>>
        /\ \/ /\ deleted # {} => tag \in selNodes
              /\ coreUsers' = IF deleted = {} THEN coreUsers
                              ELSE [coreUsers EXCEPT ![tag] = @ \ deleted]
              /\ pc' = "diffAdd"
              /\ UNCHANGED failVars
           \/ /\ deleted # {}
              /\ pc' = "idle"
              /\ IF tag \in selNodes
                 THEN /\ Fail({"diff"})
                      /\ \E some \in SUBSET deleted :
                            coreUsers' = [coreUsers EXCEPT ![tag] = @ \ some]
                 ELSE hurt' = hurt \cup {"diff"} /\ UNCHANGED <<coreUsers, fails>>

DiffAddUsers ==
    LET added == Added(users, newU)
    IN  /\ pc = "diffAdd"
        /\ UNCHANGED <<newN, newU, selNodes, inbound, givenVars, clientVars, ctlVars, limVars,
                       lifeVars, tasks>>
        /\ \/ /\ added # {} => tag \in selNodes
              /\ coreUsers' = IF added = {} THEN coreUsers
                              ELSE [coreUsers EXCEPT ![tag] = @ \cup added]
              /\ pc' = "diffApply"
              /\ UNCHANGED failVars
           \/ /\ added # {}
              /\ pc' = "idle"
              /\ IF tag \in selNodes
                 THEN /\ Fail({"diff"})
                      /\ \E some \in SUBSET added :
                            coreUsers' = [coreUsers EXCEPT ![tag] = @ \cup some]
                 ELSE hurt' = hurt \cup {"diff"} /\ UNCHANGED <<coreUsers, fails>>

DiffForgetsLimiter ==
    /\ pc = "diffApply"
    /\ users' = newU
    /\ \E started, stopped \in SUBSET {"onlineip"} : tasks' = (tasks \ stopped) \cup started
    /\ pc' = "idle"
    /\ UNCHANGED <<limVars, newN, newU, info, tag, givenVars, clientVars, coreVars,
                   lifeVars, failVars>>

\* Limiter.UpdateUser drops the deleted users and stores the added ones;
\* deleteTraffic; setUsers; ensureOnlineIPSyncTask.
DiffApply ==
    /\ pc = "diffApply"
    /\ limUsers' = [u \in User |->
                      IF u \in Added(users, newU) THEN newU[u]
                      ELSE IF u \in Deleted(users, newU) THEN NoUser ELSE limUsers[u]]
    /\ users' = newU
    /\ \E started, stopped \in SUBSET {"onlineip"} : tasks' = (tasks \ stopped) \cup started
    /\ pc' = "idle"
    /\ UNCHANGED <<lims, newN, newU, info, tag, givenVars, clientVars, coreVars,
                   lifeVars, failVars>>

-----------------------------------------------------------------------------
(* Controller.Close, in the goroutine of the watcher or at the end         *)

CloseLimiter ==
    /\ life = "running"
    /\ closeTag' = tag
    /\ lims' = lims \ {tag}
    /\ overlapped' = (pc # "idle")
    /\ life' = "limiterDeleted"
    /\ UNCHANGED <<limUsers, givenVars, clientVars, monVars, ctlVars, coreVars, tasks, failVars>>

CloseTasks ==
    /\ life = "limiterDeleted"
    /\ tasks' = {}
    /\ overlapped' = (overlapped \/ pc # "idle")
    /\ life' = "tasksClosed"
    /\ UNCHANGED <<closeTag, givenVars, clientVars, monVars, ctlVars, limVars, coreVars, failVars>>

CloseNode ==
    /\ life = "tasksClosed"
    /\ SelectorDelNode(closeTag)
    /\ life' = "closed"
    /\ UNCHANGED <<closeTag, overlapped, givenVars, clientVars, monVars, ctlVars, limVars, tasks, failVars>>

-----------------------------------------------------------------------------
MonitorStep ==
    \/ GetNodeInfo \/ GetUserList
    \/ ReloadSetState \/ ReloadDelNode \/ ReloadDelLimiter \/ ReloadAddLimiter
    \/ ReloadPrepare \/ ReloadAddNode \/ ReloadAddUsers \/ ReloadRearm
    \/ DiffDelUsers \/ DiffAddUsers \/ DiffApply

Next ==
    \/ \E cfg \in Config, table \in UserTable : PanelChanges(cfg, table)
    \/ Start
    \/ \E stage \in {"pull", "cert", "addNode", "addUsers"} : StartFailsAt(stage)
    \/ MonitorStep
    \/ GetNodeInfoFails \/ GetUserListFails
    \/ CloseLimiter \/ CloseTasks \/ CloseNode

Spec == Init /\ [][Next]_vars

\* The monitor's task is run again and again while it is running (PeriodicTask),
\* its body goes on, and Close goes on once it was called.
FairSpec == Spec /\ WF_vars(MonitorStep) /\ WF_vars(Start) /\ WF_vars(CloseTasks \/ CloseNode)

-----------------------------------------------------------------------------
(* Properties *)

Quiet == life = "running" /\ pc = "idle"

\* The core serves what the controller last adopted, to the users it adopted.
CoreApplied ==
    /\ tag = BuildNodeTag(info)
    /\ tag \in selNodes
    /\ inbound[tag] = info
    /\ coreUsers[tag] = Listed(users)

\* Between two runs of the monitor a half applied reload is still going to be
\* retried: either the core serves the adopted configuration and users, or the
\* node cache does not hold a configuration, so that the next pull returns one.
\* A failure of the second pull, or of a user diff, is not made good.
HalfAppliedIsRetried ==
    Quiet /\ hurt \cap {"userList", "diff"} = {} => CoreApplied \/ nodeCache \notin Config

\* task.go:66-69: a pulled configuration and user list are not forgotten.  What
\* the caches answer "not modified" for is what the controller has adopted.
PulledIsAdopted ==
    Quiet => /\ nodeCache \in Config => info = nodeCache
             /\ users = userCache

\* The same, where neither the second of the two pulls nor a user diff has failed.
CachedIsAdopted == hurt \cap {"userList", "diff"} = {} => PulledIsAdopted

\* controller.go:30-31: a reload changes the limiter along with the user list.
\* Between two runs of the monitor the limiter knows every user, with the limits
\* of the adopted list, whatever has failed.  (A reload of a named node does not
\* replace its limiter.)
LimiterFollowsUsers == Quiet /\ ~named => limUsers = users

\* A node that serves connections has its limiter, at every moment of a reload:
\* without one xray rejects, hysteria2 panics and sing does not meter.
\* task.go:259-261: and reloads leak no limiter of a former tag, failed ones
\* included, and no node of one unless the core refused to delete it.
TagsAreCurrent ==
    /\ life = "running" /\ fails = 0 => \A t \in Tag : inbound[t] # NoConfig => t \in lims
    /\ Quiet => lims = {tag} /\ (fails = 0 => selNodes \subseteq {tag})

\* node.go:22-24: a failed start and a close leave no limiter entry, no task, and
\* no node that the core would delete, wherever the start failed; a close that
\* met a running monitor is set aside, which could set them up again.
EndsClean ==
    /\ life = "failed" => lims = {} /\ selNodes = {} /\ tasks = {}
    /\ life = "closed" /\ ~overlapped =>
          lims = {} /\ tasks = {} /\ (fails = 0 => selNodes = {})

\* In the end, when the panel stays as it is and what failed is retried, the core
\* serves the panel's configuration to the panel's users, and goes on doing so.
SettlesOnPanel ==
    <>[](life = "running" /\ hurt = {} =>
            /\ CoreApplied /\ (named \/ limUsers = users)
            /\ info = pCfg /\ users = pUsers)
=============================================================================
