------------------------ MODULE NodeControllerProofs ------------------------
(***************************************************************************)
(* Proofs about NodeController, for any users, attributes, configurations  *)
(* and tags, any number of changes in the panel and any number of          *)
(* failures.                                                               *)
(*                                                                         *)
(* The properties of NodeController speak of the moments between two runs  *)
(* of the monitor.  The parts of the inductive invariant say what holds at *)
(* each of its steps, so that they hold again when it is done.             *)
(***************************************************************************)
EXTENDS NodeController, TLAPS

Reloading == {"setState", "delNode", "delLimiter", "addLimiter", "prepare", "addNode",
              "addUsers", "rearm"}
Diffing == {"diffDel", "diffAdd", "diffApply"}

\* No pull of the users and no user diff has failed.
Unhurt == hurt \cap {"userList", "diff"} = {}

\* What a run of the monitor has in hand when it needs it; and before the start,
\* or after a failed one, there is nothing.
InHand ==
    /\ pc \in Reloading => newN \in Config
    /\ pc \in Diffing => newU \in UserTable
    /\ life \in {"new", "failed"} => pc = "idle" /\ tasks = {} /\ lims = {} /\ selNodes = {}
    /\ life = "new" => \A t \in Tag : inbound[t] = NoConfig
    /\ life \notin {"new", "failed"} => tag \in Tag /\ info \in Config

\* The tag is that of the adopted configuration but in the middle of a reload.
TagFollowsInfo ==
    life = "running" =>
        /\ pc \notin {"delNode", "delLimiter"} => tag = BuildNodeTag(info)
        /\ named => tag = NameTag
        /\ pc \in Reloading \ {"setState"} => info = newN
        /\ pc \in {"delLimiter", "addLimiter"} => ~named

\* The steps of a reload at which the node is not in the core.
Down == {"delLimiter", "addLimiter", "prepare", "addNode"}

\* The limiters and the nodes at every step of the monitor.
Registered ==
    life = "running" =>
        /\ lims = IF pc = "addLimiter" THEN {} ELSE {tag}
        /\ fails = 0 => /\ selNodes = IF pc \in Down THEN {} ELSE {tag}
                        /\ \A t \in Tag : inbound[t] # NoConfig => t \in selNodes

\* The limiter is behind the user list only from the adoption of a new list to
\* the replacement of the limiter.
LimiterBehind ==
    life # "failed" /\ ~named /\ pc \notin {"delNode", "delLimiter", "addLimiter"} =>
        limUsers = users

\* The core serves the adopted configuration to these users.
CoreServes(who) ==
    /\ tag = BuildNodeTag(info)
    /\ tag \in selNodes
    /\ inbound[tag] = info
    /\ coreUsers[tag] = who

\* How far the core has come with a reload or a diff; or else the cache is empty.
CoreFollows ==
    life = "running" =>
        /\ pc = "addUsers" => CoreServes({})
        /\ pc = "rearm" => CoreServes(Listed(users))
        /\ Unhurt /\ nodeCache \in Config =>
              /\ pc \in {"idle", "diffDel"} \/ (pc = "getUsers" /\ newN = NoConfig) =>
                    CoreServes(Listed(users))
              /\ pc = "diffAdd" => CoreServes(Listed(users) \ Deleted(users, newU))
              /\ pc = "diffApply" => CoreServes(Listed(newU))

\* What the caches stand for is adopted, or in the hands of the monitor.
CacheFollows ==
    life = "running" /\ Unhurt =>
        /\ nodeCache \in Config =>
              nodeCache = IF pc = "setState" \/ (pc = "getUsers" /\ newN # NoConfig)
                          THEN newN ELSE info
        /\ userCache = IF pc \in Diffing \/ (pc = "setState" /\ newU # NoTable)
                       THEN newU ELSE users

\* A close that has not met the monitor.
ClosesCleanly ==
    life \in {"limiterDeleted", "tasksClosed", "closed"} /\ ~overlapped =>
        /\ pc = "idle" /\ lims = {}
        /\ fails = 0 => selNodes \subseteq {closeTag}
        /\ life # "limiterDeleted" => tasks = {}
        /\ life = "closed" /\ fails = 0 => selNodes = {}

IndInv ==
    /\ TypeOK /\ InHand /\ TagFollowsInfo /\ Registered
    /\ LimiterBehind /\ CoreFollows /\ CacheFollows /\ ClosesCleanly


\* The kinds of failures that nothing makes good.
HurtKinds == {"userList", "diff", "partial"}

\* A step without failure, with one that is counted, or with a diff for a node that
\* the Selector does not know.
LEMMA FailureStep ==
  ASSUME [Next]_vars
  PROVE  \/ UNCHANGED failVars
         \/ \E kinds \in SUBSET HurtKinds : Fail(kinds)
         \/ fails' = fails /\ hurt' = hurt \cup {"diff"}
<1>1. CASE GetNodeInfoFails \/ ReloadDelNode \/ ReloadPrepare \/ ReloadAddUsers
  BY <1>1 DEF GetNodeInfoFails, ReloadDelNode, ReloadPrepare, ReloadAddUsers, HurtKinds
<1>2. CASE GetUserListFails \/ ReloadAddNode
  BY <1>2 DEF GetUserListFails, ReloadAddNode, HurtKinds
<1>3. CASE DiffDelUsers \/ DiffAddUsers
  BY <1>3 DEF DiffDelUsers, DiffAddUsers, HurtKinds
<1>4. ASSUME NEW stage, StartFailsAt(stage)
      PROVE  UNCHANGED failVars \/ \E kinds \in SUBSET HurtKinds : Fail(kinds)
  BY <1>4 DEF StartFailsAt, StartError, HurtKinds
<1>5. CASE UNCHANGED vars
  BY <1>5 DEF vars
<1> QED
  BY <1>1, <1>2, <1>3, <1>4, <1>5
  DEF Next, MonitorStep, PanelChanges, Start, GetNodeInfo, GetUserList, ReloadSetState,
      ReloadDelLimiter, ReloadAddLimiter, ReloadRearm, DiffApply, CloseLimiter, CloseTasks, CloseNode

\* The counter and the kinds of failures keep their types.
LEMMA FailuresTyped ==
  ASSUME TypeOK, [Next]_vars
  PROVE  fails' \in 0..MaxFails /\ hurt' \subseteq HurtKinds
<1> USE ControllerAssumption DEF ControllerAssumption, TypeOK, HurtKinds
<1>1. CASE UNCHANGED failVars
  BY <1>1 DEF failVars
<1>2. ASSUME NEW kinds \in SUBSET HurtKinds, Fail(kinds)
      PROVE  fails' \in 0..MaxFails /\ hurt' \subseteq HurtKinds
  BY <1>2 DEF Fail
<1>3. CASE fails' = fails /\ hurt' = hurt \cup {"diff"}
  BY <1>3
<1> QED BY <1>1, <1>2, <1>3, FailureStep

\* Every step keeps the variables within their types.
LEMMA TypeStep ==
  ASSUME TypeOK, InHand, [Next]_vars
  PROVE  TypeOK'
<1>0. fails' \in 0..MaxFails /\ hurt' \subseteq HurtKinds
  BY FailuresTyped
<1> USE <1>0, ControllerAssumption
    DEF ControllerAssumption, TypeOK, InHand, Reloading, Diffing, Task, HurtKinds,
        givenVars, clientVars, monVars,
        ctlVars, limVars, coreVars, lifeVars, failVars
<1>1. CASE Start
  <2>1. /\ BuildNodeTag(pCfg) \in Tag /\ Listed(pUsers) \in SUBSET User
    BY DEF BuildNodeTag, Listed
  <2> QED BY <1>1, <2>1 DEF Start
<1>2. ASSUME NEW stage \in {"pull", "cert", "addNode", "addUsers"}, StartFailsAt(stage) PROVE TypeOK'
  <2>1. BuildNodeTag(pCfg) \in Tag
    BY DEF BuildNodeTag
  <2> QED BY <1>2, <2>1 DEF StartFailsAt, StartError
<1>3. CASE GetNodeInfo
  BY <1>3 DEF GetNodeInfo
<1>4. CASE GetNodeInfoFails
  BY <1>4 DEF GetNodeInfoFails
<1>5. CASE GetUserList
  BY <1>5 DEF GetUserList
<1>6. CASE GetUserListFails
  BY <1>6 DEF GetUserListFails
<1>7. CASE ReloadSetState
  BY <1>7 DEF ReloadSetState
<1>8. CASE ReloadDelNode
  <2>1. inbound' \in [Tag -> Config \cup {NoConfig}]
    BY <1>8 DEF ReloadDelNode, SelectorDelNode
  <2>2. coreUsers' \in [Tag -> SUBSET User] /\ selNodes' \subseteq Tag
    BY <1>8 DEF ReloadDelNode, SelectorDelNode
  <2> QED BY <1>8, <2>1, <2>2 DEF ReloadDelNode, SelectorDelNode
<1>9. CASE ReloadDelLimiter
  BY <1>9 DEF ReloadDelLimiter, BuildNodeTag
<1>10. CASE ReloadAddLimiter
  BY <1>10 DEF ReloadAddLimiter
<1>11. CASE ReloadPrepare
  BY <1>11 DEF ReloadPrepare, RetryNodeReload
<1>12. CASE ReloadAddNode
  <2>1. inbound' \in [Tag -> Config \cup {NoConfig}]
    BY <1>12 DEF ReloadAddNode, RetryNodeReload
  <2>2. coreUsers' \in [Tag -> SUBSET User] /\ selNodes' \subseteq Tag
    BY <1>12 DEF ReloadAddNode, RetryNodeReload
  <2> QED BY <1>12, <2>1, <2>2 DEF ReloadAddNode, RetryNodeReload
<1>13. CASE ReloadAddUsers
  <2>1. inbound' \in [Tag -> Config \cup {NoConfig}]
    BY <1>13 DEF ReloadAddUsers, RetryNodeReload, Listed
  <2>2. coreUsers' \in [Tag -> SUBSET User] /\ selNodes' \subseteq Tag
    BY <1>13 DEF ReloadAddUsers, RetryNodeReload, Listed
  <2> QED BY <1>13, <2>1, <2>2 DEF ReloadAddUsers, RetryNodeReload
<1>14. CASE ReloadRearm
  BY <1>14 DEF ReloadRearm
<1>15. CASE DiffDelUsers
  <2>1. inbound' \in [Tag -> Config \cup {NoConfig}]
    BY <1>15 DEF DiffDelUsers, Deleted
  <2>2. coreUsers' \in [Tag -> SUBSET User] /\ selNodes' \subseteq Tag
    BY <1>15 DEF DiffDelUsers, Deleted
  <2> QED BY <1>15, <2>1, <2>2 DEF DiffDelUsers, Deleted
<1>16. CASE DiffAddUsers
  <2>1. inbound' \in [Tag -> Config \cup {NoConfig}]
    BY <1>16 DEF DiffAddUsers, Added
  <2>2. coreUsers' \in [Tag -> SUBSET User] /\ selNodes' \subseteq Tag
    BY <1>16 DEF DiffAddUsers, Added
  <2> QED BY <1>16, <2>1, <2>2 DEF DiffAddUsers, Added
<1>17. CASE DiffApply
  <2>1. tasks' \subseteq Task
    BY <1>17 DEF DiffApply, Task
  <2>2. limUsers' \in UserTable
    BY <1>17 DEF DiffApply, UserTable
  <2> QED BY <1>17, <2>1, <2>2 DEF DiffApply
<1>18. CASE CloseLimiter
  BY <1>18 DEF CloseLimiter
<1>19. CASE CloseTasks
  BY <1>19 DEF CloseTasks
<1>20. CASE CloseNode
  BY <1>20 DEF CloseNode, SelectorDelNode
<1>21. ASSUME NEW cfg \in Config, NEW table \in UserTable, PanelChanges(cfg, table) PROVE TypeOK'
  BY <1>21 DEF PanelChanges
<1>22. CASE UNCHANGED vars
  BY <1>22 DEF vars
<1> QED
  BY <1>1, <1>2, <1>3, <1>4, <1>5, <1>6, <1>7, <1>8, <1>9, <1>10, <1>11,
     <1>12, <1>13, <1>14, <1>15, <1>16, <1>17, <1>18, <1>19, <1>20, <1>21, <1>22
  DEF Next, MonitorStep

\* Every step preserves InHand.
LEMMA InHandStep ==
  ASSUME TypeOK, InHand, [Next]_vars
  PROVE  InHand'
<1> USE ControllerAssumption DEF ControllerAssumption, TypeOK, InHand, Reloading, Diffing,
        givenVars, clientVars, monVars,
        ctlVars, limVars, coreVars, lifeVars, failVars
<1>1. CASE Start
  BY <1>1 DEF Start, BuildNodeTag
<1>2. ASSUME NEW stage \in {"pull", "cert", "addNode", "addUsers"}, StartFailsAt(stage) PROVE InHand'
  BY <1>2 DEF StartFailsAt, StartError, Fail, BuildNodeTag
<1>3. CASE GetNodeInfo
  BY <1>3 DEF GetNodeInfo
<1>4. CASE GetNodeInfoFails
  BY <1>4 DEF GetNodeInfoFails, Fail
<1>5. CASE GetUserList
  BY <1>5 DEF GetUserList
<1>6. CASE GetUserListFails
  BY <1>6 DEF GetUserListFails, Fail
<1>7. CASE ReloadSetState
  BY <1>7 DEF ReloadSetState
<1>8. CASE ReloadDelNode
  BY <1>8 DEF ReloadDelNode, SelectorDelNode, Fail
<1>9. CASE ReloadDelLimiter
  BY <1>9 DEF ReloadDelLimiter, BuildNodeTag
<1>10. CASE ReloadAddLimiter
  BY <1>10 DEF ReloadAddLimiter
<1>11. CASE ReloadPrepare
  BY <1>11 DEF ReloadPrepare, RetryNodeReload, Fail
<1>12. CASE ReloadAddNode
  BY <1>12 DEF ReloadAddNode, RetryNodeReload, Fail
<1>13. CASE ReloadAddUsers
  BY <1>13 DEF ReloadAddUsers, RetryNodeReload, Fail
<1>14. CASE ReloadRearm
  BY <1>14 DEF ReloadRearm
<1>15. CASE DiffDelUsers
  BY <1>15 DEF DiffDelUsers, Fail
<1>16. CASE DiffAddUsers
  BY <1>16 DEF DiffAddUsers, Fail
<1>17. CASE DiffApply
  BY <1>17 DEF DiffApply
<1>18. CASE CloseLimiter
  BY <1>18 DEF CloseLimiter
<1>19. CASE CloseTasks
  BY <1>19 DEF CloseTasks
<1>20. CASE CloseNode
  BY <1>20 DEF CloseNode, SelectorDelNode
<1>21. ASSUME NEW cfg \in Config, NEW table \in UserTable, PanelChanges(cfg, table) PROVE InHand'
  BY <1>21 DEF PanelChanges
<1>22. CASE UNCHANGED vars
  BY <1>22 DEF vars
<1> QED
  BY <1>1, <1>2, <1>3, <1>4, <1>5, <1>6, <1>7, <1>8, <1>9, <1>10, <1>11,
     <1>12, <1>13, <1>14, <1>15, <1>16, <1>17, <1>18, <1>19, <1>20, <1>21, <1>22
  DEF Next, MonitorStep
\* Every step preserves TagFollowsInfo.
LEMMA TagStep ==
  ASSUME TypeOK, InHand, TagFollowsInfo, [Next]_vars
  PROVE  TagFollowsInfo'
<1> USE ControllerAssumption DEF ControllerAssumption, TypeOK, InHand, Reloading, Diffing,
        TagFollowsInfo, BuildNodeTag, givenVars, clientVars, monVars,
        ctlVars, limVars, coreVars, lifeVars, failVars
<1>1. CASE Start
  BY <1>1 DEF Start, BuildNodeTag
<1>2. ASSUME NEW stage \in {"pull", "cert", "addNode", "addUsers"}, StartFailsAt(stage) PROVE TagFollowsInfo'
  BY <1>2 DEF StartFailsAt, StartError, Fail, BuildNodeTag
<1>3. CASE GetNodeInfo
  BY <1>3 DEF GetNodeInfo
<1>4. CASE GetNodeInfoFails
  BY <1>4 DEF GetNodeInfoFails, Fail
<1>5. CASE GetUserList
  BY <1>5 DEF GetUserList
<1>6. CASE GetUserListFails
  BY <1>6 DEF GetUserListFails, Fail
<1>7. CASE ReloadSetState
  BY <1>7 DEF ReloadSetState
<1>8. CASE ReloadDelNode
  BY <1>8 DEF ReloadDelNode, SelectorDelNode, Fail
<1>9. CASE ReloadDelLimiter
  BY <1>9 DEF ReloadDelLimiter, BuildNodeTag
<1>10. CASE ReloadAddLimiter
  BY <1>10 DEF ReloadAddLimiter
<1>11. CASE ReloadPrepare
  BY <1>11 DEF ReloadPrepare, RetryNodeReload, Fail
<1>12. CASE ReloadAddNode
  BY <1>12 DEF ReloadAddNode, RetryNodeReload, Fail
<1>13. CASE ReloadAddUsers
  BY <1>13 DEF ReloadAddUsers, RetryNodeReload, Fail
<1>14. CASE ReloadRearm
  BY <1>14 DEF ReloadRearm
<1>15. CASE DiffDelUsers
  BY <1>15 DEF DiffDelUsers, Fail
<1>16. CASE DiffAddUsers
  BY <1>16 DEF DiffAddUsers, Fail
<1>17. CASE DiffApply
  BY <1>17 DEF DiffApply
<1>18. CASE CloseLimiter
  BY <1>18 DEF CloseLimiter
<1>19. CASE CloseTasks
  BY <1>19 DEF CloseTasks
<1>20. CASE CloseNode
  BY <1>20 DEF CloseNode, SelectorDelNode
<1>21. ASSUME NEW cfg \in Config, NEW table \in UserTable, PanelChanges(cfg, table) PROVE TagFollowsInfo'
  BY <1>21 DEF PanelChanges
<1>22. CASE UNCHANGED vars
  BY <1>22 DEF vars
<1> QED
  BY <1>1, <1>2, <1>3, <1>4, <1>5, <1>6, <1>7, <1>8, <1>9, <1>10, <1>11,
     <1>12, <1>13, <1>14, <1>15, <1>16, <1>17, <1>18, <1>19, <1>20, <1>21, <1>22
  DEF Next, MonitorStep

\* Every step preserves Registered.
LEMMA RegisteredStep ==
  ASSUME TypeOK, InHand, TagFollowsInfo, Registered, [Next]_vars
  PROVE  Registered'
<1> USE ControllerAssumption DEF ControllerAssumption, TypeOK, InHand, Reloading, Diffing,
        TagFollowsInfo, Registered, Down, givenVars, clientVars, monVars,
        ctlVars, limVars, coreVars, lifeVars, failVars
<1>1. CASE Start
  BY <1>1 DEF Start, BuildNodeTag
<1>2. ASSUME NEW stage \in {"pull", "cert", "addNode", "addUsers"}, StartFailsAt(stage) PROVE Registered'
  BY <1>2 DEF StartFailsAt, StartError, Fail, BuildNodeTag
<1>3. CASE GetNodeInfo
  BY <1>3 DEF GetNodeInfo
<1>4. CASE GetNodeInfoFails
  BY <1>4 DEF GetNodeInfoFails, Fail
<1>5. CASE GetUserList
  BY <1>5 DEF GetUserList
<1>6. CASE GetUserListFails
  BY <1>6 DEF GetUserListFails, Fail
<1>7. CASE ReloadSetState
  BY <1>7 DEF ReloadSetState
<1>8. CASE ReloadDelNode
  BY <1>8 DEF ReloadDelNode, SelectorDelNode, Fail
<1>9. CASE ReloadDelLimiter
  BY <1>9 DEF ReloadDelLimiter, BuildNodeTag
<1>10. CASE ReloadAddLimiter
  BY <1>10 DEF ReloadAddLimiter
<1>11. CASE ReloadPrepare
  BY <1>11 DEF ReloadPrepare, RetryNodeReload, Fail
<1>12. CASE ReloadAddNode
  BY <1>12 DEF ReloadAddNode, RetryNodeReload, Fail
<1>13. CASE ReloadAddUsers
  BY <1>13 DEF ReloadAddUsers, RetryNodeReload, Fail
<1>14. CASE ReloadRearm
  BY <1>14 DEF ReloadRearm
<1>15. CASE DiffDelUsers
  BY <1>15 DEF DiffDelUsers, Fail
<1>16. CASE DiffAddUsers
  BY <1>16 DEF DiffAddUsers, Fail
<1>17. CASE DiffApply
  BY <1>17 DEF DiffApply
<1>18. CASE CloseLimiter
  BY <1>18 DEF CloseLimiter
<1>19. CASE CloseTasks
  BY <1>19 DEF CloseTasks
<1>20. CASE CloseNode
  BY <1>20 DEF CloseNode, SelectorDelNode
<1>21. ASSUME NEW cfg \in Config, NEW table \in UserTable, PanelChanges(cfg, table) PROVE Registered'
  BY <1>21 DEF PanelChanges
<1>22. CASE UNCHANGED vars
  BY <1>22 DEF vars
<1> QED
  BY <1>1, <1>2, <1>3, <1>4, <1>5, <1>6, <1>7, <1>8, <1>9, <1>10, <1>11,
     <1>12, <1>13, <1>14, <1>15, <1>16, <1>17, <1>18, <1>19, <1>20, <1>21, <1>22
  DEF Next, MonitorStep

\* Every step preserves LimiterBehind.
LEMMA LimiterStep ==
  ASSUME TypeOK, InHand, TagFollowsInfo, LimiterBehind, [Next]_vars
  PROVE  LimiterBehind'
<1> USE ControllerAssumption DEF ControllerAssumption, TypeOK, InHand, Reloading, Diffing,
        TagFollowsInfo, LimiterBehind, givenVars, clientVars, monVars,
        ctlVars, limVars, coreVars, lifeVars, failVars
<1>1. CASE Start
  BY <1>1 DEF Start, BuildNodeTag
<1>2. ASSUME NEW stage \in {"pull", "cert", "addNode", "addUsers"}, StartFailsAt(stage) PROVE LimiterBehind'
  BY <1>2 DEF StartFailsAt, StartError, Fail, BuildNodeTag
<1>3. CASE GetNodeInfo
  BY <1>3 DEF GetNodeInfo
<1>4. CASE GetNodeInfoFails
  BY <1>4 DEF GetNodeInfoFails, Fail
<1>5. CASE GetUserList
  BY <1>5 DEF GetUserList
<1>6. CASE GetUserListFails
  BY <1>6 DEF GetUserListFails, Fail
<1>7. CASE ReloadSetState
  BY <1>7 DEF ReloadSetState
<1>8. CASE ReloadDelNode
  BY <1>8 DEF ReloadDelNode, SelectorDelNode, Fail
<1>9. CASE ReloadDelLimiter
  BY <1>9 DEF ReloadDelLimiter, BuildNodeTag
<1>10. CASE ReloadAddLimiter
  BY <1>10 DEF ReloadAddLimiter
<1>11. CASE ReloadPrepare
  BY <1>11 DEF ReloadPrepare, RetryNodeReload, Fail
<1>12. CASE ReloadAddNode
  BY <1>12 DEF ReloadAddNode, RetryNodeReload, Fail
<1>13. CASE ReloadAddUsers
  BY <1>13 DEF ReloadAddUsers, RetryNodeReload, Fail
<1>14. CASE ReloadRearm
  BY <1>14 DEF ReloadRearm
<1>15. CASE DiffDelUsers
  BY <1>15 DEF DiffDelUsers, Fail
<1>16. CASE DiffAddUsers
  BY <1>16 DEF DiffAddUsers, Fail
<1>17. CASE DiffApply
  <2>1. users \in UserTable /\ newU \in UserTable /\ users' = newU
    BY <1>17 DEF DiffApply
  <2>2. CASE life # "failed" /\ ~named
    <3>1. limUsers = users
      BY <1>17, <2>2 DEF DiffApply
    <3>2. limUsers' = [u \in User |->
                        IF u \in Added(users, newU) THEN newU[u]
                        ELSE IF u \in Deleted(users, newU) THEN NoUser ELSE users[u]]
      BY <1>17, <3>1 DEF DiffApply
    <3>3. \A u \in User : limUsers'[u] = newU[u]
      BY <3>2 DEF Added, Deleted
    <3> QED BY <2>1, <3>2, <3>3 DEF UserTable
  <2> QED BY <1>17, <2>2 DEF DiffApply
<1>18. CASE CloseLimiter
  BY <1>18 DEF CloseLimiter
<1>19. CASE CloseTasks
  BY <1>19 DEF CloseTasks
<1>20. CASE CloseNode
  BY <1>20 DEF CloseNode, SelectorDelNode
<1>21. ASSUME NEW cfg \in Config, NEW table \in UserTable, PanelChanges(cfg, table) PROVE LimiterBehind'
  BY <1>21 DEF PanelChanges
<1>22. CASE UNCHANGED vars
  BY <1>22 DEF vars
<1> QED
  BY <1>1, <1>2, <1>3, <1>4, <1>5, <1>6, <1>7, <1>8, <1>9, <1>10, <1>11,
     <1>12, <1>13, <1>14, <1>15, <1>16, <1>17, <1>18, <1>19, <1>20, <1>21, <1>22
  DEF Next, MonitorStep

\* Every step preserves CoreFollows.
LEMMA CoreStep ==
  ASSUME TypeOK, InHand, TagFollowsInfo, CoreFollows, CacheFollows, [Next]_vars
  PROVE  CoreFollows'
<1> USE ControllerAssumption DEF ControllerAssumption, TypeOK, InHand, Reloading, Diffing,
        TagFollowsInfo, CoreFollows, CoreServes, CacheFollows, Unhurt, BuildNodeTag,
        givenVars, clientVars, monVars,
        ctlVars, limVars, coreVars, lifeVars, failVars
<1>1. CASE Start
  BY <1>1 DEF Start, BuildNodeTag
<1>2. ASSUME NEW stage \in {"pull", "cert", "addNode", "addUsers"}, StartFailsAt(stage) PROVE CoreFollows'
  BY <1>2 DEF StartFailsAt, StartError, Fail, BuildNodeTag
<1>3. CASE GetNodeInfo
  BY <1>3 DEF GetNodeInfo
<1>4. CASE GetNodeInfoFails
  BY <1>4 DEF GetNodeInfoFails, Fail
<1>5. CASE GetUserList
  BY <1>5 DEF GetUserList
<1>6. CASE GetUserListFails
  BY <1>6 DEF GetUserListFails, Fail
<1>7. CASE ReloadSetState
  BY <1>7 DEF ReloadSetState
<1>8. CASE ReloadDelNode
  BY <1>8 DEF ReloadDelNode, SelectorDelNode, Fail
<1>9. CASE ReloadDelLimiter
  BY <1>9 DEF ReloadDelLimiter, BuildNodeTag
<1>10. CASE ReloadAddLimiter
  BY <1>10 DEF ReloadAddLimiter
<1>11. CASE ReloadPrepare
  BY <1>11 DEF ReloadPrepare, RetryNodeReload, Fail
<1>12. CASE ReloadAddNode
  BY <1>12 DEF ReloadAddNode, RetryNodeReload, Fail
<1>13. CASE ReloadAddUsers
  <2>1. CASE nodeCache' = NoConfig /\ pc' = "idle"
    BY <2>1
  <2>2. CASE pc' = "rearm" /\ life = "running"
    <3>1. CoreServes({}) /\ tag \in Tag
      BY <1>13, <2>2 DEF ReloadAddUsers
    <3>2. /\ coreUsers' = [coreUsers EXCEPT ![tag] = @ \cup Listed(users)]
          /\ UNCHANGED <<tag, info, selNodes, inbound, users, named, life>>
      BY <1>13, <2>2 DEF ReloadAddUsers, RetryNodeReload
    <3>3. coreUsers'[tag] = Listed(users)
      BY <3>1, <3>2
    <3> QED BY <2>2, <3>1, <3>2, <3>3 DEF Listed
  <2> QED BY <1>13, <2>1, <2>2 DEF ReloadAddUsers, RetryNodeReload
<1>14. CASE ReloadRearm
  BY <1>14 DEF ReloadRearm
<1>15. CASE DiffDelUsers
  BY <1>15 DEF DiffDelUsers, Fail
<1>16. CASE DiffAddUsers
  <2>1. CASE pc' = "idle"
    BY <1>16, <2>1 DEF DiffAddUsers, Fail
  <2>2. CASE pc' = "diffApply" /\ (life = "running" /\ Unhurt /\ nodeCache \in Config)'
    <3>1. CoreServes(Listed(users) \ Deleted(users, newU)) /\ tag \in Tag
      BY <1>16, <2>2 DEF DiffAddUsers
    <3>2. /\ coreUsers' = [coreUsers EXCEPT ![tag] = @ \cup Added(users, newU)]
          /\ UNCHANGED <<tag, info, selNodes, inbound, users, newU, named, life>>
      BY <1>16, <2>2, <3>1 DEF DiffAddUsers
    <3>3. (Listed(users) \ Deleted(users, newU)) \cup Added(users, newU) = Listed(newU)
      BY DEF Listed, Deleted, Added
    <3>4. coreUsers'[tag] = Listed(newU)
      BY <3>1, <3>2, <3>3
    <3> QED BY <2>2, <3>1, <3>2, <3>4 DEF Listed
  <2> QED BY <1>16, <2>1, <2>2 DEF DiffAddUsers
<1>17. CASE DiffApply
  BY <1>17 DEF DiffApply
<1>18. CASE CloseLimiter
  BY <1>18 DEF CloseLimiter
<1>19. CASE CloseTasks
  BY <1>19 DEF CloseTasks
<1>20. CASE CloseNode
  BY <1>20 DEF CloseNode, SelectorDelNode
<1>21. ASSUME NEW cfg \in Config, NEW table \in UserTable, PanelChanges(cfg, table) PROVE CoreFollows'
  BY <1>21 DEF PanelChanges
<1>22. CASE UNCHANGED vars
  BY <1>22 DEF vars
<1> QED
  BY <1>1, <1>2, <1>3, <1>4, <1>5, <1>6, <1>7, <1>8, <1>9, <1>10, <1>11,
     <1>12, <1>13, <1>14, <1>15, <1>16, <1>17, <1>18, <1>19, <1>20, <1>21, <1>22
  DEF Next, MonitorStep

\* Every step preserves CacheFollows.
LEMMA CacheStep ==
  ASSUME TypeOK, InHand, TagFollowsInfo, CacheFollows, [Next]_vars
  PROVE  CacheFollows'
<1> USE ControllerAssumption DEF ControllerAssumption, TypeOK, InHand, Reloading, Diffing,
        TagFollowsInfo, CacheFollows, Unhurt, givenVars, clientVars, monVars,
        ctlVars, limVars, coreVars, lifeVars, failVars
<1>1. CASE Start
  BY <1>1 DEF Start, BuildNodeTag
<1>2. ASSUME NEW stage \in {"pull", "cert", "addNode", "addUsers"}, StartFailsAt(stage) PROVE CacheFollows'
  BY <1>2 DEF StartFailsAt, StartError, Fail, BuildNodeTag
<1>3. CASE GetNodeInfo
  BY <1>3 DEF GetNodeInfo
<1>4. CASE GetNodeInfoFails
  BY <1>4 DEF GetNodeInfoFails, Fail
<1>5. CASE GetUserList
  BY <1>5 DEF GetUserList
<1>6. CASE GetUserListFails
  BY <1>6 DEF GetUserListFails, Fail
<1>7. CASE ReloadSetState
  BY <1>7 DEF ReloadSetState
<1>8. CASE ReloadDelNode
  BY <1>8 DEF ReloadDelNode, SelectorDelNode, Fail
<1>9. CASE ReloadDelLimiter
  BY <1>9 DEF ReloadDelLimiter, BuildNodeTag
<1>10. CASE ReloadAddLimiter
  BY <1>10 DEF ReloadAddLimiter
<1>11. CASE ReloadPrepare
  BY <1>11 DEF ReloadPrepare, RetryNodeReload, Fail
<1>12. CASE ReloadAddNode
  BY <1>12 DEF ReloadAddNode, RetryNodeReload, Fail
<1>13. CASE ReloadAddUsers
  BY <1>13 DEF ReloadAddUsers, RetryNodeReload, Fail
<1>14. CASE ReloadRearm
  BY <1>14 DEF ReloadRearm
<1>15. CASE DiffDelUsers
  BY <1>15 DEF DiffDelUsers, Fail
<1>16. CASE DiffAddUsers
  BY <1>16 DEF DiffAddUsers, Fail
<1>17. CASE DiffApply
  BY <1>17 DEF DiffApply
<1>18. CASE CloseLimiter
  BY <1>18 DEF CloseLimiter
<1>19. CASE CloseTasks
  BY <1>19 DEF CloseTasks
<1>20. CASE CloseNode
  BY <1>20 DEF CloseNode, SelectorDelNode
<1>21. ASSUME NEW cfg \in Config, NEW table \in UserTable, PanelChanges(cfg, table) PROVE CacheFollows'
  BY <1>21 DEF PanelChanges
<1>22. CASE UNCHANGED vars
  BY <1>22 DEF vars
<1> QED
  BY <1>1, <1>2, <1>3, <1>4, <1>5, <1>6, <1>7, <1>8, <1>9, <1>10, <1>11,
     <1>12, <1>13, <1>14, <1>15, <1>16, <1>17, <1>18, <1>19, <1>20, <1>21, <1>22
  DEF Next, MonitorStep

\* Every step preserves ClosesCleanly.
LEMMA CloseStep ==
  ASSUME TypeOK, InHand, TagFollowsInfo, Registered, ClosesCleanly, [Next]_vars
  PROVE  ClosesCleanly'
<1> USE ControllerAssumption DEF ControllerAssumption, TypeOK, InHand, Reloading, Diffing,
        TagFollowsInfo, Registered, Down, ClosesCleanly, givenVars, clientVars, monVars,
        ctlVars, limVars, coreVars, lifeVars, failVars
<1>1. CASE Start
  BY <1>1 DEF Start, BuildNodeTag
<1>2. ASSUME NEW stage \in {"pull", "cert", "addNode", "addUsers"}, StartFailsAt(stage) PROVE ClosesCleanly'
  BY <1>2 DEF StartFailsAt, StartError, Fail, BuildNodeTag
<1>3. CASE GetNodeInfo
  BY <1>3 DEF GetNodeInfo
<1>4. CASE GetNodeInfoFails
  BY <1>4 DEF GetNodeInfoFails, Fail
<1>5. CASE GetUserList
  BY <1>5 DEF GetUserList
<1>6. CASE GetUserListFails
  BY <1>6 DEF GetUserListFails, Fail
<1>7. CASE ReloadSetState
  BY <1>7 DEF ReloadSetState
<1>8. CASE ReloadDelNode
  BY <1>8 DEF ReloadDelNode, SelectorDelNode, Fail
<1>9. CASE ReloadDelLimiter
  BY <1>9 DEF ReloadDelLimiter, BuildNodeTag
<1>10. CASE ReloadAddLimiter
  BY <1>10 DEF ReloadAddLimiter
<1>11. CASE ReloadPrepare
  BY <1>11 DEF ReloadPrepare, RetryNodeReload, Fail
<1>12. CASE ReloadAddNode
  BY <1>12 DEF ReloadAddNode, RetryNodeReload, Fail
<1>13. CASE ReloadAddUsers
  BY <1>13 DEF ReloadAddUsers, RetryNodeReload, Fail
<1>14. CASE ReloadRearm
  BY <1>14 DEF ReloadRearm
<1>15. CASE DiffDelUsers
  BY <1>15 DEF DiffDelUsers, Fail
<1>16. CASE DiffAddUsers
  BY <1>16 DEF DiffAddUsers, Fail
<1>17. CASE DiffApply
  BY <1>17 DEF DiffApply
<1>18. CASE CloseLimiter
  BY <1>18 DEF CloseLimiter
<1>19. CASE CloseTasks
  BY <1>19 DEF CloseTasks
<1>20. CASE CloseNode
  BY <1>20 DEF CloseNode, SelectorDelNode
<1>21. ASSUME NEW cfg \in Config, NEW table \in UserTable, PanelChanges(cfg, table) PROVE ClosesCleanly'
  BY <1>21 DEF PanelChanges
<1>22. CASE UNCHANGED vars
  BY <1>22 DEF vars
<1> QED
  BY <1>1, <1>2, <1>3, <1>4, <1>5, <1>6, <1>7, <1>8, <1>9, <1>10, <1>11,
     <1>12, <1>13, <1>14, <1>15, <1>16, <1>17, <1>18, <1>19, <1>20, <1>21, <1>22
  DEF Next, MonitorStep

-----------------------------------------------------------------------------
LEMMA InitInvariant == Init => IndInv
<1> USE ControllerAssumption DEF ControllerAssumption, Init
<1>1. Init => TypeOK
  <2>1. NobodyTable \in UserTable
    BY DEF NobodyTable, UserTable
  <2>2. ASSUME Init PROVE named \in BOOLEAN
    BY <2>2, Zenon
  <2>3. ASSUME Init PROVE changes \in 0..MaxChanges /\ fails \in 0..MaxFails
    BY <2>3
  <2>4. ASSUME Init PROVE inbound \in [Tag -> Config \cup {NoConfig}] /\ coreUsers \in [Tag -> SUBSET User]
    BY <2>4
  <2> QED BY <2>1, <2>2, <2>3, <2>4 DEF TypeOK
<1>2. Init => InHand /\ TagFollowsInfo /\ Registered /\ ClosesCleanly
  BY DEF InHand, TagFollowsInfo, Registered, ClosesCleanly, Reloading, Diffing
<1>3. Init => LimiterBehind /\ CoreFollows /\ CacheFollows
  BY DEF LimiterBehind, CoreFollows, CacheFollows
<1> QED BY <1>1, <1>2, <1>3 DEF IndInv

LEMMA InvariantHolds == Spec => []IndInv
<1>1. IndInv /\ [Next]_vars => IndInv'
  BY TypeStep, InHandStep, TagStep, RegisteredStep, LimiterStep, CoreStep, CacheStep, CloseStep
  DEF IndInv
<1> QED BY <1>1, InitInvariant, PTL DEF Spec

\* Every variable of the controller stays within its type.
THEOREM TypeCorrect == Spec => []TypeOK
<1>1. IndInv => TypeOK
  BY DEF IndInv
<1> QED BY <1>1, InvariantHolds, PTL

\* node/task.go:293-312: a reload that failed half way is made good.  Between two
\* runs of the monitor the core serves the adopted configuration to the adopted
\* users, or the next pull is not answered "not modified".
THEOREM ReloadAlwaysRetried == Spec => []HalfAppliedIsRetried
<1>1. IndInv => HalfAppliedIsRetried
  BY DEF IndInv, CoreFollows, Unhurt, CoreServes, HalfAppliedIsRetried, Quiet, CoreApplied
<1> QED BY <1>1, InvariantHolds, PTL

\* node/task.go:66-69: what the two caches answer "not modified" for is what the
\* controller has adopted, as long as no pull of the users and no diff has failed.
THEOREM CacheNeverHides == Spec => []CachedIsAdopted
<1>1. IndInv => CachedIsAdopted
  BY DEF IndInv, CacheFollows, Unhurt, CachedIsAdopted, PulledIsAdopted, Quiet, Diffing
<1> QED BY <1>1, InvariantHolds, PTL

\* node/controller.go:30-31: between two runs of the monitor the limiter of a node
\* without a name knows the adopted users with their limits, whatever has failed.
THEOREM LimiterAlwaysFollows == Spec => []LimiterFollowsUsers
<1>1. IndInv => LimiterFollowsUsers
  BY DEF IndInv, LimiterBehind, LimiterFollowsUsers, Quiet
<1> QED BY <1>1, InvariantHolds, PTL

\* node/task.go:259-293: a node that is in the core has its limiter at every moment
\* of a reload, and reloads leave no limiter and no node of a former tag behind.
THEOREM TagsAlwaysCurrent == Spec => []TagsAreCurrent
<1>1. IndInv => TagsAreCurrent
  BY DEF IndInv, Registered, Down, TagsAreCurrent, Quiet
<1> QED BY <1>1, InvariantHolds, PTL

\* node/node.go:22-24: a failed start and a close that met no running monitor leave
\* no limiter, no task and no node.
THEOREM AlwaysEndsClean == Spec => []EndsClean
<1>1. IndInv => EndsClean
  BY DEF IndInv, InHand, ClosesCleanly, EndsClean
<1> QED BY <1>1, InvariantHolds, PTL
=============================================================================
