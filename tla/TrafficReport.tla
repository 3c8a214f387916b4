---------------------------- MODULE TrafficReport ----------------------------
(***************************************************************************)
(* Traffic accounting of one node: the connections of the users add to the *)
(* counters of the core, the report task takes the counters, pushes them   *)
(* to the panel as increments and puts them back when the push fails,      *)
(* while the node monitor removes and adds users and the speed checker     *)
(* consumes what the reports have read.                                    *)
(*                                                                         *)
(* Sources: node/user.go (reportUserTrafficTask), node/controller.go       *)
(* (addTraffic ...), api/panel/user.go (ReportUserTraffic), and the        *)
(* counters of core/xray/user.go, core/sing/user.go, common/counter.       *)
(*                                                                         *)
(* An operator that no action uses is a mistake the code could have made,  *)
(* named for it: the checks make sure that a property would notice.        *)
(***************************************************************************)
EXTENDS Naturals, FiniteSets

CONSTANTS
    User,         \* users of the node
    Cores,        \* the cores to consider, see core
    Paths,        \* push endpoints tried in turn (3, or 1 for ppanel)
    Threshold,    \* DynamicSpeedLimitConfig.Traffic
    MaxBytes,     \* bound: bytes moved per user
    MaxFails,     \* bound: pushes that fail
    MaxChanges,   \* bound: changes of the user list and of the configuration
    MaxBreaks     \* bound: steps of the monitor that fail

ASSUME ReportAssumption ==
    /\ Cores \subseteq {"xray", "sing", "hysteria2"}
    /\ Paths \in Nat \ {0} /\ Threshold \in Nat \ {0}
    /\ MaxBytes \in Nat /\ MaxFails \in Nat
    /\ MaxChanges \in Nat /\ MaxBreaks \in Nat

\* The tag of a node without a name has its protocol in it (buildNodeTag), and a
\* panel may go from one protocol to another and back.
Tag == {"t1", "t2"}
Dir == {"up", "down"}

\* What is counted separately: the traffic of a user, in a direction, under a tag.
Key == Tag \X User \X Dir
TagOf(k) == k[1]
Owner(k) == k[2]

Total(f, u) == f[<<"t1", u, "up">>] + f[<<"t1", u, "down">>]
               + f[<<"t2", u, "up">>] + f[<<"t2", u, "down">>]

VARIABLES
    core,        \* "xray": a counter is read by Set(0), one atomic swap; "sing" and
                 \* "hysteria2": Load and then Store(0)
    tag,         \* c.tag
    users,       \* c.users: the list the reports are made for
    table,       \* Selector.nodes: the tags that can be read and restored to
    coreUsers,   \* users the core's inbound of a tag accepts
    registered,  \* tags and users for whom the core has a counter, to which their
                 \* connections, as long as they last, add
    orphans,     \* those with connections that hold a counter unregistered since
    counter,     \* value of the registered counter
    pc,          \* report task: "idle", "tagged", "reading", "restoring"
    roundTag,    \* the tag the round is made for
    phase,       \* what the current round has done with a counter
    hand,        \* readUsage: what the round has read and not yet settled
    path,        \* index of the push endpoint to try next
    traffic,     \* c.traffic: usage counted towards the dynamic speed limit
    mon,         \* node monitor: "idle", "add", "clear", "set" in its user diff,
                 \* "reset", "del", "tag", "node", "users" in a reload
    target,      \* the user list the diff is applying
    deleted,     \* the users the diff has deleted
    broken,      \* a reload has failed half way and is to be repeated
    fails, changes, breaks, \* what the bounds count
    (* ground truth and history *)
    used,        \* bytes really moved
    acked,       \* bytes of the pushes the panel has answered
    billed,      \* bytes the panel has added up
    removed,     \* users who were ever taken off the node
    dropped,     \* bytes of staying users whose restore found no node
    restored,    \* bytes a failed push has given back
    throttled    \* times SpeedChecker picked the user

nodeVars   == <<tag, users, table, coreUsers, mon, target, deleted, broken,
                changes, breaks, removed>>
coreVars   == <<registered, orphans, counter>>
reportVars == <<pc, roundTag, phase, hand, path, fails>>
dynVars    == <<traffic, throttled, restored>>
truthVars  == <<used, acked, billed, dropped>>
vars == <<core, nodeVars, coreVars, reportVars, dynVars, truthVars>>

TypeOK ==
    /\ core \in {"xray", "sing", "hysteria2"}
    /\ tag \in Tag /\ roundTag \in Tag /\ table \subseteq Tag
    /\ users \subseteq User /\ target \subseteq User
    /\ removed \subseteq User /\ deleted \subseteq User
    /\ coreUsers \in [Tag -> SUBSET User]
    /\ registered \subseteq Tag \X User /\ orphans \subseteq Tag \X User
    /\ counter \in [Key -> Nat] /\ hand \in [Key -> Nat]
    /\ used \in [Key -> Nat] /\ acked \in [Key -> Nat]
    /\ billed \in [Key -> Nat] /\ dropped \in [Key -> Nat]
    /\ pc \in {"idle", "tagged", "reading", "restoring"}
    /\ phase \in [User -> {"idle", "todo", "loaded", "gone", "held"}]
    /\ path \in 1..Paths
    /\ mon \in {"idle", "add", "clear", "set", "reset", "del", "tag", "node", "users"}
    /\ broken \in BOOLEAN
    /\ traffic \in [User -> Nat] /\ throttled \in [User -> Nat]
    /\ restored \in [User -> Nat]
    /\ fails \in 0..MaxFails /\ changes \in 0..MaxChanges /\ breaks \in 0..MaxBreaks

Zero == [k \in Key |-> 0]
NoUserTraffic == [u \in User |-> 0]

Init ==
    /\ core \in Cores
    /\ tag = "t1" /\ roundTag = "t1" /\ table = {"t1"}
    /\ users = User /\ target = User
    /\ coreUsers = [t \in Tag |-> IF t = "t1" THEN User ELSE {}]
    /\ registered = {} /\ orphans = {}
    /\ counter = Zero /\ hand = Zero
    /\ used = Zero /\ acked = Zero /\ billed = Zero /\ dropped = Zero
    /\ pc = "idle" /\ phase = [u \in User |-> "idle"] /\ path = 1
    /\ mon = "idle" /\ deleted = {} /\ removed = {} /\ broken = FALSE
    /\ fails = 0 /\ changes = 0 /\ breaks = 0
    /\ traffic = NoUserTraffic /\ throttled = NoUserTraffic /\ restored = NoUserTraffic

-----------------------------------------------------------------------------
(* Connections of the users *)

\* A connection is accepted and bound to its user's counter, which is created
\* when it is not there (GetOrRegisterCounter, TrafficCounter.GetCounter).  One
\* that has ended is one that moves no more bytes.
Connect(t, u) ==
    /\ u \in coreUsers[t]
    /\ registered' = registered \cup {<<t, u>>}
    /\ UNCHANGED <<core, orphans, counter, nodeVars, reportVars, dynVars, truthVars>>

\* A byte goes through.
Transfer(k) ==
    /\ <<TagOf(k), Owner(k)>> \in registered
    /\ Total(used, Owner(k)) < MaxBytes
    /\ used' = [used EXCEPT ![k] = @ + 1]
    /\ counter' = [counter EXCEPT ![k] = @ + 1]
    /\ UNCHANGED <<core, registered, orphans, acked, billed, dropped, nodeVars, reportVars, dynVars>>

\* One goes through where nobody reads the counter.
TransferUnread(k) ==
    /\ <<TagOf(k), Owner(k)>> \in orphans
    /\ Total(used, Owner(k)) < MaxBytes
    /\ used' = [used EXCEPT ![k] = @ + 1]
    /\ UNCHANGED <<core, acked, billed, dropped, nodeVars, coreVars, reportVars, dynVars>>

-----------------------------------------------------------------------------
(* reportUserTrafficTask *)

\* The tag, and then the user list, are read once for the whole round.
ReadTag ==
    /\ pc = "idle"
    /\ pc' = "tagged" /\ roundTag' = tag
    /\ UNCHANGED <<core, phase, hand, path, fails, nodeVars, coreVars, dynVars, truthVars>>

ReadUsers ==
    /\ pc = "tagged"
    /\ pc' = "reading"
    /\ phase' = [u \in User |-> IF u \in users THEN "todo" ELSE "idle"]
    /\ UNCHANGED <<core, roundTag, hand, path, fails, nodeVars, coreVars, dynVars, truthVars>>

\* The counters of a user that the round is about, and what is in them or in hand.
OfRound(u, k) == TagOf(k) = roundTag /\ Owner(k) = u
InRound(f, u) == f[<<roundTag, u, "up">>] + f[<<roundTag, u, "down">>]

CountTraffic(u, n) == traffic' = [traffic EXCEPT ![u] = @ + n]

\* Selector.GetUserTraffic: of a tag that is not in the table it reads 0.
ReadNothing(u) ==
    /\ phase[u] = "todo" /\ roundTag \notin table
    /\ phase' = [phase EXCEPT ![u] = "held"]
    /\ UNCHANGED <<core, hand, pc, roundTag, path, fails, nodeVars, coreVars, dynVars, truthVars>>

\* xray: counter.Set(0) returns the old value.  An unregistered one reads 0.
SwapCounter(u) ==
    /\ phase[u] = "todo" /\ roundTag \in table /\ core = "xray"
    /\ phase' = [phase EXCEPT ![u] = "held"]
    /\ hand' = [k \in Key |-> IF OfRound(u, k) THEN counter[k] ELSE hand[k]]
    /\ counter' = [k \in Key |-> IF OfRound(u, k) THEN 0 ELSE counter[k]]
    /\ CountTraffic(u, InRound(counter, u))
    /\ UNCHANGED <<core, pc, roundTag, path, fails, registered, orphans, throttled, restored,
                   nodeVars, truthVars>>

\* sing, hysteria2: GetUpCount and GetDownCount load the values ...
LoadCounter(u) ==
    /\ phase[u] = "todo" /\ roundTag \in table /\ core # "xray"
    /\ phase' = [phase EXCEPT ![u] = "loaded"]
    /\ hand' = [k \in Key |-> IF OfRound(u, k) THEN counter[k] ELSE hand[k]]
    /\ UNCHANGED <<core, pc, roundTag, path, fails, nodeVars, coreVars, dynVars, truthVars>>

ResetSkipped(u) ==
    /\ phase[u] = "loaded"
    /\ phase' = [phase EXCEPT ![u] = "held"]
    /\ CountTraffic(u, InRound(hand, u))
    /\ UNCHANGED <<core, hand, pc, roundTag, path, fails, throttled, restored,
                   nodeVars, coreVars, truthVars>>

\* ... and Reset stores 0 over whatever the counters hold by then.
ResetCounter(u) ==
    /\ phase[u] = "loaded"
    /\ phase' = [phase EXCEPT ![u] = "held"]
    /\ counter' = [k \in Key |-> IF OfRound(u, k) THEN 0 ELSE counter[k]]
    /\ CountTraffic(u, InRound(hand, u))
    /\ UNCHANGED <<core, hand, pc, roundTag, path, fails, registered, orphans, throttled, restored,
                   nodeVars, truthVars>>

\* The Reset of counters that went with their node changes nothing anybody reads.
ResetGone(u) ==
    /\ phase[u] = "gone"
    /\ phase' = [phase EXCEPT ![u] = "held"]
    /\ CountTraffic(u, InRound(hand, u))
    /\ UNCHANGED <<core, hand, pc, roundTag, path, fails, throttled, restored,
                   nodeVars, coreVars, truthVars>>

ReadingDone == pc = "reading" /\ \A u \in User : phase[u] \in {"idle", "held"}

\* The end of a round: nothing is kept of it.
RoundOver ==
    /\ pc' = "idle"
    /\ phase' = [u \in User |-> "idle"]
    /\ hand' = Zero
    /\ path' = 1

\* len(userTraffic) = 0: nothing is pushed.
NothingToReport ==
    /\ ReadingDone
    /\ hand = Zero
    /\ RoundOver
    /\ UNCHANGED <<core, roundTag, fails, nodeVars, coreVars, dynVars, truthVars>>

\* The panel adds the increment to the users' bills.
PanelApplies == billed' = [k \in Key |-> billed[k] + hand[k]]
PanelAnswers == acked' = [k \in Key |-> acked[k] + hand[k]]

PushAccepted ==
    /\ ReadingDone
    /\ hand # Zero
    /\ PanelApplies /\ PanelAnswers
    /\ RoundOver
    /\ UNCHANGED <<core, roundTag, fails, used, dropped, nodeVars, coreVars, dynVars>>

\* Another path is tried after any failure, an ambiguous one too.
PushNextPathAlways ==
    /\ ReadingDone
    /\ hand # Zero
    /\ path < Paths
    /\ path' = path + 1
    /\ PanelApplies \/ UNCHANGED billed
    /\ UNCHANGED <<core, pc, roundTag, phase, hand, fails, used, acked, dropped,
                   nodeVars, coreVars, dynVars>>

\* 404 or 405: the endpoint is not there, the next one is tried.
PushNextPath ==
    /\ ReadingDone
    /\ hand # Zero
    /\ path < Paths
    /\ path' = path + 1
    /\ UNCHANGED <<core, pc, roundTag, phase, hand, fails, nodeVars, coreVars, dynVars, truthVars>>

PushFailedForgets ==
    /\ ReadingDone
    /\ hand # Zero
    /\ fails < MaxFails /\ fails' = fails + 1
    /\ PanelApplies \/ UNCHANGED billed
    /\ RoundOver
    /\ UNCHANGED <<core, roundTag, used, acked, dropped, nodeVars, coreVars, dynVars>>

\* Any other failure, or the last endpoint missing: no other path is tried and
\* the usage is put back.  Whether the panel has applied it all the same (the
\* response was lost) the node cannot tell, and acts the same.
PushFailed ==
    /\ ReadingDone
    /\ hand # Zero
    /\ fails < MaxFails /\ fails' = fails + 1
    /\ PanelApplies \/ UNCHANGED billed
    /\ pc' = "restoring"
    /\ UNCHANGED <<core, roundTag, phase, hand, path, used, acked, dropped,
                   nodeVars, coreVars, dynVars>>

\* The counters a restore adds to: they are there, and the Selector knows the tag.
Restorable(u) == roundTag \in table /\ <<roundTag, u>> \in registered

Dropped(u) ==
    dropped' = [k \in Key |-> dropped[k] + IF OfRound(u, k) /\ roundTag \notin table
                                           THEN hand[k] ELSE 0]

RestoreOverwrites(u) ==
    /\ pc = "restoring" /\ phase[u] = "held"
    /\ phase' = [phase EXCEPT ![u] = "idle"]
    /\ hand' = [k \in Key |-> IF OfRound(u, k) THEN 0 ELSE hand[k]]
    /\ counter' = [k \in Key |-> IF OfRound(u, k) /\ Restorable(u) THEN hand[k] ELSE counter[k]]
    /\ Dropped(u)
    /\ restored' = [restored EXCEPT ![u] = @ + InRound(hand, u)]
    /\ UNCHANGED <<core, pc, roundTag, path, fails, registered, orphans, traffic, throttled,
                   nodeVars, used, acked, billed>>

\* RestoreUserTraffic: an atomic add, dropped when the tag is not in the Selector's
\* table (it returns without a word) or the counter is gone.
RestoreUserTraffic(u) ==
    /\ pc = "restoring" /\ phase[u] = "held"
    /\ phase' = [phase EXCEPT ![u] = "idle"]
    /\ hand' = [k \in Key |-> IF OfRound(u, k) THEN 0 ELSE hand[k]]
    /\ counter' = [k \in Key |-> counter[k] + IF OfRound(u, k) /\ Restorable(u) THEN hand[k] ELSE 0]
    /\ Dropped(u)
    /\ restored' = [restored EXCEPT ![u] = @ + InRound(hand, u)]
    /\ UNCHANGED <<core, pc, roundTag, path, fails, registered, orphans, traffic, throttled,
                   nodeVars, used, acked, billed>>

RestoreDone ==
    /\ pc = "restoring"
    /\ \A u \in User : phase[u] = "idle"
    /\ RoundOver
    /\ UNCHANGED <<core, roundTag, fails, nodeVars, coreVars, dynVars, truthVars>>

-----------------------------------------------------------------------------
(* The dynamic speed limit *)

\* consumeDynamicSpeedLimitUsers: users over the threshold are taken out of the
\* map and throttled.
SpeedCheckerKeepsTraffic ==
    LET matched == {u \in User : traffic[u] >= Threshold}
    IN  /\ matched # {}
        /\ throttled' = [u \in User |-> throttled[u] + IF u \in matched THEN 1 ELSE 0]
        /\ traffic' = traffic
        /\ UNCHANGED <<core, restored, nodeVars, coreVars, reportVars, truthVars>>

SpeedChecker ==
    LET matched == {u \in User : traffic[u] >= Threshold}
    IN  /\ matched # {}
        /\ throttled' = [u \in User |-> throttled[u] + IF u \in matched THEN 1 ELSE 0]
        /\ traffic' = [u \in User |-> IF u \in matched THEN 0 ELSE traffic[u]]
        /\ UNCHANGED <<core, restored, nodeVars, coreVars, reportVars, truthVars>>

-----------------------------------------------------------------------------
(* The user diff of nodeInfoMonitor: DelUsers, AddUsers, deleteTraffic,    *)
(* setUsers                                                                *)

\* xray unregisters the counters of a deleted user: what they hold is gone, and
\* the connections that are still open go on with counters nobody reads.  sing
\* and hysteria2 keep the counters.  Without the tag in the Selector's table the
\* diff is given up.
DelUsers(newList, changed) ==
    LET gone == IF core = "xray" THEN deleted' ELSE {}
    IN  /\ mon = "idle" /\ tag \in table
        /\ changes < MaxChanges /\ changes' = changes + 1
        /\ changed \subseteq users \cap newList
        /\ deleted' = (users \ newList) \cup changed
        /\ coreUsers' = [coreUsers EXCEPT ![tag] = @ \ deleted']
        /\ removed' = removed \cup deleted'
        /\ registered' = registered \ ({tag} \X gone)
        /\ counter' = [k \in Key |-> IF TagOf(k) = tag /\ Owner(k) \in gone THEN 0 ELSE counter[k]]
        /\ orphans' = orphans \cup (registered \cap ({tag} \X gone))
        /\ mon' = "add" /\ target' = newList
        /\ UNCHANGED <<core, tag, users, table, broken, breaks,
                       reportVars, dynVars, truthVars>>

AddUsers ==
    /\ mon = "add"
    /\ coreUsers' = [coreUsers EXCEPT ![tag] = target]
    /\ mon' = "clear"
    /\ UNCHANGED <<core, tag, users, table, target, deleted, broken, changes, breaks,
                   removed, coreVars, reportVars, dynVars, truthVars>>

\* The usage counted towards the dynamic limit of a deleted user is forgotten.
DeleteTraffic ==
    /\ mon = "clear"
    /\ traffic' = [u \in User |-> IF u \in deleted THEN 0 ELSE traffic[u]]
    /\ mon' = "set"
    /\ UNCHANGED <<core, tag, users, table, coreUsers, target, deleted, broken, changes, breaks,
                   removed, throttled, restored, coreVars, reportVars, truthVars>>

SetUsers ==
    /\ mon = "set"
    /\ users' = target
    /\ mon' = "idle"
    /\ UNCHANGED <<core, tag, table, coreUsers, target, deleted, broken, changes, breaks,
                   removed, coreVars, reportVars, dynVars, truthVars>>

-----------------------------------------------------------------------------
(* The reload of nodeInfoMonitor, as the accounting sees it: setUsers,     *)
(* resetTraffic, DelNode, setTag, AddNode, AddUsers                        *)

\* A configuration was pulled, a new one or, after a failed reload, the same
\* again, maybe with a user list.
ReloadUsers(newList) ==
    /\ mon = "idle"
    /\ IF broken THEN UNCHANGED changes
                 ELSE changes < MaxChanges /\ changes' = changes + 1
    /\ users' = newList
    /\ removed' = removed \cup (users \ newList)
    /\ mon' = "reset"
    /\ UNCHANGED <<core, tag, table, coreUsers, target, deleted, broken, breaks,
                   coreVars, reportVars, dynVars, truthVars>>

ResetTraffic ==
    /\ mon = "reset"
    /\ traffic' = NoUserTraffic
    /\ mon' = "del"
    /\ UNCHANGED <<core, tag, users, table, coreUsers, target, deleted, broken, changes, breaks,
                   removed, throttled, restored, coreVars, reportVars, truthVars>>

\* xray and sing keep the counters of the tag, and connections that go on with
\* them.  In hysteria2 they belong to the node, with its connections.
DelNode ==
    LET gone == IF core = "hysteria2" THEN {tag} ELSE {}
    IN  /\ mon = "del"
        /\ table' = table \ {tag}
        /\ coreUsers' = [coreUsers EXCEPT ![tag] = {}]
        /\ registered' = registered \ (gone \X User)
        /\ counter' = [k \in Key |-> IF TagOf(k) \in gone THEN 0 ELSE counter[k]]
        /\ phase' = [u \in User |-> IF roundTag \in gone /\ phase[u] = "loaded"
                                    THEN "gone" ELSE phase[u]]
        /\ mon' = "tag"
        /\ UNCHANGED <<core, tag, users, target, deleted, broken, changes, breaks, removed,
                       orphans, pc, roundTag, hand, path, fails, dynVars, truthVars>>

\* A node that cannot be deleted is reported in the log only.
DelNodeFails ==
    /\ mon = "del"
    /\ breaks < MaxBreaks /\ breaks' = breaks + 1
    /\ mon' = "tag"
    /\ UNCHANGED <<core, tag, users, table, coreUsers, target, deleted, broken, changes,
                   removed, coreVars, reportVars, dynVars, truthVars>>

\* setTag: the tag of the new protocol, or the same for the same one and for a
\* node with a name.
SetTag(newTag) ==
    /\ mon = "tag"
    /\ tag' = newTag
    /\ mon' = "node"
    /\ UNCHANGED <<core, users, table, coreUsers, target, deleted, broken, changes, breaks,
                   removed, coreVars, reportVars, dynVars, truthVars>>

AddNode ==
    /\ mon = "node"
    /\ table' = table \cup {tag}
    /\ mon' = "users"
    /\ UNCHANGED <<core, tag, users, coreUsers, target, deleted, broken, changes, breaks,
                   removed, coreVars, reportVars, dynVars, truthVars>>

AddNodeUsers ==
    /\ mon = "users"
    /\ coreUsers' = [coreUsers EXCEPT ![tag] = users]
    /\ broken' = FALSE
    /\ mon' = "idle"
    /\ UNCHANGED <<core, tag, users, table, target, deleted, changes, breaks,
                   removed, coreVars, reportVars, dynVars, truthVars>>

\* A step fails: a diff is given up, a reload (rules, certificate, AddNode,
\* AddUsers) is repeated after the next pull (retryNodeReload).
MonitorStops ==
    /\ mon \in {"add", "node", "users"}
    /\ breaks < MaxBreaks /\ breaks' = breaks + 1
    /\ broken' = (broken \/ mon # "add")
    /\ mon' = "idle"
    /\ UNCHANGED <<core, tag, users, table, coreUsers, target, deleted, changes,
                   removed, coreVars, reportVars, dynVars, truthVars>>

-----------------------------------------------------------------------------
ReportStep ==
    \/ ReadTag \/ ReadUsers
    \/ \E u \in User : \/ ReadNothing(u) \/ SwapCounter(u) \/ LoadCounter(u)
                       \/ ResetCounter(u) \/ ResetGone(u) \/ RestoreUserTraffic(u)
    \/ NothingToReport
    \/ PushAccepted
    \/ PushNextPath
    \/ RestoreDone

MonitorStep ==
    \/ AddUsers \/ DeleteTraffic \/ SetUsers
    \/ ResetTraffic \/ DelNode \/ AddNode \/ AddNodeUsers
    \/ \E newTag \in Tag : SetTag(newTag)

Next ==
    \/ ReportStep
    \/ PushFailed
    \/ \E t \in Tag, u \in User : Connect(t, u)
    \/ \E k \in Key : Transfer(k) \/ TransferUnread(k)
    \/ SpeedChecker
    \/ MonitorStep
    \/ \E newList, changed \in SUBSET User : DelUsers(newList, changed)
    \/ \E newList \in SUBSET User : ReloadUsers(newList)
    \/ DelNodeFails \/ MonitorStops

Spec == Init /\ [][Next]_vars

\* The report task is started again and again and its round goes on; a round
\* that keeps finding endpoints missing ends after Paths tries, and failures
\* are bounded by MaxFails.  So is the monitor, which goes on with a reload and
\* repeats a broken one.
FairSpec ==
    /\ Spec
    /\ WF_vars(ReportStep)
    /\ WF_vars(MonitorStep)
    /\ WF_vars(broken /\ \E newList \in SUBSET User : ReloadUsers(newList))

-----------------------------------------------------------------------------
(* Properties *)

\* What is still due: in the counter, or in the hands of the round.  While a
\* value is loaded but not reset it is in the counter only.
Due(k) == counter[k] + IF phase[Owner(k)] = "loaded" THEN 0 ELSE hand[k]

\* What is accounted for: acknowledged or still due.
Accounted(k) == acked[k] + Due(k)

\* user.go:109-112, core/interface.go:21-24: no usage of a user that stays on
\* the node is lost, whatever the failed pushes, the traffic that arrives while
\* a report is in flight and the reloads of the node, when the core reads its
\* counters by a swap, but what a restore has dropped.
NoUsageLost ==
    core = "xray" =>
        \A k \in Key : Owner(k) \notin removed => used[k] <= Accounted(k) + dropped[k]

\* user.go:109-112 ("Put it back and let the next round report it again"): what a
\* failed push gives back is not dropped, if the user stays on the node.
PutBackIsKept ==
    core = "xray" => \A k \in Key : Owner(k) \notin removed => dropped[k] = 0

\* Nothing is due twice: what the panel has acknowledged, what the counter holds
\* and what the round has in hand never exceed the bytes moved, so no restore
\* puts back what was acknowledged and no read leaves behind what it took.
NothingDueTwice == \A k \in Key : Accounted(k) <= used[k]

\* The round's book-keeping: a value that was loaded is still covered by the
\* counter, which only grows until the Reset, and nothing is in hand outside a
\* round or before a counter was read.  (Makes the accounting inductive.)
RoundIsConsistent ==
    /\ \A k \in Key : /\ phase[Owner(k)] = "loaded" => hand[k] <= counter[k]
                      /\ phase[Owner(k)] \in {"idle", "todo"} => hand[k] = 0
                      /\ TagOf(k) # roundTag => hand[k] = 0
    /\ pc \in {"idle", "tagged"} => \A u \in User : phase[u] = "idle"

\* A user is throttled once per Threshold bytes it moved; usage that was put
\* back by a failed report and read again is counted again.
ThrottleIsEarned ==
    \A u \in User : throttled[u] * Threshold + traffic[u] <= Total(used, u) + restored[u]

\* Every byte of a user that stays is acknowledged in the end, through failed
\* pushes, missing endpoints and reloads, but what a restore has dropped and what
\* was counted under a tag the node no longer has: time and again (and, as usage
\* ends at MaxBytes, finally for good) nothing is outstanding.
UsageIsBilled ==
    []<>(core = "xray" =>
            \A k \in Key : \/ acked[k] + dropped[k] >= used[k]
                           \/ Owner(k) \in removed \/ TagOf(k) # tag)

\* The accounting implements the ledger: usage is due once, from when it is
\* counted until it is acknowledged or lost, whoever reads, pushes, restores,
\* deletes users and reloads; and the panel adds up what it acknowledges, and
\* what is due once more for each report whose answer was lost, not for each
\* endpoint that was tried.
Ledger == INSTANCE BillingLedger
              WITH due <- [k \in Key |-> Due(k)], settled <- acked, doubts <- fails
ImplementsLedger == Ledger!LedgerSpec
=============================================================================
