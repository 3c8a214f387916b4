---------------------------- MODULE OnlineReport ----------------------------
(***************************************************************************)
(* Who is online: the registry of one node's limiter                       *)
(* (limiter/online_registry.go, seen here as the age of every device), the *)
(* report of it to the panel in reportUserTrafficTask (node/user.go,       *)
(* api/panel/user.go), and the reload that replaces users, tag, limiter    *)
(* and push interval under a running report (node/task.go).                *)
(*                                                                         *)
(* A device is a pair of user and address.  Time passes in ticks; the      *)
(* durations of the code are constants, in ticks.  Reloads are counted,    *)
(* and a tag, user list or limiter is known by the reload it came with.    *)
(*                                                                         *)
(* An operator that no action uses is a mistake the code could have made,  *)
(* named for it: the checks make sure that a property would notice.        *)
(***************************************************************************)
EXTENDS Naturals, FiniteSets

CONSTANTS
    User, IP,
    Device,                       \* the devices considered: pairs of User and IP
    Panels,                       \* the panel types considered
    Naming,                       \* the cases to consider: is Options.Name set?
    Timeouts,                     \* values of LimitConfig.OnlineTimeout, 0 if unset
    Intervals,                    \* values of push_interval the panel may send
    DefaultPush, MinPush, MaxPush,\* bounds of normalizedPushInterval
    Jitter,                       \* task.Jitter, in percent
    DefaultTTL, MinTTL, Margin,   \* defaultOnlineTTL, minOnlineTTL, the minute of applyOnlineTTL
    Posts,                        \* requests of one report before it gives up
    Gone,                         \* age of a device that is not in the registry
    MaxAge,                       \* bound: ages above every TTL are not told apart
    MaxReloads, MaxFails          \* bounds

ASSUME OnlineAssumption ==
    /\ Device \subseteq User \X IP
    /\ Panels \subseteq {"ppanel", "uniproxy"}
    /\ Naming \subseteq BOOLEAN
    /\ Timeouts \subseteq Nat /\ Intervals \subseteq Nat
    /\ {DefaultPush, MinPush, MaxPush, DefaultTTL, MinTTL, Margin, MaxAge} \subseteq Nat \ {0}
    /\ Jitter \in 0..100
    /\ Posts \in [Panels -> Nat \ {0}]
    /\ Gone \notin Nat
    /\ MaxReloads \in Nat /\ MaxFails \in Nat

VARIABLES
    panelType, named, timeout,    \* never change
    age, open,                    \* registry: ticks since a device was seen; Refs > 0
    ttl, bare,                    \* OnlineRegistry.ttl; is applyOnlineTTL still to set it?
    push,                         \* interval of the report task
    wait, gap,                    \* ticks until the next report starts, since the last snapshot
    pace,                         \* how the last report and the wait after it fit the window
    phase, left,                  \* report: where it is; requests left to try
    repTag, repUsers,             \* report: the tag and the user list it has read
    data,                         \* report: addresses to send, for the users to send
    last,                         \* lastOnlineUIDs
    panel,                        \* what the panel shows: addresses per user
    tagGen, usersGen,             \* the reload c.tag and c.userList came with
    reload,                       \* where nodeInfoMonitor is in a reload
    missed,                       \* users whose empty device list was in a failed report
    fails

givenVars == <<panelType, named, timeout>>
regVars   == <<age, open>>
ttlVars   == <<ttl, bare, push>>
timeVars  == <<wait, gap, pace>>
readVars  == <<repTag, repUsers>>
sendVars  == <<left, data, last>>
panelVars == <<panel, missed>>
genVars   == <<tagGen, usersGen, reload>>
vars == <<givenVars, regVars, ttlVars, timeVars, phase, readVars, sendVars, panelVars, genVars, fails>>

NormalizedPushInterval(interval) ==
    LET positive == IF interval = 0 THEN DefaultPush ELSE interval
    IN  IF panelType = "ppanel" THEN positive
        ELSE IF positive < MinPush THEN MinPush
        ELSE IF positive > MaxPush THEN MaxPush ELSE positive

AtLeast(bound, t) == IF t < bound THEN bound ELSE t

\* nextDelay: the interval, shifted by up to Jitter percent either way
NextDelay(interval) ==
    {delay \in 1..(2 * interval) :
        /\ (100 - Jitter) * interval <= 100 * delay
        /\ 100 * delay <= (100 + Jitter) * interval}

\* onlineTTLFromSeconds
OnlineTimeout == IF timeout = 0 THEN DefaultTTL ELSE timeout

NewTTL == AtLeast(MinTTL, OnlineTimeout)

TTLAsConfigured(interval) == NewTTL

\* applyOnlineTTL: the window stays longer than the push interval.
AppliedTTL(interval) == AtLeast(MinTTL, AtLeast(interval + Margin, OnlineTimeout))

Nobody == [u \in User |-> {}]

TypeOK ==
    /\ panelType \in Panels /\ named \in Naming /\ timeout \in Timeouts
    /\ age \in [Device -> 0..MaxAge \cup {Gone}] /\ open \subseteq {d \in Device : age[d] # Gone}
    /\ ttl \in Nat /\ bare \in BOOLEAN /\ push \in Nat \ {0}
    /\ wait \in Nat /\ gap \in 0..MaxAge /\ pace \in {"onTime", "late", "slow"}
    /\ phase \in {"idle", "reading", "snapshot", "post"} /\ left \in 0..Posts[panelType]
    /\ repTag \in 0..MaxReloads /\ repUsers \in 0..MaxReloads
    /\ DOMAIN data \subseteq User /\ \A u \in DOMAIN data : data[u] \subseteq IP
    /\ last \subseteq User /\ missed \subseteq User
    /\ panel \in [User -> SUBSET IP]
    /\ tagGen \in 0..MaxReloads /\ usersGen \in 0..MaxReloads
    /\ reload \in {"idle", "tag", "limiter", "apply", "rearm", "report", "ttl"}
    /\ fails \in 0..MaxFails

Init ==
    /\ panelType \in Panels /\ named \in Naming /\ timeout \in Timeouts
    /\ age = [d \in Device |-> Gone] /\ open = {}
    /\ \E interval \in Intervals : push = NormalizedPushInterval(interval)
    /\ ttl = AppliedTTL(push) /\ bare = FALSE
    /\ wait = 0 /\ gap = 0 /\ pace = "onTime"
    /\ phase = "idle" /\ left = 0 /\ repTag = 0 /\ repUsers = 0 /\ data = <<>>
    /\ last = {} /\ panel = Nobody
    /\ tagGen = 0 /\ usersGen = 0 /\ reload = "idle"
    /\ missed = {} /\ fails = 0

Fail == fails < MaxFails /\ fails' = fails + 1

-----------------------------------------------------------------------------
(* Devices come and go; time passes                                        *)

\* CheckLimit lets a connection of the device through: Touch, and Add.
Connect(d) ==
    /\ d \notin open
    /\ age' = [age EXCEPT ![d] = 0] /\ open' = open \cup {d}
    /\ UNCHANGED <<givenVars, ttlVars, timeVars, phase, readVars, sendVars, panelVars, genVars, fails>>

\* Online.Del, which remembers the moment
Disconnect(d) ==
    /\ d \in open
    /\ age' = [age EXCEPT ![d] = 0] /\ open' = open \ {d}
    /\ UNCHANGED <<givenVars, ttlVars, timeVars, phase, readVars, sendVars, panelVars, genVars, fails>>

\* Limiter.UpdateUser after a user diff: Online.DeleteUser
DeleteUser(u) ==
    /\ reload = "idle"
    /\ \E d \in Device : d[1] = u /\ age[d] # Gone
    /\ age' = [d \in Device |-> IF d[1] = u THEN Gone ELSE age[d]]
    /\ open' = {d \in open : d[1] # u}
    /\ UNCHANGED <<givenVars, ttlVars, timeVars, phase, readVars, sendVars, panelVars, genVars, fails>>

Older(d) == IF d \in open \/ age[d] = Gone \/ age[d] = MaxAge THEN age[d] ELSE age[d] + 1

Expired(d) == d \notin open /\ age[d] # Gone /\ age[d] > ttl

\* A reload that has restarted the report task is about to set the window.
TTLDue == reload = "ttl" \/ (reload = "report" /\ phase = "idle" /\ wait > 0)

\* Time passes between two reports, until the task starts the next one, and
\* while a report waits for the panel.  A tick is a minute, the period of Sweep.
Tick ==
    /\ ~TTLDue /\ ~\E d \in Device : Expired(d)
    /\ \/ phase = "idle" /\ wait > 0 /\ wait' = wait - 1
       \/ phase = "post" /\ gap <= Margin /\ UNCHANGED wait
    /\ age' = [d \in Device |-> Older(d)]
    /\ gap' = IF gap < MaxAge THEN gap + 1 ELSE gap
    /\ UNCHANGED <<givenVars, open, ttlVars, pace, phase, readVars, sendVars, panelVars, genVars, fails>>

\* OnlineRegistry.Sweep, once a minute
Sweep ==
    /\ \E d \in Device : Expired(d)
    /\ age' = [d \in Device |-> IF Expired(d) THEN Gone ELSE age[d]]
    /\ UNCHANGED <<givenVars, open, ttlVars, timeVars, phase, readVars, sendVars, panelVars,
                   genVars, fails>>

-----------------------------------------------------------------------------
(* reportUserTrafficTask.  It reads the tag and the user list, one after   *)
(* the other, then the counters (TrafficReport), then the limiter.         *)

ReadTag ==
    /\ phase = "idle" /\ wait = 0
    /\ repTag' = tagGen /\ phase' = "reading"
    /\ UNCHANGED <<givenVars, regVars, ttlVars, timeVars, repUsers, sendVars, panelVars, genVars, fails>>

ReadUsers ==
    /\ phase = "reading"
    /\ repUsers' = usersGen /\ phase' = "snapshot"
    /\ UNCHANGED <<givenVars, regVars, ttlVars, timeVars, repTag, sendVars, panelVars, genVars, fails>>

\* GetOnlineDevice: Online.Snapshot
Online == {d \in Device : age[d] # Gone}

\* One user for every address
DedupeByIPAlone(devices) ==
    {CHOOSE d \in devices : d[2] = ip : ip \in {d[2] : d \in devices}}

\* dedupeOnlineUsersByIP: one entry for every pair of user and address
DedupeOnlineUsersByIP(devices) == {<<d[1], d[2]>> : d \in devices}

\* ppanel with DeviceOnlineMinTraffic: users with little traffic are left out,
\* users without any are not.
TrafficFilter(devices, low) ==
    IF panelType = "ppanel" THEN {d \in devices : d[1] \notin low} ELSE devices

UIDs(devices) == {d[1] : d \in devices}

\* trackOnlineTransition: the users of the previous round that are not in this one
Stale(current) == last \ UIDs(current)

\* buildOnlineIPPayload, and an empty list for every user that went offline
Payload(result) ==
    [u \in UIDs(result) \cup (IF panelType = "ppanel" THEN {} ELSE Stale(result)) |->
        {d[2] : d \in {e \in result : e[1] = u}}]

TakeSnapshotNoClearing ==
    \E low \in SUBSET (IF panelType = "ppanel" THEN User ELSE {}) :
    LET result == TrafficFilter(DedupeOnlineUsersByIP(Online), low)
    IN  /\ phase = "snapshot"
        /\ data' = [u \in UIDs(result) |-> {d[2] : d \in {e \in result : e[1] = u}}]
        /\ last' = IF panelType = "ppanel" THEN last ELSE UIDs(result)
        /\ phase' = "post" /\ left' = Posts[panelType]
        /\ gap' = 0 /\ pace' = "onTime" /\ repTag' = 0 /\ repUsers' = 0
        /\ UNCHANGED <<givenVars, regVars, ttlVars, wait, panelVars, genVars, fails>>

TakeSnapshot ==
    \E low \in SUBSET (IF panelType = "ppanel" THEN User ELSE {}) :
    LET result == TrafficFilter(DedupeOnlineUsersByIP(Online), low)
    IN  /\ phase = "snapshot"
        /\ data' = Payload(result)
        /\ last' = IF panelType = "ppanel" THEN last ELSE UIDs(result)
        /\ phase' = "post" /\ left' = Posts[panelType]
        /\ gap' = 0 /\ pace' = "onTime" /\ repTag' = 0 /\ repUsers' = 0
        /\ UNCHANGED <<givenVars, regVars, ttlVars, wait, panelVars, genVars, fails>>

\* The panel writes the devices of the users it receives, and of no other.
PanelStores == panel' = [u \in User |-> IF u \in DOMAIN data THEN data[u] ELSE panel[u]]

\* The report of the traffic (TrafficReport) and of the host's status follow, and
\* the timer of the next report is armed.
ReportEnds ==
    /\ phase' = "idle" /\ left' = 0 /\ data' = <<>>
    /\ wait' \in NextDelay(push)
    /\ pace' = IF gap > Margin THEN "slow"
               ELSE IF gap + wait' > push + Margin THEN "late" ELSE "onTime"

\* ReportNodeOnlineUsers: a request is answered.
PostAccepted ==
    /\ phase = "post"
    /\ PanelStores
    /\ missed' = missed \ DOMAIN data
    /\ ReportEnds
    /\ UNCHANGED <<givenVars, regVars, ttlVars, gap, readVars, last, genVars, fails>>

\* It is refused, or stored and its answer lost: the next endpoint or form of
\* the body is tried, with the same devices.
PostFails ==
    /\ phase = "post" /\ left > 1
    /\ PanelStores \/ UNCHANGED panel
    /\ left' = left - 1
    /\ UNCHANGED <<givenVars, regVars, ttlVars, timeVars, phase, readVars, data, last, missed,
                   genVars, fails>>

\* After the last one the report is given up.  The transition it was to tell has
\* been taken already.
ReportFails ==
    /\ phase = "post" /\ left = 1
    /\ Fail
    /\ PanelStores \/ UNCHANGED panel
    /\ missed' = missed \cup {u \in DOMAIN data : data[u] = {}}
    /\ ReportEnds
    /\ UNCHANGED <<givenVars, regVars, ttlVars, gap, readVars, last, genVars>>

\* The panel drops the devices of a user it has heard nothing of for its own
\* window, which is longer than several rounds.
PanelExpires(u) ==
    /\ panel[u] # {} /\ u \notin last
    /\ panel' = [panel EXCEPT ![u] = {}] /\ missed' = missed \ {u}
    /\ UNCHANGED <<givenVars, regVars, ttlVars, timeVars, phase, readVars, sendVars, genVars, fails>>

-----------------------------------------------------------------------------
(* nodeInfoMonitor: a reload, as far as the reports see it                 *)

\* setUsers
ReloadUsers ==
    /\ reload = "idle" /\ usersGen < MaxReloads
    /\ usersGen' = usersGen + 1
    /\ reload' = IF named THEN "apply" ELSE "tag"
    /\ UNCHANGED <<givenVars, regVars, ttlVars, timeVars, phase, readVars, sendVars, panelVars,
                   tagGen, fails>>

\* setTag
ReloadTag ==
    /\ reload = "tag"
    /\ tagGen' = usersGen
    /\ reload' = "limiter"
    /\ UNCHANGED <<givenVars, regVars, ttlVars, timeVars, phase, readVars, sendVars, panelVars,
                   usersGen, fails>>

\* AddLimiter, setLimiter: a registry of its own, with the configured window
ReloadLimiter ==
    /\ reload = "limiter"
    /\ age' = [d \in Device |-> Gone] /\ open' = {}
    /\ ttl' = NewTTL /\ bare' = TRUE
    /\ reload' = "apply"
    /\ UNCHANGED <<givenVars, push, timeVars, phase, readVars, sendVars, panelVars, tagGen,
                   usersGen, fails>>

\* UpdateRule, the certificate, AddNode or AddUsers fail: the intervals stay as
\* they are.
ReloadFails ==
    /\ reload = "apply"
    /\ Fail
    /\ reload' = "idle"
    /\ UNCHANGED <<givenVars, regVars, ttlVars, timeVars, phase, readVars, sendVars, panelVars,
                   tagGen, usersGen>>

\* A new interval restarts the report task with a report, which waits for one
\* that is running.
ReloadInterval(interval) ==
    /\ reload = "apply"
    /\ push' = NormalizedPushInterval(interval)
    /\ IF push' = push
       THEN reload' = "ttl" /\ UNCHANGED wait
       ELSE phase = "idle" /\ reload' = "report" /\ wait' = 0
    /\ UNCHANGED <<givenVars, regVars, ttl, bare, gap, pace, phase, readVars, sendVars, panelVars,
                   tagGen, usersGen, fails>>

\* applyOnlineTTL, after that report
ReloadTTL ==
    /\ TTLDue
    /\ ttl' = AppliedTTL(push) /\ bare' = FALSE
    /\ reload' = "idle"
    /\ UNCHANGED <<givenVars, regVars, push, timeVars, phase, readVars, sendVars, panelVars,
                   tagGen, usersGen, fails>>

-----------------------------------------------------------------------------
ReportStep == ReadTag \/ ReadUsers \/ TakeSnapshot \/ PostAccepted

Next ==
    \/ \E d \in Device : Connect(d) \/ Disconnect(d)
    \/ \E u \in User : DeleteUser(u) \/ PanelExpires(u)
    \/ Tick \/ Sweep
    \/ ReportStep \/ PostFails \/ ReportFails
    \/ ReloadUsers \/ ReloadTag \/ ReloadLimiter \/ ReloadFails \/ ReloadTTL
    \/ \E interval \in Intervals : ReloadInterval(interval)

Spec == Init /\ [][Next]_vars

\* Time passes, the periodic tasks are run (PeriodicTask), reports and the sweep,
\* a reload ends, and the panel expires what it holds.
FairSpec ==
    /\ Spec
    /\ WF_vars(Tick) /\ WF_vars(ReportStep) /\ WF_vars(Sweep) /\ WF_vars(ReloadTTL)
    /\ \A u \in User : WF_vars(PanelExpires(u))

-----------------------------------------------------------------------------
(* Properties *)

\* user.go:14-16: a report does not mix the tag of one node with the users of
\* another, although a reload may swap both while it reads them.  (With a name of
\* its own a node keeps one tag.)
OneSnapshot == phase = "snapshot" /\ ~named => repTag = repUsers

Dropped(d) == Expired(d) /\ ~bare /\ ~(phase = "post" /\ gap > Margin)

\* task.go:76-78: a device is not dropped between two reports.  What Sweep takes
\* out of the registry was there at a snapshot, unless the last report and the wait
\* for the next outlast the push interval and the margin, or a failed reload has
\* left a limiter without its window.
SeenIsReported ==
    [][Sweep => \A d \in Device : Dropped(d) /\ pace = "onTime" => age[d] > gap]_vars

\* task.go:76-78 as it stands: also when it is only the jitter of the report task
\* (task.go:108) that makes the wait long, and no report was slow.
SeenIsAlwaysReported ==
    [][Sweep => \A d \in Device : Dropped(d) /\ pace # "slow" => age[d] > gap]_vars

\* user.go:70-75: whoever the panel shows online is remembered as such by the
\* controller, which will clear it, unless the clearing itself was in a report
\* that failed.
ShownIsRemembered ==
    phase = "idle" /\ panelType = "uniproxy" => \A u \in User : panel[u] # {} => u \in last \cup missed

\* When a user stays away the panel forgets it in the end, and it shows a device
\* that stays connected.
SettlesOnline ==
    \A d \in Device :
       /\ <>[](panelType = "uniproxy" /\ d \in open) =>
             <>[](d[2] \in panel[d[1]])
       /\ <>[](\A e \in Device : e[1] = d[1] => e \notin open) =>
             <>[](panel[d[1]] = {})
=============================================================================
