------------------------------- MODULE Limiter -------------------------------
(***************************************************************************)
(* The limiter of one node (limiter/limiter.go, online_registry.go): the   *)
(* limits of its users, the window of devices behind the device limit and  *)
(* the registry of online devices, under connections that are checked,     *)
(* registered and closed (xray's dispatcher, sing's hook), while the node  *)
(* monitor changes the users, the speed checker throttles them, the report *)
(* task rotates the window and the sweep forgets what has been offline.    *)
(*                                                                         *)
(* The connection and IP limits that CheckLimit applies first are the      *)
(* module ConnLimiter, and rejecting there changes nothing here.  The rate *)
(* buckets (SpeedLimiter) are left out.  Users are identified with their   *)
(* uid; uid 0 is what UserID returns for a user without an entry.          *)
(*                                                                         *)
(* An operator that no action uses is a mistake the code could have made,  *)
(* named for it: the checks make sure that a property would notice.        *)
(***************************************************************************)
EXTENDS Integers, FiniteSets

CONSTANTS
    User, IP, Conn,
    PlanSpeed,     \* users whose plan has a speed limit (SpeedLimit # 0)
    DeviceLimit,   \* per user, 0 for none
    NoUser,
    MaxAlive,      \* bound: devices the panel counts for a user
    MaxDiffs       \* bound: changes of the user list

ASSUME LimiterAssumption ==
    /\ PlanSpeed \subseteq User /\ NoUser \notin User
    /\ IsFiniteSet(Conn)
    /\ DeviceLimit \in [User -> Nat]
    /\ MaxAlive \in Nat /\ MaxDiffs \in Nat

Device == User \X IP

VARIABLES
    listed,         \* users of the node, as the monitor has applied them
    info,           \* UserLimitInfo: "absent", or its dynamic limit: "plain"
                    \* (none), "throttled", "expired" (still there, in the past)
    window, winIPs, \* UserOnlineIP: users with a map, and the IPs in it
    old,            \* OldUserOnline: the user an IP was online for
    alive,          \* AliveList
    online, refs,   \* registry: devices, their references, and those
    fresh,          \*   whose LastSeen is not yet past the TTL
    pc, user, ip,   \* connections: place, user, address
    rotating,       \* users rotateDeviceWindow has still to visit
    mon, diffs,     \* users UpdateUser has still to add; changes so far
    (* history *)
    counted,        \* connections that hold a reference
    changed,        \* users UpdateUser ever deleted
    admitted,       \* devices a connection was ever let in for
    crossed         \* the window was rotated in the middle of a rejection

limitVars  == <<info, listed, mon, diffs, changed>>
windowVars == <<window, winIPs, old, alive, rotating, admitted, crossed>>
onlineVars == <<online, refs, fresh, counted>>
connVars   == <<pc, user, ip>>
vars == <<limitVars, windowVars, onlineVars, connVars>>

Idle == "idle"

TypeOK ==
    /\ listed \subseteq User /\ changed \subseteq User /\ mon \subseteq User
    /\ info \in [User -> {"absent", "plain", "throttled", "expired"}]
    /\ window \subseteq User /\ winIPs \in [User -> SUBSET IP]
    /\ old \in [IP -> User \cup {NoUser}] /\ alive \in [User -> 0..MaxAlive]
    /\ rotating \subseteq User
    /\ online \subseteq Device /\ fresh \subseteq online /\ refs \in [Device -> Nat]
    /\ \A d \in Device : d \notin online => refs[d] = 0
    /\ pc \in [Conn -> {Idle, "expire", "device", "undoIP", "undoMap", "rejected",
                        "touch", "add", "open"}]
    /\ user \in [Conn -> User] /\ ip \in [Conn -> IP]
    /\ counted \subseteq Conn /\ admitted \subseteq Device /\ crossed \in BOOLEAN
    /\ diffs \in 0..MaxDiffs

\* AddLimiter with every user, and no device the panel counts.
Init ==
    /\ listed = User /\ info = [u \in User |-> "plain"]
    /\ window = {} /\ winIPs = [u \in User |-> {}] /\ old = [i \in IP |-> NoUser]
    /\ alive = [u \in User |-> 0] /\ rotating = {}
    /\ online = {} /\ refs = [d \in Device |-> 0] /\ fresh = {}
    /\ pc = [c \in Conn |-> Idle]
    /\ user \in {[c \in Conn |-> u] : u \in User} /\ ip \in {[c \in Conn |-> i] : i \in IP}
    /\ mon = {} /\ diffs = 0
    /\ counted = {} /\ changed = {} /\ admitted = {} /\ crossed = FALSE

Goto(c, place) == pc' = [pc EXCEPT ![c] = place]
DeviceOf(c) == <<user[c], ip[c]>>

-----------------------------------------------------------------------------
(* CheckLimit *)

\* The entry of the user is loaded; a user without one is rejected.  Only a
\* connection whose source is TCP is subject to the device limit.
CheckLimit(c, u, i, noSSUDP) ==
    /\ pc[c] = Idle
    /\ info[u] # "absent"
    /\ user' = [user EXCEPT ![c] = u] /\ ip' = [ip EXCEPT ![c] = i]
    /\ Goto(c, IF info[u] = "expired" THEN "expire"
               ELSE IF noSSUDP THEN "device" ELSE "touch")
    /\ UNCHANGED <<limitVars, windowVars, onlineVars>>

DropDeletesEntry(c, noSSUDP) ==
    /\ pc[c] = "expire"
    /\ info' = [info EXCEPT ![user[c]] = "absent"]
    /\ Goto(c, IF noSSUDP THEN "device" ELSE "touch")
    /\ UNCHANGED <<listed, mon, diffs, changed, user, ip, windowVars, onlineVars>>

\* The dynamic limit was in the past when the entry was loaded.  With a limit
\* of the plan the entry, as it is by now, loses its dynamic limit; without one
\* the entry is deleted.
DropExpiredLimit(c, noSSUDP) ==
    /\ pc[c] = "expire"
    /\ info' = [info EXCEPT ![user[c]] =
                   IF user[c] \in PlanSpeed /\ @ # "absent" THEN "plain" ELSE "absent"]
    /\ Goto(c, IF noSSUDP THEN "device" ELSE "touch")
    /\ UNCHANGED <<listed, mon, diffs, changed, user, ip, windowVars, onlineVars>>

\* As many devices as the limit allows are known to be alive.
OverDeviceLimit(u) == DeviceLimit[u] > 0 /\ DeviceLimit[u] <= alive[u]

\* The user has a map in this window: an IP that is new in it is stored, and
\* taken out again when the user is over the limit.
CheckDeviceInWindow(c) ==
    /\ pc[c] = "device" /\ user[c] \in window
    /\ LET new == ip[c] \notin winIPs[user[c]]
       IN  /\ winIPs' = [winIPs EXCEPT ![user[c]] = @ \cup {ip[c]}]
           /\ IF new /\ OverDeviceLimit(user[c])
              THEN Goto(c, "undoIP") /\ UNCHANGED admitted
              ELSE Goto(c, "touch") /\ admitted' = admitted \cup {DeviceOf(c)}
    /\ UNCHANGED <<limitVars, window, old, alive, rotating, crossed, onlineVars, user, ip>>

\* The first device of the user in this window: a fresh map is stored.  An IP
\* that was online before skips the limit, whoever was online from it.
CheckFirstDevice(c) ==
    /\ pc[c] = "device" /\ user[c] \notin window
    /\ window' = window \cup {user[c]}
    /\ winIPs' = [winIPs EXCEPT ![user[c]] = {ip[c]}]
    /\ \/ /\ old[ip[c]] # NoUser
          /\ old' = [old EXCEPT ![ip[c]] = IF @ = user[c] THEN NoUser ELSE @]
          /\ Goto(c, "touch") /\ admitted' = admitted \cup {DeviceOf(c)}
       \/ /\ old[ip[c]] = NoUser
          /\ IF OverDeviceLimit(user[c])
             THEN Goto(c, "undoMap") /\ UNCHANGED admitted
             ELSE Goto(c, "touch") /\ admitted' = admitted \cup {DeviceOf(c)}
          /\ UNCHANGED old
    /\ UNCHANGED <<limitVars, alive, rotating, crossed, onlineVars, user, ip>>

RejectKeepsIP(c) ==
    /\ pc[c] = "undoIP"
    /\ Goto(c, "rejected")
    /\ UNCHANGED <<window, winIPs, old, alive, rotating, admitted, crossed, limitVars,
                   onlineVars, user, ip>>

\* ipMap.Delete(ip)
RejectDevice(c) ==
    /\ pc[c] = "undoIP"
    /\ winIPs' = [winIPs EXCEPT ![user[c]] = @ \ {ip[c]}]
    /\ Goto(c, "rejected")
    /\ UNCHANGED <<window, old, alive, rotating, admitted, crossed, limitVars, onlineVars,
                   user, ip>>

\* A connection is between storing its IP and taking it out again.
Rejecting == \E c \in Conn : pc[c] \in {"undoIP", "undoMap"}

\* The user's map is dropped: a connection that was about to take its IP out of
\* it does so in a map that nobody reads any more.
DropMaps(us, places) ==
    [c \in Conn |-> IF places[c] = "undoIP" /\ user[c] \in us THEN "rejected" ELSE places[c]]

\* UserOnlineIP.Delete(taguuid)
RejectFirstDevice(c) ==
    /\ pc[c] = "undoMap"
    /\ window' = window \ {user[c]}
    /\ winIPs' = [winIPs EXCEPT ![user[c]] = {}]
    /\ pc' = DropMaps({user[c]}, [pc EXCEPT ![c] = "rejected"])
    /\ UNCHANGED <<old, alive, rotating, admitted, crossed, limitVars, onlineVars, user, ip>>

RejectReturns(c) ==
    /\ pc[c] = "rejected"
    /\ Goto(c, Idle)
    /\ UNCHANGED <<limitVars, windowVars, onlineVars, user, ip>>

-----------------------------------------------------------------------------
(* The registry: Touch at the end of CheckLimit, Add and Del around the    *)
(* life of the connection.  Touch and Add ignore uid 0.                    *)

SeeDevice(d) ==
    /\ online' = online \cup {d}
    /\ fresh' = fresh \cup {d}

Touch(c) ==
    /\ pc[c] = "touch"
    /\ IF info[user[c]] # "absent" THEN SeeDevice(DeviceOf(c)) ELSE UNCHANGED <<online, fresh>>
    /\ Goto(c, "add")
    /\ UNCHANGED <<refs, counted, limitVars, windowVars, user, ip>>

\* sing checks its domain and protocol rules before the connection counts.
RejectByRule(c) ==
    /\ pc[c] = "add"
    /\ Goto(c, Idle)
    /\ UNCHANGED <<limitVars, windowVars, onlineVars, user, ip>>

Add(c) ==
    /\ pc[c] = "add"
    /\ IF info[user[c]] # "absent"
       THEN /\ SeeDevice(DeviceOf(c))
            /\ refs' = [refs EXCEPT ![DeviceOf(c)] = @ + 1]
            /\ counted' = counted \cup {c}
       ELSE UNCHANGED onlineVars
    /\ Goto(c, "open")
    /\ UNCHANGED <<limitVars, windowVars, user, ip>>

\* The connection is closed.
Del(c) ==
    /\ pc[c] = "open"
    /\ refs' = [refs EXCEPT ![DeviceOf(c)] = IF @ > 0 THEN @ - 1 ELSE 0]
    /\ fresh' = IF DeviceOf(c) \in online THEN fresh \cup {DeviceOf(c)} ELSE fresh
    /\ counted' = counted \ {c}
    /\ Goto(c, Idle)
    /\ UNCHANGED <<online, limitVars, windowVars, user, ip>>

\* The TTL has passed since the device was last seen.
Age(d) ==
    /\ d \in fresh
    /\ fresh' = fresh \ {d}
    /\ UNCHANGED <<online, refs, counted, limitVars, windowVars, connVars>>

SweepIgnoresRefs ==
    /\ online # fresh
    /\ online' = fresh
    /\ refs' = [d \in Device |-> IF d \in fresh THEN refs[d] ELSE 0]
    /\ UNCHANGED <<fresh, counted, limitVars, windowVars, connVars>>

Sweep ==
    LET gone == {d \in online : refs[d] = 0 /\ d \notin fresh}
    IN  /\ gone # {}
        /\ online' = online \ gone
        /\ UNCHANGED <<refs, fresh, counted, limitVars, windowVars, connVars>>

-----------------------------------------------------------------------------
(* rotateDeviceWindow, at every push; sweepOldOnline; SetAliveList         *)

Rotate ==
    /\ rotating = {} /\ window # {}
    /\ rotating' = window
    /\ UNCHANGED <<window, winIPs, old, alive, admitted, crossed, limitVars, onlineVars, connVars>>

RotateUser(u) ==
    /\ u \in rotating
    /\ crossed' = (crossed \/ Rejecting)
    /\ rotating' = rotating \ {u}
    /\ old' = [i \in IP |-> IF u \in window /\ i \in winIPs[u] THEN u ELSE old[i]]
    /\ window' = window \ {u} /\ winIPs' = [winIPs EXCEPT ![u] = {}]
    /\ pc' = DropMaps({u}, pc)
    /\ UNCHANGED <<alive, admitted, limitVars, onlineVars, user, ip>>

ForgetOld(i) ==
    /\ old[i] # NoUser
    /\ old' = [old EXCEPT ![i] = NoUser]
    /\ UNCHANGED <<window, winIPs, alive, rotating, admitted, crossed, limitVars, onlineVars, connVars>>

\* The answer of the panel, every half minute and at every pull.
SetAliveList(counts) ==
    /\ counts # alive
    /\ alive' = counts
    /\ UNCHANGED <<window, winIPs, old, rotating, admitted, crossed, limitVars, onlineVars, connVars>>

\* None of the paths of fetchAliveList answers: an empty list, and no error.
AliveUnavailable == SetAliveList([u \in User |-> 0])

-----------------------------------------------------------------------------
(* UpdateUser, by the node monitor: the deleted users, then the added ones *)

UpdateUserDelete(newList, modified) ==
    LET deleted == (listed \ newList) \cup modified
    IN  /\ mon = {} /\ diffs < MaxDiffs
        /\ modified \subseteq listed \cap newList
        /\ newList # listed \/ modified # {}
        /\ diffs' = diffs + 1
        /\ listed' = newList
        /\ mon' = (newList \ listed) \cup modified
        /\ info' = [u \in User |-> IF u \in deleted THEN "absent" ELSE info[u]]
        /\ window' = window \ deleted
        /\ winIPs' = [u \in User |-> IF u \in deleted THEN {} ELSE winIPs[u]]
        /\ pc' = DropMaps(deleted, pc)
        /\ alive' = [u \in User |-> IF u \in deleted THEN 0 ELSE alive[u]]
        /\ online' = {d \in online : d[1] \notin deleted}
        /\ fresh' = {d \in fresh : d[1] \notin deleted}
        /\ refs' = [d \in Device |-> IF d[1] \in deleted THEN 0 ELSE refs[d]]
        /\ changed' = changed \cup deleted
        /\ UNCHANGED <<old, rotating, admitted, crossed, counted, user, ip>>

UpdateUserAdd ==
    /\ mon # {}
    /\ info' = [u \in User |-> IF u \in mon THEN "plain" ELSE info[u]]
    /\ mon' = {}
    /\ UNCHANGED <<listed, diffs, changed, windowVars, onlineVars, connVars>>

\* SpeedChecker: UpdateDynamicSpeedLimit of a user that has an entry.
UpdateDynamicSpeedLimit(u) ==
    /\ info[u] # "absent"
    /\ info' = [info EXCEPT ![u] = "throttled"]
    /\ UNCHANGED <<listed, mon, diffs, changed, windowVars, onlineVars, connVars>>

\* ExpireTime passes.
LimitExpires(u) ==
    /\ info[u] = "throttled"
    /\ info' = [info EXCEPT ![u] = "expired"]
    /\ UNCHANGED <<listed, mon, diffs, changed, windowVars, onlineVars, connVars>>

-----------------------------------------------------------------------------
ConnStep(c) ==
    \/ \E noSSUDP \in BOOLEAN : DropExpiredLimit(c, noSSUDP)
    \/ CheckDeviceInWindow(c) \/ CheckFirstDevice(c)
    \/ RejectDevice(c) \/ RejectFirstDevice(c) \/ RejectReturns(c)
    \/ Touch(c) \/ Add(c)

Next ==
    \/ \E c \in Conn :
          \/ \E u \in User, i \in IP, noSSUDP \in BOOLEAN : CheckLimit(c, u, i, noSSUDP)
          \/ ConnStep(c) \/ RejectByRule(c) \/ Del(c)
    \/ \E d \in Device : Age(d)
    \/ Sweep
    \/ Rotate \/ \E u \in User : RotateUser(u)
    \/ \E i \in IP : ForgetOld(i)
    \/ \E counts \in [User -> 0..MaxAlive] : SetAliveList(counts)
    \/ AliveUnavailable
    \/ \E newList, modified \in SUBSET User : UpdateUserDelete(newList, modified)
    \/ UpdateUserAdd
    \/ \E u \in User : UpdateDynamicSpeedLimit(u) \/ LimitExpires(u)

Spec == Init /\ [][Next]_vars

-----------------------------------------------------------------------------
(* Properties *)

OpenAt(d) == {c \in Conn : pc[c] = "open" /\ DeviceOf(c) = d}

\* Users whose entry was there all the time.
Stable == PlanSpeed \ changed

\* online_registry.go:39-43: for a user that stays as it is a device has one
\* reference per open connection, whatever is accepted, rejected, closed and
\* swept in between, so it is online while one is open; and no reference is left
\* behind, not even by a connection that was registered before its user was
\* deleted: no device is pinned online without one.
RefsAreExact ==
    \A d \in Device :
        /\ refs[d] <= Cardinality(OpenAt(d) \cap counted)
        /\ d[1] \in Stable =>
              /\ refs[d] = Cardinality(OpenAt(d))
              /\ OpenAt(d) # {} => d \in online

\* dynamic.go:10: the dynamic limit is temporary.  A user of the node keeps its
\* entry, and with it its access, when the limit expires.
ListedUserKnown == mon = {} => \A u \in listed : info[u] # "absent"

\* limiter.go:298-309: of the users whose plan has a speed limit the expiry of a dynamic
\* one locks out none, whatever connections load the entry before the user list changes
\* and drop the limit after it.
PlanUserKnown == mon = {} => \A u \in listed \cap PlanSpeed : info[u] # "absent"

\* limiter.go:41-44: OldUserOnline remembers which IPs "were online".  A device
\* that was only ever rejected is remembered neither there nor in the window,
\* where it would get past the limit the next time; unless the window was
\* rotated between the two halves of a rejection, which does remember it.
OnlyAdmittedRemembered ==
    ~Rejecting /\ ~crossed =>
        \A u \in User, i \in IP :
            (u \in window /\ i \in winIPs[u]) \/ old[i] = u => <<u, i>> \in admitted
=============================================================================
