----------------------------- MODULE ConnLimiter -----------------------------
(***************************************************************************)
(* The connection and IP limits of one user (limiter/conn.go), under the   *)
(* connections of that user: every connection calls AddConnCount when it   *)
(* is accepted (from Limiter.checkLimit) and, when it is a TCP connection  *)
(* that got through, DelConnCount when it is closed (xray's routedDispatch *)
(* and the tracked connections of sing).  Meanwhile ClearOnlineIP sweeps   *)
(* the addresses every minute.                                             *)
(*                                                                         *)
(* The maps are sync.Map: a Load and the Store that depends on it are two  *)
(* steps, and nothing keeps the steps of two calls apart.  An absent entry *)
(* is 0.  An IP's entry is 2 per TCP connection, plus 1 when a packet      *)
(* connection came first (realtime), or the time of the last connection    *)
(* (not realtime, here 1).  The map of the addresses is itself an entry of *)
(* a map, made on demand and deleted when it is empty: a call goes on with *)
(* the map it found, whether or not it is still the one of the user.       *)
(*                                                                         *)
(* An operator that no action uses is a mistake the code could have made,  *)
(* named for it: the checks make sure that a property would notice.        *)
(***************************************************************************)
EXTENDS Integers, FiniteSets

CONSTANTS
    Conn,         \* connections that may be open at the same time
    IP,           \* addresses of the user
    Map, NoMap,   \* address maps: one more than can be in use at a time
    Kinds,        \* {"tcp"}, or {"tcp", "udp"}
    ConnLimits,   \* the values of LimitConfig.ConnLimit to consider, 0 for none
    IPLimit,      \* LimitConfig.IPLimit, 0 for none
    Realtimes,    \* the values of LimitConfig.EnableRealtime to consider
    MaxLater,     \* bound: TCP connections that are rejected later on
    MaxSweeps     \* bound: runs of ClearOnlineIP

ASSUME ConnAssumption ==
    /\ IsFiniteSet(Conn)
    /\ NoMap \notin Map
    /\ Kinds \subseteq {"tcp", "udp"}
    /\ ConnLimits \subseteq Nat /\ IPLimit \in Nat
    /\ MaxLater \in Nat /\ MaxSweeps \in Nat /\ Realtimes \subseteq BOOLEAN

VARIABLES count,    \* c.count of the user
          cur,      \* c.ip of the user: its address map, or NoMap
          maps,     \* the contents of the address maps
          pc,       \* where each connection is
          ip, kind, \* its address and network
          held,     \* the address map its call works on
          seen,     \* the value its last Load returned
          sweep,    \* the sweep: its map, the addresses still to look at, the one it
                    \*   is about to delete, whether one stays, whether the map goes
          connLimit, realtime, \* fixed by NewConnLimiter
          sweeps,   \* sweeps started
          later,    \* history: TCP connections that AddConnCount let through
                    \*   and checkLimit rejected for another reason
          undone,   \* history: a packet connection took back a slot
          raced     \* history: a step wrote over something that was no longer what
                    \*   its own call, or the sweep, had found there

user == <<count, cur, maps>>
call == <<ip, kind, held, seen>>
conf == <<connLimit, realtime, later, undone>>
vars == <<user, pc, call, sweep, sweeps, conf, raced>>

\* Outside AddConnCount and DelConnCount.
Outside == {"idle", "passed", "open"}
\* Places where a call works on an address map.
Holding == {"ipLoad", "ipRange", "ipStore", "ipDelLoad", "ipDelStore", "ipDelCheck", "ipDelDrop"}
Place == Outside \cup Holding
         \cup {"limit", "addLoad", "addStore", "ipGet", "undoLoad", "undoStore",
               "delLoad", "delStore", "ipDelGet"}

NoSweep == [map |-> NoMap, todo |-> {}, due |-> {}, kept |-> FALSE, drop |-> FALSE]

TypeOK ==
    /\ count \in Nat
    /\ cur \in Map \cup {NoMap} /\ maps \in [Map -> [IP -> Int]]
    /\ pc \in [Conn -> Place]
    /\ ip \in [Conn -> IP] /\ kind \in [Conn -> {"tcp", "udp"}]
    /\ held \in [Conn -> Map \cup {NoMap}] /\ seen \in [Conn -> Int]
    /\ sweep \in [map : Map \cup {NoMap}, todo : SUBSET IP, due : SUBSET IP,
                  kept : BOOLEAN, drop : BOOLEAN]
    /\ connLimit \in ConnLimits /\ realtime \in BOOLEAN
    /\ sweeps \in 0..MaxSweeps /\ later \in 0..MaxLater
    /\ undone \in BOOLEAN /\ raced \in BOOLEAN

Init ==
    /\ count = 0
    /\ cur = NoMap /\ maps = [m \in Map |-> [i \in IP |-> 0]]
    /\ pc = [c \in Conn |-> "idle"]
    /\ ip \in {[c \in Conn |-> i] : i \in IP} /\ kind = [c \in Conn |-> "tcp"]
    /\ held = [c \in Conn |-> NoMap] /\ seen = [c \in Conn |-> 0]
    /\ sweep = NoSweep /\ sweeps = 0
    /\ connLimit \in ConnLimits /\ realtime \in Realtimes
    /\ later = 0 /\ undone = FALSE /\ raced = FALSE

Goto(c, place) == pc' = [pc EXCEPT ![c] = place]
See(c, value) == seen' = [seen EXCEPT ![c] = value]
Hold(c, m) == held' = [held EXCEPT ![c] = m]
Put(m, i, value) == maps' = [maps EXCEPT ![m][i] = value]
RacedIf(stale) == raced' = (raced \/ stale)

\* A call that ends, or has no more use for the address map, forgets what it found.
Drop(c, place) == Goto(c, place) /\ See(c, 0) /\ Hold(c, NoMap)

Online(m) == {i \in IP : maps[m][i] # 0}
Full(m) == IPLimit > 0 /\ Cardinality(Online(m)) >= IPLimit

\* What the limiter knows of an address: the entry in the map of the user.
Registered(i) == IF cur = NoMap THEN 0 ELSE maps[cur][i]
OnlineIPs == {i \in IP : Registered(i) # 0}

-----------------------------------------------------------------------------
(* AddConnCount *)

Accept(c, i, k) ==
    /\ pc[c] = "idle"
    /\ ip' = [ip EXCEPT ![c] = i] /\ kind' = [kind EXCEPT ![c] = k]
    /\ Goto(c, IF connLimit # 0 THEN "limit" ELSE "ipGet")
    /\ UNCHANGED <<user, held, seen, sweep, sweeps, conf, raced>>

AfterLimit(c) == IF kind[c] = "tcp" THEN "addLoad" ELSE "ipGet"

CheckConnLimitLate(c) ==
    /\ pc[c] = "limit"
    /\ IF count > connLimit THEN Drop(c, "idle")
       ELSE See(c, count) /\ Goto(c, AfterLimit(c)) /\ UNCHANGED held
    /\ UNCHANGED <<user, ip, kind, sweep, sweeps, conf, raced>>

CheckConnLimit(c) ==
    /\ pc[c] = "limit"
    /\ IF count >= connLimit THEN Drop(c, "idle")
       ELSE See(c, count) /\ Goto(c, AfterLimit(c)) /\ UNCHANGED held
    /\ UNCHANGED <<user, ip, kind, sweep, sweeps, conf, raced>>

\* addConnCount loads the count a second time.
AddLoad(c) ==
    /\ pc[c] = "addLoad"
    /\ See(c, count) /\ Goto(c, "addStore")
    /\ RacedIf(count # seen[c])
    /\ UNCHANGED <<user, ip, kind, held, sweep, sweeps, conf>>

AddStore(c) ==
    /\ pc[c] = "addStore"
    /\ count' = seen[c] + 1
    /\ Goto(c, "ipGet")
    /\ RacedIf(count # seen[c])
    /\ UNCHANGED <<cur, maps, call, sweep, sweeps, conf>>

\* Load, and LoadOrStore of a fresh map.
InUse == {cur, sweep.map} \cup {held[e] : e \in Conn}

IPGet(c) ==
    /\ pc[c] = "ipGet"
    /\ Goto(c, "ipLoad")
    /\ \/ /\ cur # NoMap
          /\ Hold(c, cur)
          /\ UNCHANGED <<cur, maps>>
       \/ /\ cur = NoMap
          /\ \E m \in Map \ InUse :
                /\ Hold(c, m)
                /\ cur' = m
                /\ maps' = [maps EXCEPT ![m] = [i \in IP |-> 0]]
    /\ UNCHANGED <<count, ip, kind, seen, sweep, sweeps, conf, raced>>

\* storeIP: is the address online, and if not, is there room for another?
IPLoad(c) ==
    /\ pc[c] = "ipLoad"
    /\ LET entry == maps[held[c]][ip[c]]
       IN  See(c, entry) /\ Goto(c, IF entry = 0 THEN "ipRange" ELSE "ipStore")
    /\ UNCHANGED <<user, ip, kind, held, sweep, sweeps, conf, raced>>

IPRangeNoRollback(c) ==
    /\ pc[c] = "ipRange"
    /\ IF Full(held[c]) THEN Drop(c, "idle")
       ELSE Goto(c, "ipStore") /\ UNCHANGED <<held, seen>>
    /\ UNCHANGED <<user, ip, kind, sweep, sweeps, conf, raced>>

IPRange(c) ==
    /\ pc[c] = "ipRange"
    /\ IF Full(held[c]) THEN Drop(c, "undoLoad")
       ELSE Goto(c, "ipStore") /\ UNCHANGED <<held, seen>>
    /\ UNCHANGED <<user, ip, kind, sweep, sweeps, conf, raced>>

\* A packet connection of an address that is online stores nothing (realtime).
IPStore(c) ==
    /\ pc[c] = "ipStore"
    /\ LET m == held[c]
           entry == maps[m][ip[c]]
       IN  /\ Put(m, ip[c], CASE ~realtime -> 1
                              [] realtime /\ kind[c] = "tcp" -> seen[c] + 2
                              [] realtime /\ kind[c] = "udp" -> IF seen[c] = 0 THEN 1 ELSE entry)
           /\ RacedIf(m # cur \/ entry # seen[c] \/ (entry = 0 /\ Full(m)))
    /\ Drop(c, "passed")
    /\ UNCHANGED <<count, cur, ip, kind, sweep, sweeps, conf>>

\* Over the IP limit: delConnCount takes the connection's count back, if any
\* limit counts connections, whatever the network of this one.
UndoLoad(c) ==
    /\ pc[c] = "undoLoad"
    /\ IF connLimit = 0 \/ count = 0 THEN Drop(c, "idle")
       ELSE See(c, count) /\ Goto(c, "undoStore") /\ UNCHANGED held
    /\ UNCHANGED <<user, ip, kind, sweep, sweeps, conf, raced>>

UndoStore(c) ==
    /\ pc[c] = "undoStore"
    /\ count' = seen[c] - 1
    /\ Drop(c, "idle")
    /\ undone' = (undone \/ kind[c] = "udp")
    /\ RacedIf(count # seen[c])
    /\ UNCHANGED <<cur, maps, ip, kind, sweep, sweeps, connLimit, realtime, later>>

\* The caller: checkLimit goes on with the user's entry and the device limit.
Pass(c) ==
    /\ pc[c] = "passed"
    /\ Goto(c, "open")
    /\ UNCHANGED <<user, call, sweep, sweeps, conf, raced>>

RejectLater(c) ==
    /\ pc[c] = "passed"
    /\ Goto(c, "idle")
    /\ later' = IF kind[c] = "tcp" THEN later + 1 ELSE later
    /\ later' <= MaxLater
    /\ UNCHANGED <<user, call, sweep, sweeps, connLimit, realtime, undone, raced>>

-----------------------------------------------------------------------------
(* DelConnCount *)

CloseUDP(c) ==
    /\ pc[c] = "open" /\ kind[c] = "udp"
    /\ Goto(c, "idle")
    /\ UNCHANGED <<user, call, sweep, sweeps, conf, raced>>

CloseTCP(c) ==
    /\ pc[c] = "open" /\ kind[c] = "tcp"
    /\ Goto(c, "delLoad")
    /\ UNCHANGED <<user, call, sweep, sweeps, conf, raced>>

AfterCount == IF realtime /\ IPLimit # 0 THEN "ipDelGet" ELSE "idle"

DelLoad(c) ==
    /\ pc[c] = "delLoad"
    /\ IF connLimit = 0 \/ count = 0 THEN Drop(c, AfterCount)
       ELSE See(c, count) /\ Goto(c, "delStore") /\ UNCHANGED held
    /\ UNCHANGED <<user, ip, kind, sweep, sweeps, conf, raced>>

DelStore(c) ==
    /\ pc[c] = "delStore"
    /\ count' = seen[c] - 1
    /\ Drop(c, AfterCount)
    /\ RacedIf(count # seen[c])
    /\ UNCHANGED <<cur, maps, ip, kind, sweep, sweeps, conf>>

IPDelGet(c) ==
    /\ pc[c] = "ipDelGet"
    /\ IF cur = NoMap THEN Drop(c, "idle")
       ELSE Hold(c, cur) /\ Goto(c, "ipDelLoad") /\ UNCHANGED seen
    /\ UNCHANGED <<user, ip, kind, sweep, sweeps, conf, raced>>

IPDelLoad(c) ==
    /\ pc[c] = "ipDelLoad"
    /\ LET entry == maps[held[c]][ip[c]]
       IN  IF entry = 0 THEN Drop(c, "idle")
           ELSE See(c, entry) /\ Goto(c, "ipDelStore") /\ UNCHANGED held
    /\ UNCHANGED <<user, ip, kind, sweep, sweeps, conf, raced>>

\* An entry of 2 is deleted, any other is lowered by 2 (even one of 1).
IPDelStore(c) ==
    /\ pc[c] = "ipDelStore"
    /\ Put(held[c], ip[c], seen[c] - 2)
    /\ Goto(c, "ipDelCheck")
    /\ RacedIf(held[c] # cur \/ maps[held[c]][ip[c]] # seen[c])
    /\ UNCHANGED <<count, cur, call, sweep, sweeps, conf>>

\* isSyncMapEmpty; the map is then deleted from c.ip, whichever it is by now.
IPDelCheck(c) ==
    /\ pc[c] = "ipDelCheck"
    /\ IF Online(held[c]) = {} THEN Goto(c, "ipDelDrop") /\ UNCHANGED <<held, seen>>
       ELSE Drop(c, "idle")
    /\ UNCHANGED <<user, ip, kind, sweep, sweeps, conf, raced>>

IPDelDrop(c) ==
    /\ pc[c] = "ipDelDrop"
    /\ cur' = NoMap
    /\ Drop(c, "idle")
    /\ RacedIf(held[c] # cur \/ Online(held[c]) # {})
    /\ UNCHANGED <<count, maps, ip, kind, sweep, sweeps, conf>>

-----------------------------------------------------------------------------
(* ClearOnlineIP *)

SweepStart ==
    /\ sweep.map = NoMap /\ cur # NoMap
    /\ sweeps < MaxSweeps /\ sweeps' = sweeps + 1
    /\ sweep' = [NoSweep EXCEPT !.map = cur, !.todo = IP]
    /\ UNCHANGED <<user, pc, call, conf, raced>>

\* Packet entries are due (realtime), old ones are (not realtime).
SweepLoad(i) ==
    /\ sweep.map # NoMap /\ sweep.due = {} /\ i \in sweep.todo
    /\ LET entry == maps[sweep.map][i]
           looked == [sweep EXCEPT !.todo = @ \ {i}]
       IN  \/ entry = 0 /\ sweep' = looked
           \/ entry # 0 /\ (realtime => entry = 1) /\ sweep' = [looked EXCEPT !.due = {i}]
           \/ entry # 0 /\ (realtime => entry # 1) /\ sweep' = [looked EXCEPT !.kept = TRUE]
    /\ UNCHANGED <<user, pc, call, sweeps, conf, raced>>

SweepDelete(i) ==
    /\ i \in sweep.due
    /\ Put(sweep.map, i, 0)
    /\ sweep' = [sweep EXCEPT !.due = {}]
    /\ RacedIf(maps[sweep.map][i] # 1)
    /\ UNCHANGED <<count, cur, pc, call, sweeps, conf>>

\* Nothing stays, or nothing is left: the map goes, as it is and whichever it is.
SweepCheck ==
    /\ sweep.map # NoMap /\ sweep.todo = {} /\ sweep.due = {} /\ ~sweep.drop
    /\ sweep' = IF ~sweep.kept \/ Online(sweep.map) = {} THEN [sweep EXCEPT !.drop = TRUE]
                ELSE NoSweep
    /\ UNCHANGED <<user, pc, call, sweeps, conf, raced>>

SweepDrop ==
    /\ sweep.drop
    /\ cur' = NoMap
    /\ sweep' = NoSweep
    /\ RacedIf(cur # sweep.map \/ Online(sweep.map) # {})
    /\ UNCHANGED <<count, maps, pc, call, sweeps, conf>>

ClearOnlineIP ==
    \/ SweepStart \/ SweepCheck \/ SweepDrop
    \/ \E i \in IP : SweepLoad(i) \/ SweepDelete(i)

-----------------------------------------------------------------------------
Step(c) ==
    \/ CheckConnLimit(c) \/ AddLoad(c) \/ AddStore(c)
    \/ IPGet(c) \/ IPLoad(c) \/ IPRange(c) \/ IPStore(c)
    \/ UndoLoad(c) \/ UndoStore(c)
    \/ DelLoad(c) \/ DelStore(c)
    \/ IPDelGet(c) \/ IPDelLoad(c) \/ IPDelStore(c) \/ IPDelCheck(c) \/ IPDelDrop(c)

Next ==
    \/ \E c \in Conn :
          \/ \E i \in IP, k \in Kinds : Accept(c, i, k)
          \/ Step(c)
          \/ Pass(c) \/ RejectLater(c)
          \/ CloseUDP(c) \/ CloseTCP(c)
    \/ ClearOnlineIP

Spec == Init /\ [][Next]_vars

-----------------------------------------------------------------------------
(* Properties *)

Calm == sweep.map = NoMap /\ \A c \in Conn : pc[c] \in Outside
OpenTCP == {c \in Conn : pc[c] \in {"passed", "open"} /\ kind[c] = "tcp"}

\* A slot of the connection limit is held by each TCP connection that is open and
\* lost to each that checkLimit, or a rule of sing, has rejected since, and to nothing
\* else, as long as no packet connection has taken a slot back that it never had.
CountIsExact ==
    connLimit # 0 /\ ~undone => count = Cardinality(OpenTCP) + later

\* An address is online for the IP limit as long as it has a TCP connection,
\* and no longer (realtime).
IPSlotsAreExact ==
    realtime /\ IPLimit # 0 /\ later = 0 =>
        \A i \in IP : Registered(i) \div 2 = Cardinality({c \in OpenTCP : ip[c] = i})

\* conn.go:139-142, 150-153: the slots of both limits are held by the connections
\* that are open, but those that late rejections have cost, however the calls and the
\* sweep overlap, until one of them writes over what it has not seen.
SlotsAreExact == ~raced /\ Calm => CountIsExact /\ IPSlotsAreExact

\* conn.go:139-142, 151-153: a user without connections is not locked out by
\* slots that rejected or closed connections have left behind.
NoSlotLeaked == Calm /\ OpenTCP = {} => count = 0

\* The limits themselves, under the same condition: never more TCP connections
\* than ConnLimit, and never more addresses than IPLimit, packet connections
\* included, whether or not connections are rejected later on.
LimitsHold ==
    ~raced =>
        /\ connLimit # 0 /\ ~undone => Cardinality(OpenTCP) <= connLimit
        /\ IPLimit # 0 => Cardinality(OnlineIPs) <= IPLimit
=============================================================================
