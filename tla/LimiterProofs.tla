---------------------------- MODULE LimiterProofs ----------------------------
(***************************************************************************)
(* Proofs about Limiter, for any users, addresses and connections, any     *)
(* limits, and any number of changes of the user list.                     *)
(***************************************************************************)
EXTENDS Limiter, FiniteSetTheorems, TLAPS

\* The entry of a user with a limit of its plan is only ever taken out by
\* UpdateUser, so Touch and Add see its uid as long as the user stays.
StableKnown == \A u \in Stable : info[u] # "absent"

\* A connection that is about to take back what it stored in the window
Undoing(c) == pc[c] \in {"undoIP", "undoMap"}

\* What is remembered was admitted, but for what a rejection is about to take out.
RememberedIsAdmitted ==
    ~crossed =>
        \A u \in User, i \in IP :
            /\ old[i] = u => <<u, i>> \in admitted
            /\ u \in window /\ i \in winIPs[u] =>
                  <<u, i>> \in admitted \/ \E c \in Conn : Undoing(c) /\ DeviceOf(c) = <<u, i>>

IndInv == TypeOK /\ StableKnown /\ RefsAreExact /\ RememberedIsAdmitted

\* The device of a connection is one of the devices.
LEMMA DeviceOfType ==
  ASSUME TypeOK, NEW c \in Conn
  PROVE  DeviceOf(c) \in Device
BY DEF TypeOK, DeviceOf, Device

\* Every step keeps the variables within their types.
LEMMA TypeStep ==
  ASSUME TypeOK, [Next]_vars
  PROVE  TypeOK'
<1> USE LimiterAssumption
    DEF LimiterAssumption, TypeOK, Idle, Device, limitVars, windowVars, onlineVars, connVars
<1>1. ASSUME NEW c \in Conn, NEW u \in User, NEW i \in IP, NEW noSSUDP \in BOOLEAN,
             CheckLimit(c, u, i, noSSUDP)
      PROVE  TypeOK'
  BY <1>1 DEF CheckLimit, Goto
<1>2. ASSUME NEW c \in Conn, NEW noSSUDP \in BOOLEAN, DropExpiredLimit(c, noSSUDP)
      PROVE  TypeOK'
  BY <1>2 DEF DropExpiredLimit, Goto
<1>3. ASSUME NEW c \in Conn, CheckDeviceInWindow(c) PROVE TypeOK'
  BY <1>3 DEF CheckDeviceInWindow, Goto, DeviceOf
<1>4. ASSUME NEW c \in Conn, CheckFirstDevice(c) PROVE TypeOK'
  BY <1>4, SMTT(30) DEF CheckFirstDevice, Goto, DeviceOf
<1>5. ASSUME NEW c \in Conn, RejectDevice(c) PROVE TypeOK'
  BY <1>5 DEF RejectDevice, Goto
<1>6. ASSUME NEW c \in Conn, RejectFirstDevice(c) PROVE TypeOK'
  BY <1>6 DEF RejectFirstDevice, DropMaps
<1>7. ASSUME NEW c \in Conn, RejectReturns(c) PROVE TypeOK'
  BY <1>7 DEF RejectReturns, Goto
<1>8. ASSUME NEW c \in Conn, Touch(c) PROVE TypeOK'
  BY <1>8 DEF Touch, SeeDevice, DeviceOf, Goto
<1>9. ASSUME NEW c \in Conn, Add(c) PROVE TypeOK'
  <2>0. DeviceOf(c) \in Device
    BY DeviceOfType
  <2> HIDE DEF Device
  <2>1. /\ online' \subseteq Device /\ fresh' \subseteq online'
        /\ refs' \in [Device -> Nat] /\ counted' \subseteq Conn
    BY <1>9, <2>0 DEF Add, SeeDevice
  <2>2. \A d \in Device : d \notin online' => refs'[d] = 0
    BY <1>9, <2>0 DEF Add, SeeDevice
  <2>3. pc' \in [Conn -> {Idle, "expire", "device", "undoIP", "undoMap", "rejected",
                        "touch", "add", "open"}]
    BY <1>9 DEF Add, Goto
  <2> QED BY <1>9, <2>1, <2>2, <2>3 DEF Add
<1>10. ASSUME NEW c \in Conn, RejectByRule(c) PROVE TypeOK'
  BY <1>10 DEF RejectByRule, Goto
<1>11. ASSUME NEW c \in Conn, Del(c) PROVE TypeOK'
  <2>0. DeviceOf(c) \in Device
    BY DeviceOfType
  <2> HIDE DEF Device
  <2>1. /\ fresh' \subseteq online /\ counted' \subseteq Conn /\ online' = online
        /\ refs' \in [Device -> Nat]
    BY <1>11, <2>0 DEF Del
  <2>2. \A d \in Device : d \notin online' => refs'[d] = 0
    BY <1>11, <2>0 DEF Del
  <2>3. pc' \in [Conn -> {Idle, "expire", "device", "undoIP", "undoMap", "rejected",
                        "touch", "add", "open"}]
    BY <1>11 DEF Del, Goto
  <2> QED BY <1>11, <2>1, <2>2, <2>3 DEF Del
<1>12. ASSUME NEW d \in Device, Age(d) PROVE TypeOK'
  BY <1>12 DEF Age
<1>13. CASE Sweep
  BY <1>13 DEF Sweep
<1>14. CASE Rotate
  BY <1>14 DEF Rotate
<1>15. ASSUME NEW u \in User, RotateUser(u) PROVE TypeOK'
  BY <1>15 DEF RotateUser, DropMaps
<1>16. ASSUME NEW i \in IP, ForgetOld(i) PROVE TypeOK'
  BY <1>16 DEF ForgetOld
<1>17. ASSUME NEW counts \in [User -> 0..MaxAlive], SetAliveList(counts) PROVE TypeOK'
  BY <1>17 DEF SetAliveList
<1>18. CASE AliveUnavailable
  BY <1>18 DEF AliveUnavailable, SetAliveList
<1>19. ASSUME NEW newList \in SUBSET User, NEW modified \in SUBSET User,
             UpdateUserDelete(newList, modified)
       PROVE  TypeOK'
  BY <1>19 DEF UpdateUserDelete, DropMaps
<1>20. CASE UpdateUserAdd
  BY <1>20 DEF UpdateUserAdd
<1>21. ASSUME NEW u \in User, UpdateDynamicSpeedLimit(u) PROVE TypeOK'
  BY <1>21 DEF UpdateDynamicSpeedLimit
<1>22. ASSUME NEW u \in User, LimitExpires(u) PROVE TypeOK'
  BY <1>22 DEF LimitExpires
<1>23. CASE UNCHANGED vars
  BY <1>23 DEF vars
<1> HIDE DEF TypeOK, Device, limitVars, windowVars, onlineVars, connVars
<1> QED
  BY <1>1, <1>2, <1>3, <1>4, <1>5, <1>6, <1>7, <1>8, <1>9, <1>10, <1>11, <1>12, <1>13,
     <1>14, <1>15, <1>16, <1>17, <1>18, <1>19, <1>20, <1>21, <1>22, <1>23
  DEF Next, ConnStep

\* Every step keeps the entries of the users that stay.
LEMMA StableStep ==
  ASSUME TypeOK, StableKnown, [Next]_vars
  PROVE  StableKnown'
<1> USE LimiterAssumption
    DEF LimiterAssumption, TypeOK, Idle, Device, 
        StableKnown, Stable, limitVars, windowVars, onlineVars, connVars
<1>1. ASSUME NEW c \in Conn, NEW u \in User, NEW i \in IP, NEW noSSUDP \in BOOLEAN,
             CheckLimit(c, u, i, noSSUDP)
      PROVE  StableKnown'
  BY <1>1 DEF CheckLimit, Goto
<1>2. ASSUME NEW c \in Conn, NEW noSSUDP \in BOOLEAN, DropExpiredLimit(c, noSSUDP)
      PROVE  StableKnown'
  BY <1>2 DEF DropExpiredLimit, Goto
<1>3. ASSUME NEW c \in Conn, CheckDeviceInWindow(c) PROVE StableKnown'
  BY <1>3 DEF CheckDeviceInWindow, Goto, DeviceOf
<1>4. ASSUME NEW c \in Conn, CheckFirstDevice(c) PROVE StableKnown'
  BY <1>4 DEF CheckFirstDevice, Goto, DeviceOf
<1>5. ASSUME NEW c \in Conn, RejectDevice(c) PROVE StableKnown'
  BY <1>5 DEF RejectDevice, Goto
<1>6. ASSUME NEW c \in Conn, RejectFirstDevice(c) PROVE StableKnown'
  BY <1>6 DEF RejectFirstDevice, DropMaps
<1>7. ASSUME NEW c \in Conn, RejectReturns(c) PROVE StableKnown'
  BY <1>7 DEF RejectReturns, Goto
<1>8. ASSUME NEW c \in Conn, Touch(c) PROVE StableKnown'
  BY <1>8 DEF Touch, SeeDevice, DeviceOf, Goto
<1>9. ASSUME NEW c \in Conn, Add(c) PROVE StableKnown'
  BY <1>9 DEF Add, SeeDevice, DeviceOf, Goto
<1>10. ASSUME NEW c \in Conn, RejectByRule(c) PROVE StableKnown'
  BY <1>10 DEF RejectByRule, Goto
<1>11. ASSUME NEW c \in Conn, Del(c) PROVE StableKnown'
  BY <1>11 DEF Del, DeviceOf, Goto
<1>12. ASSUME NEW d \in Device, Age(d) PROVE StableKnown'
  BY <1>12 DEF Age
<1>13. CASE Sweep
  BY <1>13 DEF Sweep
<1>14. CASE Rotate
  BY <1>14 DEF Rotate
<1>15. ASSUME NEW u \in User, RotateUser(u) PROVE StableKnown'
  BY <1>15 DEF RotateUser, DropMaps
<1>16. ASSUME NEW i \in IP, ForgetOld(i) PROVE StableKnown'
  BY <1>16 DEF ForgetOld
<1>17. ASSUME NEW counts \in [User -> 0..MaxAlive], SetAliveList(counts) PROVE StableKnown'
  BY <1>17 DEF SetAliveList
<1>18. CASE AliveUnavailable
  BY <1>18 DEF AliveUnavailable, SetAliveList
<1>19. ASSUME NEW newList \in SUBSET User, NEW modified \in SUBSET User,
             UpdateUserDelete(newList, modified)
       PROVE  StableKnown'
  BY <1>19 DEF UpdateUserDelete, DropMaps
<1>20. CASE UpdateUserAdd
  BY <1>20 DEF UpdateUserAdd
<1>21. ASSUME NEW u \in User, UpdateDynamicSpeedLimit(u) PROVE StableKnown'
  BY <1>21 DEF UpdateDynamicSpeedLimit
<1>22. ASSUME NEW u \in User, LimitExpires(u) PROVE StableKnown'
  BY <1>22 DEF LimitExpires
<1>23. CASE UNCHANGED vars
  BY <1>23 DEF vars
<1> QED
  BY <1>1, <1>2, <1>3, <1>4, <1>5, <1>6, <1>7, <1>8, <1>9, <1>10, <1>11, <1>12, <1>13,
     <1>14, <1>15, <1>16, <1>17, <1>18, <1>19, <1>20, <1>21, <1>22, <1>23
  DEF Next, ConnStep

\* Every step preserves RememberedIsAdmitted.
LEMMA RememberedStep ==
  ASSUME TypeOK, RememberedIsAdmitted, [Next]_vars
  PROVE  RememberedIsAdmitted'
<1> USE LimiterAssumption
    DEF LimiterAssumption, TypeOK, Idle, Device, 
        RememberedIsAdmitted, Undoing, DeviceOf, limitVars, windowVars, onlineVars, connVars
<1>1. ASSUME NEW c \in Conn, NEW u \in User, NEW i \in IP, NEW noSSUDP \in BOOLEAN,
             CheckLimit(c, u, i, noSSUDP)
      PROVE  RememberedIsAdmitted'
  BY <1>1 DEF CheckLimit, Goto
<1>2. ASSUME NEW c \in Conn, NEW noSSUDP \in BOOLEAN, DropExpiredLimit(c, noSSUDP)
      PROVE  RememberedIsAdmitted'
  BY <1>2 DEF DropExpiredLimit, Goto
<1>3. ASSUME NEW c \in Conn, CheckDeviceInWindow(c) PROVE RememberedIsAdmitted'
  BY <1>3 DEF CheckDeviceInWindow, Goto, DeviceOf
<1>4. ASSUME NEW c \in Conn, CheckFirstDevice(c) PROVE RememberedIsAdmitted'
  <2> SUFFICES ASSUME ~crossed', NEW u \in User, NEW i \in IP
               PROVE  /\ old'[i] = u => <<u, i>> \in admitted'
                      /\ u \in window' /\ i \in winIPs'[u] =>
                            \/ <<u, i>> \in admitted'
                            \/ \E k \in Conn : Undoing(k)' /\ DeviceOf(k)' = <<u, i>>
    OBVIOUS
  <2>1. ~crossed /\ admitted \subseteq admitted' /\ UNCHANGED <<user, ip>>
    BY <1>4 DEF CheckFirstDevice
  <2>2. old'[i] = u => <<u, i>> \in admitted'
    BY <1>4, <2>1 DEF CheckFirstDevice
  <2>3. CASE u = user[c]
    <3>1. i \in winIPs'[u] => i = ip[c]
      BY <1>4, <2>3 DEF CheckFirstDevice
    <3>2. Undoing(c)' \/ DeviceOf(c) \in admitted'
      BY <1>4 DEF CheckFirstDevice, Goto
    <3> QED BY <2>1, <2>2, <2>3, <3>1, <3>2
  <2>4. CASE u # user[c]
    <3>1. winIPs'[u] = winIPs[u] /\ (u \in window' => u \in window)
      BY <1>4, <2>4 DEF CheckFirstDevice
    <3>2. \A k \in Conn : Undoing(k) => Undoing(k)'
      BY <1>4 DEF CheckFirstDevice, Goto
    <3> QED BY <2>1, <2>2, <3>1, <3>2
  <2> QED BY <2>3, <2>4
<1>5. ASSUME NEW c \in Conn, RejectDevice(c) PROVE RememberedIsAdmitted'
  BY <1>5 DEF RejectDevice, Goto
<1>6. ASSUME NEW c \in Conn, RejectFirstDevice(c) PROVE RememberedIsAdmitted'
  BY <1>6 DEF RejectFirstDevice, DropMaps
<1>7. ASSUME NEW c \in Conn, RejectReturns(c) PROVE RememberedIsAdmitted'
  BY <1>7 DEF RejectReturns, Goto
<1>8. ASSUME NEW c \in Conn, Touch(c) PROVE RememberedIsAdmitted'
  BY <1>8 DEF Touch, SeeDevice, DeviceOf, Goto
<1>9. ASSUME NEW c \in Conn, Add(c) PROVE RememberedIsAdmitted'
  BY <1>9 DEF Add, SeeDevice, DeviceOf, Goto
<1>10. ASSUME NEW c \in Conn, RejectByRule(c) PROVE RememberedIsAdmitted'
  BY <1>10 DEF RejectByRule, Goto
<1>11. ASSUME NEW c \in Conn, Del(c) PROVE RememberedIsAdmitted'
  BY <1>11 DEF Del, DeviceOf, Goto
<1>12. ASSUME NEW d \in Device, Age(d) PROVE RememberedIsAdmitted'
  BY <1>12 DEF Age
<1>13. CASE Sweep
  BY <1>13 DEF Sweep
<1>14. CASE Rotate
  BY <1>14 DEF Rotate
<1>15. ASSUME NEW u \in User, RotateUser(u) PROVE RememberedIsAdmitted'
  <2>1. ~crossed' => ~crossed /\ ~Rejecting
    BY <1>15, Zenon DEF RotateUser
  <2> SUFFICES ASSUME ~crossed, ~Rejecting, NEW v \in User, NEW i \in IP
               PROVE  /\ old'[i] = v => <<v, i>> \in admitted'
                      /\ v \in window' /\ i \in winIPs'[v] => <<v, i>> \in admitted'
    BY <2>1
  <2>2. \A k \in Conn : ~Undoing(k)
    BY DEF Rejecting
  <2>3. v \in window /\ i \in winIPs[v] => <<v, i>> \in admitted
    BY <2>2
  <2>4. admitted' = admitted /\ (v \in window' => v \in window /\ v # u)
    BY <1>15 DEF RotateUser
  <2>5. old'[i] = v => old[i] = v \/ (v \in window /\ i \in winIPs[v])
    BY <1>15 DEF RotateUser
  <2>6. v # u => winIPs'[v] = winIPs[v]
    BY <1>15 DEF RotateUser
  <2> QED BY <2>3, <2>4, <2>5, <2>6
<1>16. ASSUME NEW i \in IP, ForgetOld(i) PROVE RememberedIsAdmitted'
  BY <1>16, ZenonT(30) DEF ForgetOld
<1>17. ASSUME NEW counts \in [User -> 0..MaxAlive], SetAliveList(counts) PROVE RememberedIsAdmitted'
  BY <1>17 DEF SetAliveList
<1>18. CASE AliveUnavailable
  BY <1>18 DEF AliveUnavailable, SetAliveList
<1>19. ASSUME NEW newList \in SUBSET User, NEW modified \in SUBSET User,
             UpdateUserDelete(newList, modified)
       PROVE  RememberedIsAdmitted'
  BY <1>19, ZenonT(30) DEF UpdateUserDelete, DropMaps
<1>20. CASE UpdateUserAdd
  BY <1>20 DEF UpdateUserAdd
<1>21. ASSUME NEW u \in User, UpdateDynamicSpeedLimit(u) PROVE RememberedIsAdmitted'
  BY <1>21 DEF UpdateDynamicSpeedLimit
<1>22. ASSUME NEW u \in User, LimitExpires(u) PROVE RememberedIsAdmitted'
  BY <1>22 DEF LimitExpires
<1>23. CASE UNCHANGED vars
  BY <1>23 DEF vars
<1> HIDE DEF TypeOK, RememberedIsAdmitted, Device, limitVars, windowVars, onlineVars, connVars
<1> QED
  BY <1>1, <1>2, <1>3, <1>4, <1>5, <1>6, <1>7, <1>8, <1>9, <1>10, <1>11, <1>12, <1>13,
     <1>14, <1>15, <1>16, <1>17, <1>18, <1>19, <1>20, <1>21, <1>22, <1>23
  DEF Next, ConnStep

\* A step that leaves the references and the open connections alone
RefsUntouched ==
    /\ \A d \in Device : OpenAt(d)' = OpenAt(d)
    /\ online \subseteq online'
    /\ UNCHANGED <<refs, counted, changed>>

\* Such a step keeps the count exact.
LEMMA UntouchedStaysExact ==
  ASSUME TypeOK, RefsAreExact, RefsUntouched
  PROVE  RefsAreExact'
BY DEF TypeOK, RefsAreExact, RefsUntouched, Stable

\* There are finitely many open connections.
LEMMA OpenFinite ==
  ASSUME NEW d
  PROVE  /\ IsFiniteSet(OpenAt(d)) /\ Cardinality(OpenAt(d)) \in Nat
         /\ IsFiniteSet(OpenAt(d) \cap counted) /\ Cardinality(OpenAt(d) \cap counted) \in Nat
<1>1. OpenAt(d) \subseteq Conn /\ OpenAt(d) \cap counted \subseteq Conn
  BY DEF OpenAt
<1> QED BY <1>1, LimiterAssumption, FS_Subset, FS_CardinalityType DEF LimiterAssumption

\* RefsAreExact, of one device
ExactAt(d) ==
    /\ refs[d] <= Cardinality(OpenAt(d) \cap counted)
    /\ d[1] \in Stable =>
          /\ refs[d] = Cardinality(OpenAt(d))
          /\ OpenAt(d) # {} => d \in online

\* A connection is registered: one more is open, and one more is counted if its user
\* has an entry, as every user has that stays.
LEMMA AddStaysExact ==
  ASSUME TypeOK, StableKnown, RefsAreExact, NEW c \in Conn, Add(c)
  PROVE  RefsAreExact'
<1> SUFFICES ASSUME NEW d \in Device PROVE ExactAt(d)'
  BY Zenon DEF RefsAreExact, ExactAt
<1>0. ExactAt(d)
  BY DEF RefsAreExact, ExactAt
<1>1. DeviceOf(c) \in Device
  BY DeviceOfType
<1>2. pc'[c] = "open" /\ c \notin OpenAt(d) /\ Stable' = Stable /\ refs[d] \in Nat
  BY DEF Add, Goto, OpenAt, Stable, limitVars, TypeOK
<1>3. CASE d # DeviceOf(c)
  <2>1. OpenAt(d)' = OpenAt(d)
    BY <1>3 DEF Add, Goto, OpenAt, DeviceOf, TypeOK
  <2>2. OpenAt(d) \cap counted' = OpenAt(d) \cap counted
    BY <1>2 DEF Add, onlineVars
  <2>3. refs'[d] = refs[d] /\ (d \in online => d \in online')
    BY <1>1, <1>3 DEF Add, SeeDevice, onlineVars, TypeOK
  <2> QED BY <1>0, <1>2, <2>1, <2>2, <2>3 DEF ExactAt
<1>4. CASE d = DeviceOf(c)
  <2>1. OpenAt(d)' = OpenAt(d) \cup {c}
    BY <1>2, <1>4 DEF Add, Goto, OpenAt, DeviceOf, TypeOK
  <2>2. Cardinality(OpenAt(d)') = Cardinality(OpenAt(d)) + 1
    BY <1>2, <2>1, OpenFinite, FS_AddElement
  <2>3. CASE info[user[c]] # "absent"
    <3>1. refs'[d] = refs[d] + 1 /\ counted' = counted \cup {c} /\ d \in online'
      BY <1>1, <1>4, <2>3 DEF Add, SeeDevice, TypeOK
    <3>2. OpenAt(d)' \cap counted' = (OpenAt(d) \cap counted) \cup {c}
      BY <2>1, <3>1
    <3>3. Cardinality(OpenAt(d)' \cap counted') = Cardinality(OpenAt(d) \cap counted) + 1
      BY <1>2, <3>2, OpenFinite, FS_AddElement
    <3> QED BY <1>0, <1>2, <2>2, <3>1, <3>3, OpenFinite DEF ExactAt
  <2>4. CASE info[user[c]] = "absent"
    <3>1. d[1] \notin Stable
      BY <1>4, <2>4 DEF StableKnown, DeviceOf
    <3>2. UNCHANGED <<refs, counted>>
      BY <2>4 DEF Add, onlineVars
    <3>3. OpenAt(d) \cap counted \subseteq OpenAt(d)' \cap counted'
      BY <2>1, <3>2
    <3>4. OpenAt(d)' \cap counted' \subseteq Conn
      BY DEF OpenAt
    <3>5. IsFiniteSet(OpenAt(d)' \cap counted')
      BY <3>4, FS_Subset, LimiterAssumption DEF LimiterAssumption
    <3>6. /\ Cardinality(OpenAt(d) \cap counted) <= Cardinality(OpenAt(d)' \cap counted')
          /\ Cardinality(OpenAt(d)' \cap counted') \in Nat
      BY <3>3, <3>5, FS_Subset, FS_CardinalityType
    <3> QED BY <1>0, <1>2, <3>1, <3>2, <3>6, OpenFinite DEF ExactAt
  <2> QED BY <2>3, <2>4
<1> QED BY <1>3, <1>4

\* A connection is closed: one reference less, but for a device that was deleted.
LEMMA DelStaysExact ==
  ASSUME TypeOK, RefsAreExact, NEW c \in Conn, Del(c)
  PROVE  RefsAreExact'
<1> SUFFICES ASSUME NEW d \in Device PROVE ExactAt(d)'
  BY Zenon DEF RefsAreExact, ExactAt
<1>0. ExactAt(d)
  BY DEF RefsAreExact, ExactAt
<1>1. DeviceOf(c) \in Device
  BY DeviceOfType
<1>2. /\ pc[c] = "open" /\ pc'[c] # "open"
      /\ Stable' = Stable /\ refs[d] \in Nat /\ online' = online
  BY DEF Del, Goto, Stable, limitVars, TypeOK, Idle
<1>3. CASE d # DeviceOf(c)
  <2>1. OpenAt(d)' = OpenAt(d) /\ c \notin OpenAt(d)
    BY <1>3 DEF Del, Goto, OpenAt, DeviceOf, TypeOK
  <2>2. OpenAt(d) \cap counted' = OpenAt(d) \cap counted
    BY <2>1 DEF Del
  <2>3. refs'[d] = refs[d]
    BY <1>1, <1>3 DEF Del, TypeOK
  <2> QED BY <1>0, <1>2, <2>1, <2>2, <2>3 DEF ExactAt
<1>4. CASE d = DeviceOf(c)
  <2>1. OpenAt(d)' = OpenAt(d) \ {c} /\ c \in OpenAt(d)
    BY <1>2, <1>4 DEF Del, Goto, OpenAt, DeviceOf, TypeOK
  <2>2. Cardinality(OpenAt(d)') = Cardinality(OpenAt(d)) - 1
    BY <2>1, OpenFinite, FS_RemoveElement
  <2>3. OpenAt(d)' \cap counted' = (OpenAt(d) \cap counted) \ {c}
    BY <2>1 DEF Del
  <2>4. c \in counted => /\ Cardinality(OpenAt(d)' \cap counted') =
                               Cardinality(OpenAt(d) \cap counted) - 1
                         /\ Cardinality(OpenAt(d) \cap counted) # 0
    <3> SUFFICES ASSUME c \in counted
                 PROVE  /\ Cardinality((OpenAt(d) \cap counted) \ {c}) =
                               Cardinality(OpenAt(d) \cap counted) - 1
                        /\ Cardinality(OpenAt(d) \cap counted) # 0
      BY <2>3
    <3>1. c \in OpenAt(d) \cap counted
      BY <2>1
    <3> QED BY <3>1, OpenFinite, FS_RemoveElement, FS_EmptySet
  <2>5. c \notin counted => Cardinality(OpenAt(d)' \cap counted') =
                             Cardinality(OpenAt(d) \cap counted)
    <3>1. c \notin counted => OpenAt(d)' \cap counted' = OpenAt(d) \cap counted
      BY <2>3
    <3> QED BY <3>1, Zenon
  <2>6. refs'[d] = IF refs[d] > 0 THEN refs[d] - 1 ELSE 0
    BY <1>1, <1>4 DEF Del, TypeOK
  <2>7. Cardinality(OpenAt(d)) # 0
    BY <2>1, OpenFinite, FS_EmptySet
  <2>8. refs'[d] <= Cardinality(OpenAt(d)' \cap counted')
    <3>1. /\ refs[d] <= Cardinality(OpenAt(d) \cap counted)
          /\ refs[d] \in Nat /\ Cardinality(OpenAt(d) \cap counted) \in Nat
      BY <1>0, <1>2, OpenFinite DEF ExactAt
    <3>2. CASE c \in counted
      BY <2>4, <2>6, <3>1, <3>2
    <3>3. CASE c \notin counted
      BY <2>5, <2>6, <3>1, <3>3
    <3> QED BY <3>2, <3>3
  <2>9. d[1] \in Stable' => refs'[d] = Cardinality(OpenAt(d)')
    BY <1>0, <1>2, <2>2, <2>6, <2>7, OpenFinite DEF ExactAt
  <2>10. d[1] \in Stable' /\ OpenAt(d)' # {} => d \in online'
    BY <1>0, <1>2, <2>1 DEF ExactAt
  <2> QED BY <2>8, <2>9, <2>10 DEF ExactAt
<1> QED BY <1>3, <1>4

\* Sweep takes out devices without references only.
LEMMA SweepStaysExact ==
  ASSUME TypeOK, RefsAreExact, Sweep
  PROVE  RefsAreExact'
<1> SUFFICES ASSUME NEW d \in Device PROVE ExactAt(d)'
  BY Zenon DEF RefsAreExact, ExactAt
<1>0. ExactAt(d)
  BY DEF RefsAreExact, ExactAt
<1>1. OpenAt(d)' = OpenAt(d) /\ Stable' = Stable /\ UNCHANGED <<refs, counted>>
  BY DEF Sweep, OpenAt, DeviceOf, Stable, limitVars, connVars
<1>2. d \in online /\ refs[d] # 0 => d \in online'
  BY DEF Sweep
<1>3. OpenAt(d) # {} => Cardinality(OpenAt(d)) # 0
  BY OpenFinite, FS_EmptySet
<1> QED BY <1>0, <1>1, <1>2, <1>3 DEF ExactAt

\* UpdateUser drops the references of a deleted user, whose connections go on.
LEMMA DeleteStaysExact ==
  ASSUME TypeOK, RefsAreExact, NEW newList \in SUBSET User, NEW modified \in SUBSET User,
         UpdateUserDelete(newList, modified)
  PROVE  RefsAreExact'
<1> SUFFICES ASSUME NEW d \in Device PROVE ExactAt(d)'
  BY Zenon DEF RefsAreExact, ExactAt
<1>0. ExactAt(d)
  BY DEF RefsAreExact, ExactAt
<1>1. OpenAt(d)' = OpenAt(d) /\ counted' = counted
  BY DEF UpdateUserDelete, DropMaps, OpenAt, DeviceOf, TypeOK
<1>2. refs'[d] = 0 \/ refs'[d] = refs[d]
  BY DEF UpdateUserDelete
<1>3. Stable' \subseteq Stable
  BY DEF UpdateUserDelete, Stable
<1>4. d[1] \in Stable' => refs'[d] = refs[d] /\ (d \in online => d \in online')
  BY DEF UpdateUserDelete, Stable
<1> QED BY <1>0, <1>1, <1>2, <1>3, <1>4, OpenFinite DEF ExactAt

\* Every step keeps the references exact.
LEMMA RefsStep ==
  ASSUME TypeOK, StableKnown, RefsAreExact, [Next]_vars
  PROVE  RefsAreExact'
<1> USE LimiterAssumption
    DEF LimiterAssumption, TypeOK, Idle, Device, limitVars, windowVars, onlineVars, connVars
<1>1. ASSUME NEW c \in Conn, NEW u \in User, NEW i \in IP, NEW noSSUDP \in BOOLEAN,
             CheckLimit(c, u, i, noSSUDP)
      PROVE  RefsAreExact'
  <2>1. RefsUntouched
    BY <1>1 DEF RefsUntouched, OpenAt, DeviceOf, CheckLimit, Goto
  <2> QED BY <2>1, UntouchedStaysExact
<1>2. ASSUME NEW c \in Conn, NEW noSSUDP \in BOOLEAN, DropExpiredLimit(c, noSSUDP)
      PROVE  RefsAreExact'
  <2>1. RefsUntouched
    BY <1>2 DEF RefsUntouched, OpenAt, DeviceOf, DropExpiredLimit, Goto
  <2> QED BY <2>1, UntouchedStaysExact
<1>3. ASSUME NEW c \in Conn, CheckDeviceInWindow(c) PROVE RefsAreExact'
  <2>1. RefsUntouched
    BY <1>3 DEF RefsUntouched, OpenAt, DeviceOf, CheckDeviceInWindow, Goto
  <2> QED BY <2>1, UntouchedStaysExact
<1>4. ASSUME NEW c \in Conn, CheckFirstDevice(c) PROVE RefsAreExact'
  <2>1. RefsUntouched
    BY <1>4 DEF RefsUntouched, OpenAt, DeviceOf, CheckFirstDevice, Goto
  <2> QED BY <2>1, UntouchedStaysExact
<1>5. ASSUME NEW c \in Conn, RejectDevice(c) PROVE RefsAreExact'
  <2>1. RefsUntouched
    BY <1>5 DEF RefsUntouched, OpenAt, DeviceOf, RejectDevice, Goto
  <2> QED BY <2>1, UntouchedStaysExact
<1>6. ASSUME NEW c \in Conn, RejectFirstDevice(c) PROVE RefsAreExact'
  <2>1. RefsUntouched
    BY <1>6 DEF RefsUntouched, OpenAt, DeviceOf, RejectFirstDevice, DropMaps
  <2> QED BY <2>1, UntouchedStaysExact
<1>7. ASSUME NEW c \in Conn, RejectReturns(c) PROVE RefsAreExact'
  <2>1. RefsUntouched
    BY <1>7 DEF RefsUntouched, OpenAt, DeviceOf, RejectReturns, Goto
  <2> QED BY <2>1, UntouchedStaysExact
<1>8. ASSUME NEW c \in Conn, Touch(c) PROVE RefsAreExact'
  <2>1. RefsUntouched
    BY <1>8 DEF RefsUntouched, OpenAt, DeviceOf, Touch, SeeDevice, Goto
  <2> QED BY <2>1, UntouchedStaysExact
<1>9. ASSUME NEW c \in Conn, Add(c) PROVE RefsAreExact'
  BY <1>9, AddStaysExact
<1>10. ASSUME NEW c \in Conn, RejectByRule(c) PROVE RefsAreExact'
  <2>1. RefsUntouched
    BY <1>10 DEF RefsUntouched, OpenAt, DeviceOf, RejectByRule, Goto
  <2> QED BY <2>1, UntouchedStaysExact
<1>11. ASSUME NEW c \in Conn, Del(c) PROVE RefsAreExact'
  BY <1>11, DelStaysExact
<1>12. ASSUME NEW d \in Device, Age(d) PROVE RefsAreExact'
  <2>1. RefsUntouched
    BY <1>12 DEF RefsUntouched, OpenAt, DeviceOf, Age
  <2> QED BY <2>1, UntouchedStaysExact
<1>13. CASE Sweep
  BY <1>13, SweepStaysExact
<1>14. CASE Rotate
  <2>1. RefsUntouched
    BY <1>14 DEF RefsUntouched, OpenAt, DeviceOf, Rotate
  <2> QED BY <2>1, UntouchedStaysExact
<1>15. ASSUME NEW u \in User, RotateUser(u) PROVE RefsAreExact'
  <2>1. RefsUntouched
    BY <1>15 DEF RefsUntouched, OpenAt, DeviceOf, RotateUser, DropMaps
  <2> QED BY <2>1, UntouchedStaysExact
<1>16. ASSUME NEW i \in IP, ForgetOld(i) PROVE RefsAreExact'
  <2>1. RefsUntouched
    BY <1>16 DEF RefsUntouched, OpenAt, DeviceOf, ForgetOld
  <2> QED BY <2>1, UntouchedStaysExact
<1>17. ASSUME NEW counts \in [User -> 0..MaxAlive], SetAliveList(counts) PROVE RefsAreExact'
  <2>1. RefsUntouched
    BY <1>17 DEF RefsUntouched, OpenAt, DeviceOf, SetAliveList
  <2> QED BY <2>1, UntouchedStaysExact
<1>18. CASE AliveUnavailable
  <2>1. RefsUntouched
    BY <1>18 DEF RefsUntouched, OpenAt, DeviceOf, AliveUnavailable, SetAliveList
  <2> QED BY <2>1, UntouchedStaysExact
<1>19. ASSUME NEW newList \in SUBSET User, NEW modified \in SUBSET User,
             UpdateUserDelete(newList, modified)
       PROVE  RefsAreExact'
  BY <1>19, DeleteStaysExact
<1>20. CASE UpdateUserAdd
  <2>1. RefsUntouched
    BY <1>20 DEF RefsUntouched, OpenAt, DeviceOf, UpdateUserAdd
  <2> QED BY <2>1, UntouchedStaysExact
<1>21. ASSUME NEW u \in User, UpdateDynamicSpeedLimit(u) PROVE RefsAreExact'
  <2>1. RefsUntouched
    BY <1>21 DEF RefsUntouched, OpenAt, DeviceOf, UpdateDynamicSpeedLimit
  <2> QED BY <2>1, UntouchedStaysExact
<1>22. ASSUME NEW u \in User, LimitExpires(u) PROVE RefsAreExact'
  <2>1. RefsUntouched
    BY <1>22 DEF RefsUntouched, OpenAt, DeviceOf, LimitExpires
  <2> QED BY <2>1, UntouchedStaysExact
<1>23. CASE UNCHANGED vars
  <2>1. RefsUntouched
    BY <1>23 DEF RefsUntouched, OpenAt, DeviceOf, vars
  <2> QED BY <2>1, UntouchedStaysExact
<1> HIDE DEF TypeOK, Device, limitVars, windowVars, onlineVars, connVars
<1> QED
  BY <1>1, <1>2, <1>3, <1>4, <1>5, <1>6, <1>7, <1>8, <1>9, <1>10, <1>11, <1>12, <1>13,
     <1>14, <1>15, <1>16, <1>17, <1>18, <1>19, <1>20, <1>21, <1>22, <1>23
  DEF Next, ConnStep

\* A new limiter knows every user and no device.
LEMMA InitInvariant == Init => IndInv
<1> SUFFICES ASSUME Init PROVE IndInv
  OBVIOUS
<1> USE LimiterAssumption DEF LimiterAssumption, Init, Idle
<1>1. TypeOK
  <2>1. user \in [Conn -> User] /\ ip \in [Conn -> IP]
    OBVIOUS
  <2>2. diffs \in 0..MaxDiffs /\ alive \in [User -> 0..MaxAlive]
    OBVIOUS
  <2>3. online \subseteq Device /\ refs \in [Device -> Nat] /\ \A d \in Device : refs[d] = 0
    OBVIOUS
  <2> QED BY <2>1, <2>2, <2>3 DEF TypeOK
<1>2. StableKnown
  BY DEF StableKnown, Stable
<1>3. RefsAreExact
  <2> SUFFICES ASSUME NEW d \in Device
               PROVE  refs[d] = 0 /\ OpenAt(d) = {} /\ OpenAt(d) \cap counted = {}
    BY FS_EmptySet DEF RefsAreExact
  <2> QED BY DEF OpenAt
<1>4. RememberedIsAdmitted
  BY DEF RememberedIsAdmitted
<1> QED BY <1>1, <1>2, <1>3, <1>4 DEF IndInv

\* The inductive invariant holds in every state.
LEMMA InvariantHolds == Spec => []IndInv
<1>1. IndInv /\ [Next]_vars => IndInv'
  BY TypeStep, StableStep, RefsStep, RememberedStep DEF IndInv
<1> QED BY <1>1, InitInvariant, PTL DEF Spec

\* limiter.go, online_registry.go: the entries, the window and the registry stay well
\* formed; a device that is not in the registry has no references.
THEOREM TypeCorrect == Spec => []TypeOK
BY InvariantHolds, PTL DEF IndInv

\* online_registry.go:39-43: for any number of connections, users and changes of the
\* user list, the references of a device are exactly its open connections, or at most
\* those when its user was deleted in between.
THEOREM RefsAlwaysExact == Spec => []RefsAreExact
BY InvariantHolds, PTL DEF IndInv

\* limiter.go:41-44: a device that was only ever rejected is never remembered, however
\* many connections of however many users are checked at the same time, unless the
\* window is rotated in the middle of a rejection.
THEOREM RejectedNeverRemembered == Spec => []OnlyAdmittedRemembered
<1>1. IndInv => OnlyAdmittedRemembered
  <2> SUFFICES ASSUME RememberedIsAdmitted, ~Rejecting, ~crossed
               PROVE  \A u \in User, i \in IP :
                         (u \in window /\ i \in winIPs[u]) \/ old[i] = u => <<u, i>> \in admitted
    BY DEF IndInv, OnlyAdmittedRemembered
  <2>1. \A c \in Conn : ~Undoing(c)
    BY DEF Rejecting, Undoing
  <2> QED BY <2>1 DEF RememberedIsAdmitted
<1> QED BY <1>1, InvariantHolds, PTL
\* A user of the node whose plan has a speed limit has an entry, or UpdateUser is about to
\* add it.
PlanEntry == \A u \in listed \cap PlanSpeed : info[u] # "absent" \/ u \in mon

\* Every step keeps the entries of the users with a plan limit.
LEMMA PlanEntryStep ==
  ASSUME TypeOK, PlanEntry, [Next]_vars
  PROVE  PlanEntry'
<1> USE LimiterAssumption
    DEF LimiterAssumption, TypeOK, Idle, Device, 
        PlanEntry, limitVars, windowVars, onlineVars, connVars
<1>1. ASSUME NEW c \in Conn, NEW u \in User, NEW i \in IP, NEW noSSUDP \in BOOLEAN,
             CheckLimit(c, u, i, noSSUDP)
      PROVE  PlanEntry'
  BY <1>1 DEF CheckLimit, Goto
<1>2. ASSUME NEW c \in Conn, NEW noSSUDP \in BOOLEAN, DropExpiredLimit(c, noSSUDP)
      PROVE  PlanEntry'
  BY <1>2 DEF DropExpiredLimit, Goto
<1>3. ASSUME NEW c \in Conn, CheckDeviceInWindow(c) PROVE PlanEntry'
  BY <1>3 DEF CheckDeviceInWindow, Goto, DeviceOf
<1>4. ASSUME NEW c \in Conn, CheckFirstDevice(c) PROVE PlanEntry'
  BY <1>4 DEF CheckFirstDevice, Goto, DeviceOf
<1>5. ASSUME NEW c \in Conn, RejectDevice(c) PROVE PlanEntry'
  BY <1>5 DEF RejectDevice, Goto
<1>6. ASSUME NEW c \in Conn, RejectFirstDevice(c) PROVE PlanEntry'
  BY <1>6 DEF RejectFirstDevice, DropMaps
<1>7. ASSUME NEW c \in Conn, RejectReturns(c) PROVE PlanEntry'
  BY <1>7 DEF RejectReturns, Goto
<1>8. ASSUME NEW c \in Conn, Touch(c) PROVE PlanEntry'
  BY <1>8 DEF Touch, SeeDevice, DeviceOf, Goto
<1>9. ASSUME NEW c \in Conn, Add(c) PROVE PlanEntry'
  BY <1>9 DEF Add, SeeDevice, DeviceOf, Goto
<1>10. ASSUME NEW c \in Conn, RejectByRule(c) PROVE PlanEntry'
  BY <1>10 DEF RejectByRule, Goto
<1>11. ASSUME NEW c \in Conn, Del(c) PROVE PlanEntry'
  BY <1>11 DEF Del, DeviceOf, Goto
<1>12. ASSUME NEW d \in Device, Age(d) PROVE PlanEntry'
  BY <1>12 DEF Age
<1>13. CASE Sweep
  BY <1>13 DEF Sweep
<1>14. CASE Rotate
  BY <1>14 DEF Rotate
<1>15. ASSUME NEW u \in User, RotateUser(u) PROVE PlanEntry'
  BY <1>15 DEF RotateUser, DropMaps
<1>16. ASSUME NEW i \in IP, ForgetOld(i) PROVE PlanEntry'
  BY <1>16 DEF ForgetOld
<1>17. ASSUME NEW counts \in [User -> 0..MaxAlive], SetAliveList(counts) PROVE PlanEntry'
  BY <1>17 DEF SetAliveList
<1>18. CASE AliveUnavailable
  BY <1>18 DEF AliveUnavailable, SetAliveList
<1>19. ASSUME NEW newList \in SUBSET User, NEW modified \in SUBSET User,
             UpdateUserDelete(newList, modified)
       PROVE  PlanEntry'
  BY <1>19 DEF UpdateUserDelete, DropMaps
<1>20. CASE UpdateUserAdd
  BY <1>20 DEF UpdateUserAdd
<1>21. ASSUME NEW u \in User, UpdateDynamicSpeedLimit(u) PROVE PlanEntry'
  BY <1>21 DEF UpdateDynamicSpeedLimit
<1>22. ASSUME NEW u \in User, LimitExpires(u) PROVE PlanEntry'
  BY <1>22 DEF LimitExpires
<1>23. CASE UNCHANGED vars
  BY <1>23 DEF vars
<1> QED
  BY <1>1, <1>2, <1>3, <1>4, <1>5, <1>6, <1>7, <1>8, <1>9, <1>10, <1>11, <1>12, <1>13,
     <1>14, <1>15, <1>16, <1>17, <1>18, <1>19, <1>20, <1>21, <1>22, <1>23
  DEF Next, ConnStep

\* The lockout of the users without a plan limit (limiter.go:307) is the only one: users with
\* one keep their access through throttling, expiry and any number of changes.
THEOREM PlanUserNeverLockedOut == Spec => []PlanUserKnown
<1>1. Init => PlanEntry
  BY DEF Init, PlanEntry
<1>2. TypeOK /\ PlanEntry /\ [Next]_vars => PlanEntry'
  BY PlanEntryStep
<1>3. PlanEntry => PlanUserKnown
  BY DEF PlanEntry, PlanUserKnown
<1> QED BY <1>1, <1>2, <1>3, TypeCorrect, PTL DEF Spec
=============================================================================
