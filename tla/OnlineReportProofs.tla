------------------------- MODULE OnlineReportProofs -------------------------
(***************************************************************************)
(* Proofs about OnlineReport, for any users, addresses, intervals and      *)
(* windows, and any number of reloads and failures.                        *)
(***************************************************************************)
EXTENDS OnlineReport, TLAPS

\* A list of users is adopted before the tag that comes with it, so a tag that was
\* read is never newer than the list that is read after it.
TagBehindUsers ==
    /\ tagGen <= usersGen
    /\ phase = "reading" => repTag <= usersGen
    /\ phase = "snapshot" => repTag <= repUsers

\* Whoever the panel shows is remembered, or is in the report that is under way,
\* which then either shows it with an address, and remembers it, or clears it.
ShownIsTracked ==
    panelType = "uniproxy" =>
        /\ phase # "post" => \A u \in User : panel[u] # {} => u \in last \cup missed
        /\ phase = "post" =>
              /\ \A u \in User : panel[u] # {} => u \in DOMAIN data \cup missed
              /\ \A u \in DOMAIN data : data[u] # {} => u \in last

\* The time since the last snapshot and until the next one: they stay within the push
\* interval and the margin when the report and the wait after it do.  The window covers
\* both, but between the change of the interval and of the window; then the report that
\* the change has triggered comes first.
WindowCoversGap ==
    /\ phase # "post" /\ pace = "onTime" /\ ~(reload = "report" /\ wait = 0) =>
          gap + wait <= push + Margin
    /\ phase \in {"reading", "snapshot"} => wait = 0
    /\ reload = "report" /\ wait > 0 => phase = "idle" /\ (pace = "onTime" => gap <= Margin)
    /\ ~bare => ttl >= Margin
    /\ ~bare /\ reload \notin {"ttl", "report"} => ttl >= push + Margin
    /\ ~bare /\ pace = "onTime" /\ ~(phase = "post" /\ gap > Margin) => gap <= ttl

\* The durations of the code, one by one.
LEMMA Bounds ==
  /\ DefaultPush \in Nat \ {0} /\ MinPush \in Nat \ {0} /\ MaxPush \in Nat \ {0}
  /\ DefaultTTL \in Nat /\ MinTTL \in Nat /\ Margin \in Nat \ {0} /\ MaxAge \in Nat \ {0}
BY OnlineAssumption DEF OnlineAssumption

\* applyOnlineTTL: the window covers the push interval and the margin.
LEMMA WindowLongEnough ==
  ASSUME TypeOK, NEW interval \in Nat
  PROVE  /\ NewTTL \in Nat
         /\ AppliedTTL(interval) \in Nat
         /\ AppliedTTL(interval) >= interval + Margin
<1>1. timeout \in Nat
  BY OnlineAssumption DEF OnlineAssumption, TypeOK
<1> QED BY <1>1, Bounds DEF NewTTL, AppliedTTL, AtLeast, OnlineTimeout

\* normalizedPushInterval: a report task never has the interval 0.
LEMMA PushPositive ==
  ASSUME NEW interval \in Intervals
  PROVE  NormalizedPushInterval(interval) \in Nat \ {0}
<1>1. interval \in Nat
  BY OnlineAssumption DEF OnlineAssumption
<1> QED BY <1>1, Bounds DEF NormalizedPushInterval

\* nextDelay and the pace of the report that ends: the next one is not due at once, and
\* the report is on time only within the push interval and the margin.
LEMMA NextIsPaced ==
  ASSUME TypeOK, ReportEnds
  PROVE  /\ wait' \in Nat \ {0} /\ pace' \in {"onTime", "late", "slow"}
         /\ pace' = "onTime" => gap <= Margin /\ gap + wait' <= push + Margin
<1>1. wait' \in Nat \ {0}
  <2>1. wait' \in 1..(2 * push) /\ push \in Nat
    BY DEF ReportEnds, NextDelay, TypeOK
  <2> QED BY <2>1
<1>2. gap \in Nat /\ push \in Nat
  BY DEF TypeOK
<1>3. pace' = IF gap > Margin THEN "slow"
              ELSE IF gap + wait' > push + Margin THEN "late" ELSE "onTime"
  BY DEF ReportEnds
<1>4. CASE gap > Margin
  <2>1. pace' = "slow"
    BY <1>3, <1>4, Zenon
  <2> QED BY <1>1, <2>1
<1>5. CASE ~(gap > Margin) /\ gap + wait' > push + Margin
  <2>1. pace' = "late"
    BY <1>3, <1>5, Zenon
  <2> QED BY <1>1, <2>1
<1>6. CASE ~(gap > Margin) /\ ~(gap + wait' > push + Margin)
  <2>1. pace' = "onTime"
    BY <1>3, <1>6, Zenon
  <2>2. gap <= Margin /\ gap + wait' <= push + Margin
    <3>1. Margin \in Nat /\ wait' \in Nat
      BY <1>1, Bounds
    <3>2. gap <= Margin
      BY <1>2, <1>6, <3>1
    <3>3. ~(gap + wait' > push + Margin)
      BY <1>6, Zenon
    <3>4. \A g, w, p, m \in Nat : ~(g + w > p + m) => g + w <= p + m
      OBVIOUS
    <3>5. gap + wait' <= push + Margin
      BY <1>2, <3>1, <3>3, <3>4, Zenon
    <3> QED BY <3>2, <3>5
  <2> QED BY <1>1, <2>1, <2>2, Zenon
<1> QED BY <1>4, <1>5, <1>6, Zenon

\* What is sent: an address only for users of the snapshot, and an entry for every
\* user of the one before.
LEMMA PayloadCovers ==
  ASSUME NEW result \in SUBSET (User \X IP), last \subseteq User
  PROVE  /\ DOMAIN Payload(result) \subseteq User
         /\ \A u \in DOMAIN Payload(result) :
               Payload(result)[u] \subseteq IP /\ (Payload(result)[u] # {} => u \in UIDs(result))
         /\ panelType = "uniproxy" => last \subseteq DOMAIN Payload(result)
         /\ UIDs(result) \subseteq User
<1>1. UIDs(result) \subseteq User
  BY DEF UIDs
<1>2. ASSUME NEW u, {d[2] : d \in {e \in result : e[1] = u}} # {}
      PROVE  u \in UIDs(result)
  BY <1>2 DEF UIDs
<1>3. \A u : {d[2] : d \in {e \in result : e[1] = u}} \subseteq IP
  OBVIOUS
<1> QED BY <1>1, <1>2, <1>3 DEF Payload, Stale

\* What is taken from the registry are pairs of users and addresses.
LEMMA ResultType ==
  ASSUME NEW low
  PROVE  TrafficFilter(DedupeOnlineUsersByIP(Online), low) \in SUBSET (User \X IP)
<1>1. DedupeOnlineUsersByIP(Online) \subseteq User \X IP
  BY OnlineAssumption DEF OnlineAssumption, DedupeOnlineUsersByIP, Online
<1> QED BY <1>1 DEF TrafficFilter

\* Every step keeps the variables within their types.
LEMMA TypeStep ==
  ASSUME TypeOK, [Next]_vars
  PROVE  TypeOK'
<1> USE OnlineAssumption
    DEF OnlineAssumption, TypeOK, givenVars, regVars, ttlVars, timeVars, readVars, sendVars, panelVars,
        genVars
<1>1. ASSUME NEW d \in Device, Connect(d) PROVE TypeOK'
  BY <1>1 DEF Connect
<1>2. ASSUME NEW d \in Device, Disconnect(d) PROVE TypeOK'
  BY <1>2 DEF Disconnect
<1>3. ASSUME NEW u \in User, DeleteUser(u) PROVE TypeOK'
  BY <1>3 DEF DeleteUser
<1>4. ASSUME NEW u \in User, PanelExpires(u) PROVE TypeOK'
  BY <1>4 DEF PanelExpires
<1>5. CASE Tick
  <2>1. wait' \in Nat /\ gap' \in 0..MaxAge
    BY <1>5, Bounds DEF Tick
  <2>2. \A d \in Device : /\ Older(d) \in 0..MaxAge \cup {Gone}
                          /\ age[d] # Gone => Older(d) # Gone
    <3>1. \A d \in Device : age[d] \in 0..MaxAge \cup {Gone}
      OBVIOUS
    <3> QED BY <3>1, Bounds, SMTT(30) DEF Older
  <2>3. age' \in [Device -> 0..MaxAge \cup {Gone}] /\ open' \subseteq {d \in Device : age'[d] # Gone}
    BY <1>5, <2>2 DEF Tick
  <2> QED BY <1>5, <2>1, <2>3 DEF Tick
<1>6. CASE Sweep
  <2>1. age' \in [Device -> 0..MaxAge \cup {Gone}] /\ open' \subseteq {d \in Device : age'[d] # Gone}
    BY <1>6 DEF Sweep, Expired
  <2> QED BY <1>6, <2>1 DEF Sweep
<1>7. CASE ReadTag
  BY <1>7 DEF ReadTag
<1>8. CASE ReadUsers
  BY <1>8 DEF ReadUsers
<1>9. CASE TakeSnapshot
  <2>1. PICK low \in SUBSET (IF panelType = "ppanel" THEN User ELSE {}) :
              LET result == TrafficFilter(DedupeOnlineUsersByIP(Online), low)
              IN  /\ data' = Payload(result)
                  /\ last' = IF panelType = "ppanel" THEN last ELSE UIDs(result)
    BY <1>9 DEF TakeSnapshot
  <2>2. /\ DOMAIN data' \subseteq User /\ \A u \in DOMAIN data' : data'[u] \subseteq IP
        /\ last' \subseteq User
    BY <2>1, ResultType, PayloadCovers
  <2>3. Posts[panelType] \in Nat
    OBVIOUS
  <2>4. left' \in 0..Posts[panelType] /\ gap' \in 0..MaxAge /\ wait' \in Nat
    BY <1>9, <2>3, Bounds DEF TakeSnapshot
  <2>5. /\ phase' = "post" /\ pace' = "onTime" /\ repTag' = 0 /\ repUsers' = 0
        /\ UNCHANGED <<givenVars, regVars, ttlVars, panelVars, genVars, fails>>
    BY <1>9 DEF TakeSnapshot
  <2>6. repTag' \in 0..MaxReloads /\ repUsers' \in 0..MaxReloads /\ pace' \in {"onTime", "late", "slow"}
    <3>1. 0 \in 0..MaxReloads
      OBVIOUS
    <3> QED BY <2>5, <3>1, Zenon
  <2>7. /\ age' \in [Device -> 0..MaxAge \cup {Gone}]
        /\ open' \subseteq {d \in Device : age'[d] # Gone}
        /\ panel' \in [User -> SUBSET IP] /\ missed' \subseteq User
    BY <2>5
  <2>8. /\ panelType' \in Panels /\ named' \in Naming /\ timeout' \in Timeouts
        /\ ttl' \in Nat /\ bare' \in BOOLEAN /\ push' \in Nat \ {0}
        /\ tagGen' \in 0..MaxReloads /\ usersGen' \in 0..MaxReloads
        /\ reload' \in {"idle", "tag", "limiter", "apply", "rearm", "report", "ttl"}
        /\ fails' \in 0..MaxFails
    BY <2>5
  <2> QED BY <2>2, <2>4, <2>5, <2>6, <2>7, <2>8, Zenon
<1>10. CASE PostAccepted
  <2>1. wait' \in Nat /\ pace' \in {"onTime", "late", "slow"}
    BY <1>10, NextIsPaced DEF PostAccepted
  <2> QED BY <1>10, <2>1, SMTT(30) DEF PostAccepted, PanelStores, ReportEnds
<1>11. CASE PostFails
  BY <1>11 DEF PostFails, PanelStores
<1>12. CASE ReportFails
  <2>1. wait' \in Nat /\ pace' \in {"onTime", "late", "slow"}
    BY <1>12, NextIsPaced DEF ReportFails
  <2> QED BY <1>12, <2>1, SMTT(30) DEF ReportFails, PanelStores, ReportEnds, Fail
<1>13. CASE ReloadUsers
  BY <1>13 DEF ReloadUsers
<1>14. CASE ReloadTag
  BY <1>14 DEF ReloadTag
<1>15. CASE ReloadLimiter
  <2>1. NewTTL \in Nat
    BY WindowLongEnough
  <2> QED BY <1>15, <2>1 DEF ReloadLimiter
<1>16. CASE ReloadFails
  BY <1>16 DEF ReloadFails, Fail
<1>17. CASE ReloadTTL
  <2>1. AppliedTTL(push) \in Nat
    BY WindowLongEnough
  <2> QED BY <1>17, <2>1 DEF ReloadTTL
<1>18. ASSUME NEW interval \in Intervals, ReloadInterval(interval) PROVE TypeOK'
  <2>1. push' \in Nat \ {0}
    BY <1>18, PushPositive DEF ReloadInterval
  <2> QED BY <1>18, <2>1 DEF ReloadInterval
<1>19. CASE UNCHANGED vars
  BY <1>19 DEF vars
<1> QED
  BY <1>1, <1>2, <1>3, <1>4, <1>5, <1>6, <1>7, <1>8, <1>9, <1>10, <1>11, <1>12, <1>13,
     <1>14, <1>15, <1>16, <1>17, <1>18, <1>19
  DEF Next, ReportStep

\* Every step preserves TagBehindUsers.
LEMMA TagStep ==
  ASSUME TypeOK, TagBehindUsers, [Next]_vars
  PROVE  TagBehindUsers'
<1> USE OnlineAssumption
    DEF OnlineAssumption, TypeOK, TagBehindUsers,
        givenVars, regVars, ttlVars, timeVars, readVars, sendVars, panelVars,
        genVars
<1>1. ASSUME NEW d \in Device, Connect(d) PROVE TagBehindUsers'
  BY <1>1 DEF Connect
<1>2. ASSUME NEW d \in Device, Disconnect(d) PROVE TagBehindUsers'
  BY <1>2 DEF Disconnect
<1>3. ASSUME NEW u \in User, DeleteUser(u) PROVE TagBehindUsers'
  BY <1>3 DEF DeleteUser
<1>4. ASSUME NEW u \in User, PanelExpires(u) PROVE TagBehindUsers'
  BY <1>4 DEF PanelExpires
<1>5. CASE Tick
  BY <1>5 DEF Tick, TTLDue
<1>6. CASE Sweep
  BY <1>6 DEF Sweep
<1>7. CASE ReadTag
  BY <1>7 DEF ReadTag
<1>8. CASE ReadUsers
  BY <1>8 DEF ReadUsers
<1>9. CASE TakeSnapshot
  <2>1. phase' = "post" /\ UNCHANGED genVars
    BY <1>9 DEF TakeSnapshot
  <2> QED BY <2>1
<1>10. CASE PostAccepted
  BY <1>10 DEF PostAccepted, PanelStores, ReportEnds
<1>11. CASE PostFails
  BY <1>11 DEF PostFails, PanelStores
<1>12. CASE ReportFails
  BY <1>12 DEF ReportFails, PanelStores, ReportEnds, Fail
<1>13. CASE ReloadUsers
  BY <1>13 DEF ReloadUsers
<1>14. CASE ReloadTag
  BY <1>14 DEF ReloadTag
<1>15. CASE ReloadLimiter
  BY <1>15 DEF ReloadLimiter
<1>16. CASE ReloadFails
  BY <1>16 DEF ReloadFails, Fail
<1>17. CASE ReloadTTL
  BY <1>17 DEF ReloadTTL, TTLDue
<1>18. ASSUME NEW interval \in Intervals, ReloadInterval(interval) PROVE TagBehindUsers'
  BY <1>18 DEF ReloadInterval
<1>19. CASE UNCHANGED vars
  BY <1>19 DEF vars
<1> QED
  BY <1>1, <1>2, <1>3, <1>4, <1>5, <1>6, <1>7, <1>8, <1>9, <1>10, <1>11, <1>12, <1>13,
     <1>14, <1>15, <1>16, <1>17, <1>18, <1>19
  DEF Next, ReportStep

\* Every step preserves ShownIsTracked.
LEMMA ShownStep ==
  ASSUME TypeOK, ShownIsTracked, [Next]_vars
  PROVE  ShownIsTracked'
<1> USE OnlineAssumption
    DEF OnlineAssumption, TypeOK, ShownIsTracked,
        givenVars, regVars, ttlVars, timeVars, readVars, sendVars, panelVars,
        genVars
<1>1. ASSUME NEW d \in Device, Connect(d) PROVE ShownIsTracked'
  BY <1>1 DEF Connect
<1>2. ASSUME NEW d \in Device, Disconnect(d) PROVE ShownIsTracked'
  BY <1>2 DEF Disconnect
<1>3. ASSUME NEW u \in User, DeleteUser(u) PROVE ShownIsTracked'
  BY <1>3 DEF DeleteUser
<1>4. ASSUME NEW u \in User, PanelExpires(u) PROVE ShownIsTracked'
  BY <1>4 DEF PanelExpires
<1>5. CASE Tick
  BY <1>5 DEF Tick, TTLDue
<1>6. CASE Sweep
  BY <1>6 DEF Sweep
<1>7. CASE ReadTag
  BY <1>7 DEF ReadTag
<1>8. CASE ReadUsers
  BY <1>8 DEF ReadUsers
<1>9. CASE TakeSnapshot
  <2>1. PICK low \in SUBSET (IF panelType = "ppanel" THEN User ELSE {}) :
              LET result == TrafficFilter(DedupeOnlineUsersByIP(Online), low)
              IN  /\ data' = Payload(result)
                  /\ last' = IF panelType = "ppanel" THEN last ELSE UIDs(result)
    BY <1>9 DEF TakeSnapshot
  <2>2. phase = "snapshot" /\ phase' = "post" /\ UNCHANGED <<panel, missed, panelType>>
    BY <1>9 DEF TakeSnapshot
  <2>3. CASE panelType = "uniproxy"
    <3>1. last \subseteq DOMAIN data' /\ \A u \in DOMAIN data' : data'[u] # {} => u \in last'
      BY <2>1, <2>3, ResultType, PayloadCovers
    <3> QED BY <2>2, <2>3, <3>1
  <2> QED BY <2>2, <2>3
<1>10. CASE PostAccepted
  BY <1>10 DEF PostAccepted, PanelStores, ReportEnds
<1>11. CASE PostFails
  BY <1>11 DEF PostFails, PanelStores
<1>12. CASE ReportFails
  BY <1>12 DEF ReportFails, PanelStores, ReportEnds, Fail
<1>13. CASE ReloadUsers
  BY <1>13 DEF ReloadUsers
<1>14. CASE ReloadTag
  BY <1>14 DEF ReloadTag
<1>15. CASE ReloadLimiter
  BY <1>15 DEF ReloadLimiter
<1>16. CASE ReloadFails
  BY <1>16 DEF ReloadFails, Fail
<1>17. CASE ReloadTTL
  BY <1>17 DEF ReloadTTL, TTLDue
<1>18. ASSUME NEW interval \in Intervals, ReloadInterval(interval) PROVE ShownIsTracked'
  BY <1>18 DEF ReloadInterval
<1>19. CASE UNCHANGED vars
  BY <1>19 DEF vars
<1> QED
  BY <1>1, <1>2, <1>3, <1>4, <1>5, <1>6, <1>7, <1>8, <1>9, <1>10, <1>11, <1>12, <1>13,
     <1>14, <1>15, <1>16, <1>17, <1>18, <1>19
  DEF Next, ReportStep

\* Every step preserves WindowCoversGap.
LEMMA WindowStep ==
  ASSUME TypeOK, WindowCoversGap, [Next]_vars
  PROVE  WindowCoversGap'
<1> USE OnlineAssumption
    DEF OnlineAssumption, TypeOK, WindowCoversGap,
        givenVars, regVars, ttlVars, timeVars, readVars, sendVars, panelVars,
        genVars
<1>1. ASSUME NEW d \in Device, Connect(d) PROVE WindowCoversGap'
  BY <1>1 DEF Connect
<1>2. ASSUME NEW d \in Device, Disconnect(d) PROVE WindowCoversGap'
  BY <1>2 DEF Disconnect
<1>3. ASSUME NEW u \in User, DeleteUser(u) PROVE WindowCoversGap'
  BY <1>3 DEF DeleteUser
<1>4. ASSUME NEW u \in User, PanelExpires(u) PROVE WindowCoversGap'
  BY <1>4 DEF PanelExpires
<1>5. CASE Tick
  BY <1>5 DEF Tick, TTLDue
<1>6. CASE Sweep
  BY <1>6 DEF Sweep
<1>7. CASE ReadTag
  BY <1>7 DEF ReadTag
<1>8. CASE ReadUsers
  BY <1>8 DEF ReadUsers
<1>9. CASE TakeSnapshot
  <2>1. /\ phase = "snapshot" /\ phase' = "post" /\ gap' = 0 /\ pace' = "onTime"
        /\ UNCHANGED <<ttl, bare, push, reload, wait>>
    BY <1>9 DEF TakeSnapshot
  <2> QED BY <2>1, Bounds
<1>10. CASE PostAccepted
  <2>1. ReportEnds /\ phase = "post" /\ UNCHANGED <<ttl, bare, push, gap, reload>>
    BY <1>10 DEF PostAccepted
  <2>2. wait' \in Nat \ {0} /\ (pace' = "onTime" => gap <= Margin /\ gap + wait' <= push + Margin)
    BY <2>1, NextIsPaced, Bounds
  <2> QED BY <2>1, <2>2, Bounds DEF ReportEnds
<1>11. CASE PostFails
  BY <1>11 DEF PostFails, PanelStores
<1>12. CASE ReportFails
  <2>1. ReportEnds /\ phase = "post" /\ UNCHANGED <<ttl, bare, push, gap, reload>>
    BY <1>12 DEF ReportFails
  <2>2. wait' \in Nat \ {0} /\ (pace' = "onTime" => gap <= Margin /\ gap + wait' <= push + Margin)
    BY <2>1, NextIsPaced, Bounds
  <2> QED BY <2>1, <2>2, Bounds DEF ReportEnds
<1>13. CASE ReloadUsers
  BY <1>13 DEF ReloadUsers
<1>14. CASE ReloadTag
  BY <1>14 DEF ReloadTag
<1>15. CASE ReloadLimiter
  BY <1>15 DEF ReloadLimiter
<1>16. CASE ReloadFails
  BY <1>16 DEF ReloadFails, Fail
<1>17. CASE ReloadTTL
  <2>1. ttl' >= push + Margin /\ ttl' \in Nat
    BY <1>17, WindowLongEnough DEF ReloadTTL
  <2> QED BY <1>17, <2>1, Bounds DEF ReloadTTL, TTLDue
<1>18. ASSUME NEW interval \in Intervals, ReloadInterval(interval) PROVE WindowCoversGap'
  BY <1>18 DEF ReloadInterval
<1>19. CASE UNCHANGED vars
  BY <1>19 DEF vars
<1> QED
  BY <1>1, <1>2, <1>3, <1>4, <1>5, <1>6, <1>7, <1>8, <1>9, <1>10, <1>11, <1>12, <1>13,
     <1>14, <1>15, <1>16, <1>17, <1>18, <1>19
  DEF Next, ReportStep


IndInv == TypeOK /\ TagBehindUsers /\ ShownIsTracked /\ WindowCoversGap

\* The node starts with an empty registry, a window that covers the interval, and
\* nobody shown.
LEMMA InitInvariant == Init => IndInv
<1> SUFFICES ASSUME Init PROVE IndInv
  OBVIOUS
<1> USE OnlineAssumption DEF OnlineAssumption
<1>1. PICK interval \in Intervals : push = NormalizedPushInterval(interval)
  BY DEF Init
<1>2. push \in Nat \ {0}
  BY <1>1, PushPositive
<1>3. AppliedTTL(push) \in Nat /\ AppliedTTL(push) >= push + Margin
  <2>1. timeout \in Nat
    BY DEF Init
  <2> QED BY <1>2, <2>1, Bounds DEF AppliedTTL, AtLeast, OnlineTimeout
<1>4. /\ wait \in Nat /\ gap \in 0..MaxAge /\ left \in 0..Posts[panelType]
      /\ repTag \in 0..MaxReloads /\ repUsers \in 0..MaxReloads
      /\ tagGen \in 0..MaxReloads /\ usersGen \in 0..MaxReloads /\ fails \in 0..MaxFails
  BY <1>2, Bounds DEF Init
<1>5. /\ age \in [Device -> 0..MaxAge \cup {Gone}] /\ open \subseteq {d \in Device : age[d] # Gone}
      /\ panel \in [User -> SUBSET IP]
  BY DEF Init, Nobody
<1>6. DOMAIN data \subseteq User /\ \A u \in DOMAIN data : data[u] \subseteq IP
  BY DEF Init
<1>7. TypeOK
  BY <1>2, <1>3, <1>4, <1>5, <1>6 DEF Init, TypeOK
<1>8. TagBehindUsers /\ ShownIsTracked
  BY DEF Init, TagBehindUsers, ShownIsTracked, Nobody
<1>9. WindowCoversGap
  BY <1>2, <1>3, Bounds DEF Init, WindowCoversGap
<1> QED BY <1>7, <1>8, <1>9 DEF IndInv

\* The inductive invariant holds in every state.
LEMMA InvariantHolds == Spec => []IndInv
<1>1. IndInv /\ [Next]_vars => IndInv'
  BY TypeStep, TagStep, ShownStep, WindowStep DEF IndInv
<1> QED BY <1>1, InitInvariant, PTL DEF Spec

\* The state of the report, of the registry and of the reload stay what the code
\* declares them to be: a device whose connection is open is always in the registry
\* (online_registry.go), and the report task's interval is never 0 (task.go).
THEOREM TypeCorrect == Spec => []TypeOK
BY InvariantHolds, PTL DEF IndInv

\* user.go:14-16: the mix of two nodes that a report can meet is of one kind only, for
\* any number of reloads at any moment of a report: the tag of the node before with the
\* users of the new one.  The counters of a node are never read with older users.
THEOREM TagNeverAhead == Spec => [](phase = "snapshot" => repTag <= repUsers)
BY InvariantHolds, PTL DEF IndInv, TagBehindUsers

\* user.go:70-75: whatever fails and in whatever order, a user that the panel shows
\* is one the controller still remembers to clear, or one whose clearing was in a
\* report that failed.
THEOREM ShownAlwaysRemembered == Spec => []ShownIsRemembered
<1>1. IndInv => ShownIsRemembered
  BY DEF IndInv, ShownIsTracked, ShownIsRemembered
<1> QED BY <1>1, InvariantHolds, PTL

\* task.go:76-78: for any intervals, windows and jitter, what Sweep takes out of the
\* registry was in it at the last snapshot, when the report and the wait after it fit
\* the push interval and the margin: the window of applyOnlineTTL then is longer than
\* the time between two snapshots, through every reload that changes either.
THEOREM SweptWasReported == Spec => SeenIsReported
<1>1. IndInv /\ [Next]_vars =>
         [Sweep => \A d \in Device : Dropped(d) /\ pace = "onTime" => age[d] > gap]_vars
  <2> SUFFICES ASSUME IndInv, NEW d \in Device, Dropped(d), pace = "onTime"
               PROVE  age[d] > gap
    OBVIOUS
  <2>1. gap <= ttl /\ age[d] > ttl /\ age[d] # Gone
    BY DEF IndInv, WindowCoversGap, Expired, Dropped
  <2>2. gap \in Nat /\ ttl \in Nat /\ age[d] \in Nat
    BY <2>1 DEF IndInv, TypeOK
  <2> QED BY <2>1, <2>2
<1> QED BY <1>1, InvariantHolds, PTL DEF Spec, SeenIsReported
=============================================================================
