------------------------ MODULE TrafficReportProofs -------------------------
(***************************************************************************)
(* Proofs about TrafficReport, for any set of users and any bounds.        *)
(*                                                                         *)
(* The accounting equation of NoUsageLost and NothingDueTwice is not       *)
(* inductive by itself: a restore is only safe when the counter it adds to *)
(* is still there (CounterExists), and the reset that follows a load must  *)
(* not take away less than was loaded (RoundIsConsistent).                 *)
(***************************************************************************)
EXTENDS TrafficReport, TLAPS

\* In xray usage of a user that was never removed is in, or on its way back to, a
\* registered counter, through reloads too, and nobody else has lost a counter.
CounterExists ==
    /\ \A t \in Tag, u \in User : <<t, u>> \in orphans => u \in removed
    /\ core = "xray" =>
         \A k \in Key : Owner(k) \notin removed /\ (counter[k] > 0 \/ hand[k] > 0)
                          => <<TagOf(k), Owner(k)>> \in registered

\* With an atomic swap no counter is ever half read.
NeverHalfRead == core = "xray" => \A u \in User : phase[u] \notin {"loaded", "gone"}

LEMMA KeyType == \A k \in Key : Owner(k) \in User /\ TagOf(k) \in Tag
BY DEF Key, Owner, TagOf

LEMMA KeysOf ==
  ASSUME NEW u \in User, NEW t \in Tag
  PROVE  /\ <<t, u, "up">> \in Key /\ <<t, u, "down">> \in Key
         /\ \A d \in Dir : <<t, u, d>> \in Key /\ TagOf(<<t, u, d>>) = t /\ Owner(<<t, u, d>>) = u
BY DEF Key, Dir, TagOf, Owner

\* The steps of the monitor that leave counters, round and bills alone.
MonitorQuiet ==
    \/ AddUsers \/ DeleteTraffic \/ SetUsers \/ ResetTraffic \/ AddNode \/ AddNodeUsers
    \/ \E newTag \in Tag : SetTag(newTag)
    \/ \E newList \in SUBSET User : ReloadUsers(newList)
    \/ DelNodeFails \/ MonitorStops

Frame ==
    /\ UNCHANGED core
    /\ UNCHANGED <<registered, orphans, counter>>
    /\ UNCHANGED <<pc, roundTag, phase, hand, path, fails>>
    /\ UNCHANGED <<used, acked, billed, dropped>>
    /\ UNCHANGED <<throttled, restored>>
    /\ \A u \in User : traffic'[u] \in {0, traffic[u]}
    /\ removed \subseteq removed'

LEMMA QuietFrame ==
  ASSUME TypeOK, MonitorQuiet
  PROVE  Frame
<1> USE DEF TypeOK, Frame, nodeVars, coreVars, reportVars, dynVars, truthVars
<1>1. CASE AddUsers \/ DeleteTraffic \/ SetUsers
  BY <1>1 DEF AddUsers, DeleteTraffic, SetUsers
<1>2. CASE ResetTraffic \/ AddNode \/ AddNodeUsers
  BY <1>2 DEF ResetTraffic, AddNode, AddNodeUsers, NoUserTraffic
<1>3. ASSUME NEW newTag \in Tag, SetTag(newTag) PROVE Frame
  BY <1>3 DEF SetTag
<1>4. ASSUME NEW newList \in SUBSET User, ReloadUsers(newList) PROVE Frame
  BY <1>4 DEF ReloadUsers
<1>5. CASE DelNodeFails \/ MonitorStops
  BY <1>5 DEF DelNodeFails, MonitorStops
<1> QED BY <1>1, <1>2, <1>3, <1>4, <1>5 DEF MonitorQuiet

\* The steps of the accounting, one by one, and those of the monitor together.
LEMMA NextCases ==
  ASSUME [Next]_vars
  PROVE  \/ ReadTag \/ ReadUsers \/ NothingToReport \/ PushAccepted \/ PushNextPath
         \/ RestoreDone \/ PushFailed \/ SpeedChecker \/ DelNode \/ MonitorQuiet
         \/ UNCHANGED vars
         \/ \E u \in User : \/ ReadNothing(u) \/ SwapCounter(u) \/ LoadCounter(u)
                            \/ ResetCounter(u) \/ ResetGone(u) \/ RestoreUserTraffic(u)
         \/ \E t \in Tag, u \in User : Connect(t, u)
         \/ \E k \in Key : Transfer(k) \/ TransferUnread(k)
         \/ \E newList, changed \in SUBSET User : DelUsers(newList, changed)
BY DEF Next, ReportStep, MonitorStep, MonitorQuiet

LEMMA InitInvariant ==
  Init => TypeOK /\ CounterExists /\ RoundIsConsistent /\ NeverHalfRead
<1> SUFFICES ASSUME Init
             PROVE  TypeOK /\ CounterExists /\ RoundIsConsistent /\ NeverHalfRead
  OBVIOUS
<1> USE ReportAssumption, KeyType DEF ReportAssumption, Init, Zero, NoUserTraffic
<1>1. broken \in BOOLEAN
  BY Zenon
<1>2. TypeOK
  BY <1>1 DEF TypeOK, Tag
<1>3. CounterExists /\ NeverHalfRead /\ RoundIsConsistent
  BY DEF CounterExists, NeverHalfRead, RoundIsConsistent
<1> QED BY <1>2, <1>3

LEMMA QuietType ==
  ASSUME TypeOK, MonitorQuiet
  PROVE  TypeOK'
<1> USE ReportAssumption DEF ReportAssumption, TypeOK, NoUserTraffic,
        nodeVars, coreVars, reportVars, dynVars, truthVars
<1>1. CASE AddUsers \/ DeleteTraffic \/ SetUsers
  BY <1>1 DEF AddUsers, DeleteTraffic, SetUsers
<1>2. CASE ResetTraffic \/ AddNode
  BY <1>2 DEF ResetTraffic, AddNode
<1>3. ASSUME NEW newTag \in Tag, SetTag(newTag) PROVE TypeOK'
  BY <1>3 DEF SetTag
<1>4. ASSUME NEW newList \in SUBSET User, ReloadUsers(newList) PROVE TypeOK'
  BY <1>4 DEF ReloadUsers
<1>5. CASE DelNodeFails
  BY <1>5 DEF DelNodeFails
<1>6. CASE AddNodeUsers
  <2>1. broken' \in BOOLEAN
    BY <1>6, Zenon DEF AddNodeUsers
  <2> QED BY <1>6, <2>1 DEF AddNodeUsers
<1>7. CASE MonitorStops
  <2>1. broken' \in BOOLEAN
    BY <1>7, Zenon DEF MonitorStops
  <2> QED BY <1>7, <2>1 DEF MonitorStops
<1> QED BY <1>1, <1>2, <1>3, <1>4, <1>5, <1>6, <1>7 DEF MonitorQuiet

\* Every step preserves the types.
LEMMA TypeStep ==
  ASSUME TypeOK, [Next]_vars
  PROVE  TypeOK'
<1> USE ReportAssumption, KeyType, KeysOf DEF ReportAssumption, TypeOK, Zero, NoUserTraffic,
        nodeVars, coreVars, reportVars, dynVars, truthVars
<1>1. ASSUME ReadTag PROVE TypeOK'
  BY <1>1 DEF ReadTag
<1>2. ASSUME ReadUsers PROVE TypeOK'
  BY <1>2 DEF ReadUsers
<1>3. ASSUME NEW u \in User, ReadNothing(u) PROVE TypeOK'
  BY <1>3 DEF ReadNothing
<1>4. ASSUME NEW u \in User, SwapCounter(u) PROVE TypeOK'
  BY <1>4 DEF SwapCounter, CountTraffic, OfRound, InRound
<1>5. ASSUME NEW u \in User, LoadCounter(u) PROVE TypeOK'
  BY <1>5 DEF LoadCounter, OfRound
<1>6. ASSUME NEW u \in User, ResetCounter(u) PROVE TypeOK'
  BY <1>6 DEF ResetCounter, CountTraffic, OfRound, InRound
<1>7. ASSUME NEW u \in User, ResetGone(u) PROVE TypeOK'
  BY <1>7 DEF ResetGone, CountTraffic, InRound
<1>8. ASSUME NEW u \in User, RestoreUserTraffic(u) PROVE TypeOK'
  BY <1>8 DEF RestoreUserTraffic, Restorable, Dropped, OfRound, InRound
<1>9. ASSUME NothingToReport PROVE TypeOK'
  BY <1>9 DEF NothingToReport, ReadingDone, RoundOver
<1>10. ASSUME PushAccepted PROVE TypeOK'
  BY <1>10 DEF PushAccepted, ReadingDone, RoundOver, PanelApplies, PanelAnswers
<1>11. ASSUME PushNextPath PROVE TypeOK'
  BY <1>11 DEF PushNextPath, ReadingDone
<1>12. ASSUME RestoreDone PROVE TypeOK'
  BY <1>12 DEF RestoreDone, RoundOver
<1>13. ASSUME PushFailed PROVE TypeOK'
  BY <1>13 DEF PushFailed, ReadingDone, PanelApplies
<1>14. ASSUME NEW t \in Tag, NEW u \in User, Connect(t, u) PROVE TypeOK'
  BY <1>14 DEF Connect
<1>15. ASSUME NEW k \in Key, Transfer(k) PROVE TypeOK'
  BY <1>15 DEF Transfer
<1>16. ASSUME NEW k \in Key, TransferUnread(k) PROVE TypeOK'
  BY <1>16 DEF TransferUnread
<1>17. ASSUME SpeedChecker PROVE TypeOK'
  BY <1>17 DEF SpeedChecker
<1>18. ASSUME NEW newList \in SUBSET User, NEW changed \in SUBSET User, DelUsers(newList, changed) PROVE TypeOK'
  BY <1>18 DEF DelUsers
<1>19. ASSUME DelNode PROVE TypeOK'
  BY <1>19 DEF DelNode
<1>20. ASSUME MonitorQuiet PROVE TypeOK'
  BY <1>20, QuietType
<1>21. ASSUME UNCHANGED vars PROVE TypeOK'
  BY <1>21 DEF vars
<1>22. QED
  BY <1>1, <1>2, <1>3, <1>4, <1>5, <1>6, <1>7, <1>8, <1>9, <1>10, <1>11, <1>12, <1>13,
     <1>14, <1>15, <1>16, <1>17, <1>18, <1>19, <1>20, <1>21, NextCases

\* Every step preserves CounterExists.
LEMMA CounterExistsStep ==
  ASSUME TypeOK, CounterExists, [Next]_vars
  PROVE  CounterExists'
<1> USE KeyType DEF TypeOK, CounterExists, Zero,
        nodeVars, coreVars, reportVars, dynVars, truthVars
<1>1. ASSUME ReadTag PROVE CounterExists'
  BY <1>1 DEF ReadTag
<1>2. ASSUME ReadUsers PROVE CounterExists'
  BY <1>2 DEF ReadUsers
<1>3. ASSUME NEW u \in User, ReadNothing(u) PROVE CounterExists'
  BY <1>3 DEF ReadNothing
<1>4. ASSUME NEW u \in User, SwapCounter(u) PROVE CounterExists'
  BY <1>4 DEF SwapCounter, CountTraffic, OfRound, InRound
<1>5. ASSUME NEW u \in User, LoadCounter(u) PROVE CounterExists'
  BY <1>5 DEF LoadCounter, OfRound
<1>6. ASSUME NEW u \in User, ResetCounter(u) PROVE CounterExists'
  BY <1>6 DEF ResetCounter, CountTraffic, OfRound, InRound
<1>7. ASSUME NEW u \in User, ResetGone(u) PROVE CounterExists'
  BY <1>7 DEF ResetGone, CountTraffic, InRound
<1>8. ASSUME NEW u \in User, RestoreUserTraffic(u) PROVE CounterExists'
  BY <1>8 DEF RestoreUserTraffic, Restorable, Dropped, OfRound, InRound
<1>9. ASSUME NothingToReport PROVE CounterExists'
  BY <1>9 DEF NothingToReport, ReadingDone, RoundOver
<1>10. ASSUME PushAccepted PROVE CounterExists'
  BY <1>10 DEF PushAccepted, ReadingDone, RoundOver, PanelApplies, PanelAnswers
<1>11. ASSUME PushNextPath PROVE CounterExists'
  BY <1>11 DEF PushNextPath, ReadingDone
<1>12. ASSUME RestoreDone PROVE CounterExists'
  BY <1>12 DEF RestoreDone, RoundOver
<1>13. ASSUME PushFailed PROVE CounterExists'
  BY <1>13 DEF PushFailed, ReadingDone, PanelApplies
<1>14. ASSUME NEW t \in Tag, NEW u \in User, Connect(t, u) PROVE CounterExists'
  BY <1>14 DEF Connect
<1>15. ASSUME NEW k \in Key, Transfer(k) PROVE CounterExists'
  BY <1>15 DEF Transfer
<1>16. ASSUME NEW k \in Key, TransferUnread(k) PROVE CounterExists'
  BY <1>16 DEF TransferUnread
<1>17. ASSUME SpeedChecker PROVE CounterExists'
  BY <1>17 DEF SpeedChecker
<1>18. ASSUME NEW newList \in SUBSET User, NEW changed \in SUBSET User, DelUsers(newList, changed) PROVE CounterExists'
  BY <1>18 DEF DelUsers
<1>19. ASSUME DelNode PROVE CounterExists'
  BY <1>19 DEF DelNode
<1>20. ASSUME MonitorQuiet PROVE CounterExists'
  BY <1>20, QuietFrame DEF Frame
<1>21. ASSUME UNCHANGED vars PROVE CounterExists'
  BY <1>21 DEF vars
<1>22. QED
  BY <1>1, <1>2, <1>3, <1>4, <1>5, <1>6, <1>7, <1>8, <1>9, <1>10, <1>11, <1>12, <1>13,
     <1>14, <1>15, <1>16, <1>17, <1>18, <1>19, <1>20, <1>21, NextCases

\* Every step keeps the book-keeping of the round consistent.
LEMMA RoundStep ==
  ASSUME TypeOK, RoundIsConsistent, NeverHalfRead, [Next]_vars
  PROVE  (RoundIsConsistent /\ NeverHalfRead)'
<1> USE KeyType DEF TypeOK, RoundIsConsistent, NeverHalfRead, Zero,
        nodeVars, coreVars, reportVars, dynVars, truthVars
<1>1. ASSUME ReadTag PROVE (RoundIsConsistent /\ NeverHalfRead)'
  BY <1>1 DEF ReadTag
<1>2. ASSUME ReadUsers PROVE (RoundIsConsistent /\ NeverHalfRead)'
  BY <1>2 DEF ReadUsers
<1>3. ASSUME NEW u \in User, ReadNothing(u) PROVE (RoundIsConsistent /\ NeverHalfRead)'
  BY <1>3 DEF ReadNothing
<1>4. ASSUME NEW u \in User, SwapCounter(u) PROVE (RoundIsConsistent /\ NeverHalfRead)'
  BY <1>4 DEF SwapCounter, CountTraffic, OfRound, InRound
<1>5. ASSUME NEW u \in User, LoadCounter(u) PROVE (RoundIsConsistent /\ NeverHalfRead)'
  BY <1>5 DEF LoadCounter, OfRound
<1>6. ASSUME NEW u \in User, ResetCounter(u) PROVE (RoundIsConsistent /\ NeverHalfRead)'
  BY <1>6 DEF ResetCounter, CountTraffic, OfRound, InRound
<1>7. ASSUME NEW u \in User, ResetGone(u) PROVE (RoundIsConsistent /\ NeverHalfRead)'
  BY <1>7 DEF ResetGone, CountTraffic, InRound
<1>8. ASSUME NEW u \in User, RestoreUserTraffic(u) PROVE (RoundIsConsistent /\ NeverHalfRead)'
  BY <1>8 DEF RestoreUserTraffic, Restorable, Dropped, OfRound, InRound
<1>9. ASSUME NothingToReport PROVE (RoundIsConsistent /\ NeverHalfRead)'
  BY <1>9 DEF NothingToReport, ReadingDone, RoundOver
<1>10. ASSUME PushAccepted PROVE (RoundIsConsistent /\ NeverHalfRead)'
  BY <1>10 DEF PushAccepted, ReadingDone, RoundOver, PanelApplies, PanelAnswers
<1>11. ASSUME PushNextPath PROVE (RoundIsConsistent /\ NeverHalfRead)'
  BY <1>11 DEF PushNextPath, ReadingDone
<1>12. ASSUME RestoreDone PROVE (RoundIsConsistent /\ NeverHalfRead)'
  BY <1>12 DEF RestoreDone, RoundOver
<1>13. ASSUME PushFailed PROVE (RoundIsConsistent /\ NeverHalfRead)'
  BY <1>13 DEF PushFailed, ReadingDone, PanelApplies
<1>14. ASSUME NEW t \in Tag, NEW u \in User, Connect(t, u) PROVE (RoundIsConsistent /\ NeverHalfRead)'
  BY <1>14 DEF Connect
<1>15. ASSUME NEW k \in Key, Transfer(k) PROVE (RoundIsConsistent /\ NeverHalfRead)'
  BY <1>15 DEF Transfer
<1>16. ASSUME NEW k \in Key, TransferUnread(k) PROVE (RoundIsConsistent /\ NeverHalfRead)'
  BY <1>16 DEF TransferUnread
<1>17. ASSUME SpeedChecker PROVE (RoundIsConsistent /\ NeverHalfRead)'
  BY <1>17 DEF SpeedChecker
<1>18. ASSUME NEW newList \in SUBSET User, NEW changed \in SUBSET User, DelUsers(newList, changed) PROVE (RoundIsConsistent /\ NeverHalfRead)'
  BY <1>18 DEF DelUsers
<1>19. ASSUME DelNode PROVE (RoundIsConsistent /\ NeverHalfRead)'
  BY <1>19 DEF DelNode
<1>20. ASSUME MonitorQuiet PROVE (RoundIsConsistent /\ NeverHalfRead)'
  BY <1>20, QuietFrame DEF Frame
<1>21. ASSUME UNCHANGED vars PROVE (RoundIsConsistent /\ NeverHalfRead)'
  BY <1>21 DEF vars
<1>22. QED
  BY <1>1, <1>2, <1>3, <1>4, <1>5, <1>6, <1>7, <1>8, <1>9, <1>10, <1>11, <1>12, <1>13,
     <1>14, <1>15, <1>16, <1>17, <1>18, <1>19, <1>20, <1>21, NextCases

\* Every step preserves NoUsageLost.
LEMMA NoLossStep ==
  ASSUME TypeOK, CounterExists, RoundIsConsistent, NeverHalfRead, NoUsageLost, [Next]_vars
  PROVE  NoUsageLost'
<1> USE KeyType DEF TypeOK, CounterExists, RoundIsConsistent, NeverHalfRead,
        NoUsageLost, Accounted, Due, Zero, nodeVars, coreVars, reportVars, dynVars, truthVars
<1>1. ASSUME ReadTag PROVE NoUsageLost'
  BY <1>1 DEF ReadTag
<1>2. ASSUME ReadUsers PROVE NoUsageLost'
  BY <1>2 DEF ReadUsers
<1>3. ASSUME NEW u \in User, ReadNothing(u) PROVE NoUsageLost'
  BY <1>3 DEF ReadNothing
<1>4. ASSUME NEW u \in User, SwapCounter(u) PROVE NoUsageLost'
  BY <1>4 DEF SwapCounter, CountTraffic, OfRound, InRound
<1>5. ASSUME NEW u \in User, LoadCounter(u) PROVE NoUsageLost'
  BY <1>5 DEF LoadCounter, OfRound
<1>6. ASSUME NEW u \in User, ResetCounter(u) PROVE NoUsageLost'
  BY <1>6 DEF ResetCounter, CountTraffic, OfRound, InRound
<1>7. ASSUME NEW u \in User, ResetGone(u) PROVE NoUsageLost'
  BY <1>7 DEF ResetGone, CountTraffic, InRound
<1>8. ASSUME NEW u \in User, RestoreUserTraffic(u) PROVE NoUsageLost'
  BY <1>8 DEF RestoreUserTraffic, Restorable, Dropped, OfRound, InRound
<1>9. ASSUME NothingToReport PROVE NoUsageLost'
  BY <1>9 DEF NothingToReport, ReadingDone, RoundOver
<1>10. ASSUME PushAccepted PROVE NoUsageLost'
  BY <1>10 DEF PushAccepted, ReadingDone, RoundOver, PanelApplies, PanelAnswers
<1>11. ASSUME PushNextPath PROVE NoUsageLost'
  BY <1>11 DEF PushNextPath, ReadingDone
<1>12. ASSUME RestoreDone PROVE NoUsageLost'
  BY <1>12 DEF RestoreDone, RoundOver
<1>13. ASSUME PushFailed PROVE NoUsageLost'
  BY <1>13 DEF PushFailed, ReadingDone, PanelApplies
<1>14. ASSUME NEW t \in Tag, NEW u \in User, Connect(t, u) PROVE NoUsageLost'
  BY <1>14 DEF Connect
<1>15. ASSUME NEW k \in Key, Transfer(k) PROVE NoUsageLost'
  BY <1>15 DEF Transfer
<1>16. ASSUME NEW k \in Key, TransferUnread(k) PROVE NoUsageLost'
  BY <1>16 DEF TransferUnread
<1>17. ASSUME SpeedChecker PROVE NoUsageLost'
  BY <1>17 DEF SpeedChecker
<1>18. ASSUME NEW newList \in SUBSET User, NEW changed \in SUBSET User, DelUsers(newList, changed) PROVE NoUsageLost'
  BY <1>18 DEF DelUsers
<1>19. ASSUME DelNode PROVE NoUsageLost'
  BY <1>19 DEF DelNode
<1>20. ASSUME MonitorQuiet PROVE NoUsageLost'
  BY <1>20, QuietFrame DEF Frame
<1>21. ASSUME UNCHANGED vars PROVE NoUsageLost'
  BY <1>21 DEF vars
<1>22. QED
  BY <1>1, <1>2, <1>3, <1>4, <1>5, <1>6, <1>7, <1>8, <1>9, <1>10, <1>11, <1>12, <1>13,
     <1>14, <1>15, <1>16, <1>17, <1>18, <1>19, <1>20, <1>21, NextCases

\* Every step preserves NothingDueTwice.
LEMMA NoDoubleStep ==
  ASSUME TypeOK, RoundIsConsistent, NothingDueTwice, [Next]_vars
  PROVE  NothingDueTwice'
<1> USE KeyType DEF TypeOK, RoundIsConsistent,
        NothingDueTwice, Accounted, Due, Zero, nodeVars, coreVars, reportVars, dynVars, truthVars
<1>1. ASSUME ReadTag PROVE NothingDueTwice'
  BY <1>1 DEF ReadTag
<1>2. ASSUME ReadUsers PROVE NothingDueTwice'
  BY <1>2 DEF ReadUsers
<1>3. ASSUME NEW u \in User, ReadNothing(u) PROVE NothingDueTwice'
  BY <1>3 DEF ReadNothing
<1>4. ASSUME NEW u \in User, SwapCounter(u) PROVE NothingDueTwice'
  BY <1>4 DEF SwapCounter, CountTraffic, OfRound, InRound
<1>5. ASSUME NEW u \in User, LoadCounter(u) PROVE NothingDueTwice'
  BY <1>5 DEF LoadCounter, OfRound
<1>6. ASSUME NEW u \in User, ResetCounter(u) PROVE NothingDueTwice'
  BY <1>6 DEF ResetCounter, CountTraffic, OfRound, InRound
<1>7. ASSUME NEW u \in User, ResetGone(u) PROVE NothingDueTwice'
  BY <1>7 DEF ResetGone, CountTraffic, InRound
<1>8. ASSUME NEW u \in User, RestoreUserTraffic(u) PROVE NothingDueTwice'
  BY <1>8 DEF RestoreUserTraffic, Restorable, Dropped, OfRound, InRound
<1>9. ASSUME NothingToReport PROVE NothingDueTwice'
  BY <1>9 DEF NothingToReport, ReadingDone, RoundOver
<1>10. ASSUME PushAccepted PROVE NothingDueTwice'
  BY <1>10 DEF PushAccepted, ReadingDone, RoundOver, PanelApplies, PanelAnswers
<1>11. ASSUME PushNextPath PROVE NothingDueTwice'
  BY <1>11 DEF PushNextPath, ReadingDone
<1>12. ASSUME RestoreDone PROVE NothingDueTwice'
  BY <1>12 DEF RestoreDone, RoundOver
<1>13. ASSUME PushFailed PROVE NothingDueTwice'
  BY <1>13 DEF PushFailed, ReadingDone, PanelApplies
<1>14. ASSUME NEW t \in Tag, NEW u \in User, Connect(t, u) PROVE NothingDueTwice'
  BY <1>14 DEF Connect
<1>15. ASSUME NEW k \in Key, Transfer(k) PROVE NothingDueTwice'
  BY <1>15 DEF Transfer
<1>16. ASSUME NEW k \in Key, TransferUnread(k) PROVE NothingDueTwice'
  BY <1>16 DEF TransferUnread
<1>17. ASSUME SpeedChecker PROVE NothingDueTwice'
  BY <1>17 DEF SpeedChecker
<1>18. ASSUME NEW newList \in SUBSET User, NEW changed \in SUBSET User, DelUsers(newList, changed) PROVE NothingDueTwice'
  BY <1>18 DEF DelUsers
<1>19. ASSUME DelNode PROVE NothingDueTwice'
  BY <1>19 DEF DelNode
<1>20. ASSUME MonitorQuiet PROVE NothingDueTwice'
  BY <1>20, QuietFrame DEF Frame
<1>21. ASSUME UNCHANGED vars PROVE NothingDueTwice'
  BY <1>21 DEF vars
<1>22. QED
  BY <1>1, <1>2, <1>3, <1>4, <1>5, <1>6, <1>7, <1>8, <1>9, <1>10, <1>11, <1>12, <1>13,
     <1>14, <1>15, <1>16, <1>17, <1>18, <1>19, <1>20, <1>21, NextCases

-----------------------------------------------------------------------------
LEMMA InvariantHolds ==
  Spec => [](TypeOK /\ CounterExists /\ RoundIsConsistent /\ NeverHalfRead)
<1> DEFINE Inv == TypeOK /\ CounterExists /\ RoundIsConsistent /\ NeverHalfRead
<1>1. Init => Inv
  BY InitInvariant
<1>2. Inv /\ [Next]_vars => Inv'
  BY TypeStep, CounterExistsStep, RoundStep
<1>3. QED BY <1>1, <1>2, PTL DEF Spec

\* Every variable of the accounting stays within its type.
THEOREM TypeCorrect == Spec => []TypeOK
BY InvariantHolds, PTL

\* The book-keeping of a report round is consistent in every reachable state.
THEOREM RoundAlwaysConsistent == Spec => []RoundIsConsistent
BY InvariantHolds, PTL

\* node/user.go:109-112 for a core whose counters are swapped (xray): no byte of
\* a user that stays on the node is lost, however pushes fail, responses get
\* lost, connections come and go, other users are removed and the node is
\* reloaded, but those that a restore drops because the Selector does not have
\* the tag just then.
THEOREM UsageNeverLost == Spec => []NoUsageLost
<1> DEFINE Inv == TypeOK /\ CounterExists /\ RoundIsConsistent /\ NeverHalfRead
<1>1. Init => NoUsageLost
  BY DEF Init, NoUsageLost, Accounted, Due, Zero
<1>2. Inv /\ NoUsageLost /\ [Next]_vars => NoUsageLost'
  BY NoLossStep
<1>3. QED BY <1>1, <1>2, InvariantHolds, PTL DEF Spec

\* node/user.go:105-115: whichever kind of counter the core has, no failed push,
\* no restore, no user change and no reload makes a byte due again that was
\* acknowledged.
THEOREM UsageNeverDueTwice == Spec => []NothingDueTwice
<1> DEFINE Inv == TypeOK /\ CounterExists /\ RoundIsConsistent /\ NeverHalfRead
<1>1. Init => NothingDueTwice
  BY KeyType DEF Init, NothingDueTwice, Accounted, Due, Zero
<1>2. Inv /\ NothingDueTwice /\ [Next]_vars => NothingDueTwice'
  BY NoDoubleStep
<1>3. QED BY <1>1, <1>2, InvariantHolds, PTL DEF Spec

LedgerVars == <<used, [k \in Key |-> Due(k)], acked, billed, fails>>

\* One step of the accounting is one step of the ledger, or none.
LEMMA LedgerStep ==
  ASSUME TypeOK, RoundIsConsistent, NeverHalfRead, [Next]_vars
  PROVE  [Ledger!LedgerNext]_LedgerVars
<1> DEFINE Goal == [Ledger!LedgerNext]_LedgerVars
<1> DEFINE due == [k \in Key |-> Due(k)]
<1> DEFINE Kept == /\ UNCHANGED <<used, acked, billed, fails>>
                   /\ \A k \in Key : Due(k)' = Due(k)
<1> DEFINE Less == /\ UNCHANGED <<used, acked, billed, fails>>
                   /\ \A k \in Key : Due(k)' \in 0..Due(k)
<1> USE KeyType DEF TypeOK, RoundIsConsistent, nodeVars, coreVars, reportVars, dynVars, truthVars
<1>a. Kept => Goal
  BY DEF LedgerVars
<1>b. Less => Goal
  BY DEF Ledger!LedgerNext, Ledger!Lose
<1> USE DEF Due, Zero
<1>1. ASSUME ReadTag PROVE Kept
  BY <1>1 DEF ReadTag
<1>2. ASSUME ReadUsers PROVE Kept
  BY <1>2 DEF ReadUsers
<1>3. ASSUME NEW u \in User, ReadNothing(u) PROVE Kept
  BY <1>3 DEF ReadNothing
<1>4. ASSUME NEW u \in User, SwapCounter(u) PROVE Kept
  BY <1>4 DEF SwapCounter, OfRound
<1>5. ASSUME NEW u \in User, LoadCounter(u) PROVE Kept
  BY <1>5 DEF LoadCounter, OfRound
<1>6. ASSUME NEW u \in User, ResetCounter(u) PROVE Less
  BY <1>6 DEF ResetCounter, OfRound
<1>7. ASSUME NEW u \in User, ResetGone(u) PROVE Kept
  BY <1>7 DEF ResetGone
<1>8. ASSUME NEW u \in User, RestoreUserTraffic(u) PROVE Less
  BY <1>8 DEF RestoreUserTraffic, Restorable, OfRound
<1>9. ASSUME NothingToReport PROVE Kept
  BY <1>9 DEF NothingToReport, ReadingDone, RoundOver
<1>10. ASSUME PushAccepted PROVE Ledger!Settle
  <2>1. \A k \in Key : /\ due[k] = counter[k] + hand[k] /\ due'[k] = counter[k]
                       /\ acked'[k] = acked[k] + hand[k] /\ billed'[k] = billed[k] + hand[k]
    BY <1>10 DEF PushAccepted, ReadingDone, RoundOver, PanelApplies, PanelAnswers
  <2>2. UNCHANGED <<used, fails>>
    BY <1>10 DEF PushAccepted
  <2>3. \A k \in Key : /\ due'[k] \in 0..due[k]
                       /\ acked'[k] = acked[k] + (due[k] - due'[k])
                       /\ billed'[k] = billed[k] + (due[k] - due'[k])
    BY <2>1
  <2> QED BY <2>2, <2>3 DEF Ledger!Settle
<1>11. ASSUME PushNextPath PROVE Kept
  BY <1>11 DEF PushNextPath
<1>12. ASSUME RestoreDone PROVE Kept
  BY <1>12 DEF RestoreDone, RoundOver
<1>13. ASSUME PushFailed PROVE Ledger!Doubt
  <2>1. /\ fails' = fails + 1
        /\ UNCHANGED <<used, acked>>
        /\ due' = due
    BY <1>13 DEF PushFailed
  <2>2. \A k \in Key : due[k] = counter[k] + hand[k]
    BY <1>13 DEF PushFailed, ReadingDone
  <2>3. \A k \in Key : billed'[k] \in billed[k]..(billed[k] + due[k])
    BY <1>13, <2>2 DEF PushFailed, PanelApplies
  <2> QED BY <2>1, <2>3 DEF Ledger!Doubt
<1>14. ASSUME NEW t \in Tag, NEW u \in User, Connect(t, u) PROVE Kept
  BY <1>14 DEF Connect
<1>15. ASSUME NEW k \in Key, Transfer(k) PROVE Ledger!Use(k)
  <2>1. /\ used' = [used EXCEPT ![k] = @ + 1]
        /\ UNCHANGED <<acked, billed, fails>>
    BY <1>15 DEF Transfer
  <2>2. \A j \in Key : Due(j)' = IF j = k THEN Due(j) + 1 ELSE Due(j)
    BY <1>15 DEF Transfer
  <2>3. due' = [due EXCEPT ![k] = @ + 1]
    <3> HIDE DEF Due
    <3> QED BY <2>2
  <2> QED BY <2>1, <2>3 DEF Ledger!Use
<1>16. ASSUME NEW k \in Key, TransferUnread(k) PROVE Ledger!Use(k)
  <2>1. /\ used' = [used EXCEPT ![k] = @ + 1]
        /\ UNCHANGED <<acked, billed, fails>>
        /\ due' = due
    BY <1>16 DEF TransferUnread
  <2> QED BY <2>1 DEF Ledger!Use
<1>17. ASSUME SpeedChecker PROVE Kept
  BY <1>17 DEF SpeedChecker
<1>18. ASSUME NEW newList \in SUBSET User, NEW changed \in SUBSET User, DelUsers(newList, changed)
       PROVE  Less
  BY <1>18 DEF DelUsers
<1>19. ASSUME DelNode PROVE Less
  <2>1. UNCHANGED <<used, acked, billed, fails, hand, roundTag>>
    BY <1>19 DEF DelNode
  <2>2. ASSUME NEW k \in Key PROVE Due(k)' \in 0..Due(k)
    BY <1>19, <2>1 DEF DelNode
  <2> QED BY <2>1, <2>2
<1>20. ASSUME MonitorQuiet PROVE Kept
  BY <1>20, QuietFrame DEF Frame
<1>21. ASSUME UNCHANGED vars PROVE Kept
  BY <1>21 DEF vars
<1>22. Ledger!Settle \/ Ledger!Doubt \/ (\E k \in Key : Ledger!Use(k)) => Goal
  BY DEF Ledger!LedgerNext
<1> HIDE DEF Goal, Kept, Less, TypeOK, RoundIsConsistent, Due, Zero,
             nodeVars, coreVars, reportVars, dynVars, truthVars
<1>23. \/ Kept \/ Less \/ Ledger!Settle \/ Ledger!Doubt
       \/ \E k \in Key : Ledger!Use(k)
  BY <1>1, <1>2, <1>3, <1>4, <1>5, <1>6, <1>7, <1>8, <1>9, <1>10, <1>11, <1>12, <1>13, <1>14,
     <1>15, <1>16, <1>17, <1>18, <1>19, <1>20, <1>21, NextCases
<1> QED BY <1>a, <1>b, <1>22, <1>23 DEF Goal

\* The accounting implements the ledger: usage is due once until it is
\* acknowledged or lost, and the panel bills it again only for a report whose
\* answer was lost (api/panel/user.go:279-283), once for each of those.
THEOREM AccountingImplementsLedger == Spec => ImplementsLedger
<1> DEFINE Inv == TypeOK /\ CounterExists /\ RoundIsConsistent /\ NeverHalfRead
<1>1. Init => Ledger!LedgerInit
  BY KeyType DEF Init, Zero, Due, Ledger!LedgerInit
<1>2. Inv /\ [Next]_vars => [Ledger!LedgerNext]_<<used, [k \in Key |-> Due(k)], acked, billed, fails>>
  BY LedgerStep DEF LedgerVars
<1>3. QED
  BY <1>1, <1>2, InvariantHolds, PTL DEF Spec, ImplementsLedger, Ledger!LedgerSpec

-----------------------------------------------------------------------------
(* The dynamic limit *)

\* What of a user is in a counter and was not counted yet.
Unread(u) == Total(counter, u)

\* A user is throttled, or has usage counted, or still in its counters or loaded
\* from counters that are gone, only for bytes it has moved or that were put back.
Loaded(u) == IF phase[u] = "gone" THEN InRound(hand, u) ELSE 0
EarnedOrUnread ==
    \A u \in User : throttled[u] * Threshold + traffic[u] + Unread(u) + Loaded(u)
                       <= Total(used, u) + restored[u]

\* Sums of what is kept for a user are numbers, and agree where their terms do.
LEMMA TotalType ==
  ASSUME TypeOK, NEW u \in User, NEW f \in [Key -> Nat]
  PROVE  /\ Total(f, u) \in Nat /\ InRound(f, u) \in Nat
         /\ \A t \in {"t1", "t2"}, d \in {"up", "down"} : f[<<t, u, d>>] \in Nat
<1>1. \A t \in {"t1", "t2"}, d \in {"up", "down"} : f[<<t, u, d>>] \in Nat
  BY DEF Key, Tag, Dir
<1>2. \A d \in {"up", "down"} : f[<<roundTag, u, d>>] \in Nat
  BY <1>1 DEF TypeOK, Tag
<1> QED BY <1>1, <1>2 DEF Total, InRound

LEMMA TotalAgrees ==
  ASSUME TypeOK, NEW u \in User, NEW f \in [Key -> Nat], NEW g \in [Key -> Nat],
         \A k \in Key : Owner(k) = u => f[k] = g[k]
  PROVE  Total(f, u) = Total(g, u) /\ InRound(f, u) = InRound(g, u)
<1>1. \A t \in Tag, d \in Dir : f[<<t, u, d>>] = g[<<t, u, d>>]
  BY KeysOf DEF Dir
<1> QED BY <1>1 DEF Total, InRound, TypeOK, Tag, Dir

\* Where two differ for the tag of the round only, so do their sums.
LEMMA TotalDiffers ==
  ASSUME TypeOK, NEW u \in User, NEW f \in [Key -> Nat], NEW g \in [Key -> Nat],
         \A k \in Key : Owner(k) = u /\ TagOf(k) # roundTag => f[k] = g[k]
  PROVE  Total(f, u) + InRound(g, u) = Total(g, u) + InRound(f, u)
<1>1. \A t \in Tag, d \in Dir : t # roundTag => f[<<t, u, d>>] = g[<<t, u, d>>]
  BY KeysOf
<1>2. /\ \A t \in {"t1", "t2"}, d \in {"up", "down"} : f[<<t, u, d>>] \in Nat
      /\ \A t \in {"t1", "t2"}, d \in {"up", "down"} : g[<<t, u, d>>] \in Nat
  BY TotalType
<1>3. CASE roundTag = "t1"
  BY <1>1, <1>2, <1>3 DEF Total, InRound, Tag, Dir
<1>4. CASE roundTag = "t2"
  BY <1>1, <1>2, <1>4 DEF Total, InRound, Tag, Dir
<1> QED BY <1>3, <1>4 DEF TypeOK, Tag

\* One that has lost the tag of the round, or another one.
LEMMA TotalShrinks ==
  ASSUME TypeOK, NEW u \in User, NEW f \in [Key -> Nat], NEW g \in [Key -> Nat],
         \A k \in Key : g[k] <= f[k]
  PROVE  Total(g, u) <= Total(f, u) /\ InRound(g, u) <= InRound(f, u)
<1>1. \A t \in Tag, d \in Dir : g[<<t, u, d>>] <= f[<<t, u, d>>]
  BY KeysOf
<1>2. /\ \A t \in {"t1", "t2"}, d \in {"up", "down"} : f[<<t, u, d>>] \in Nat
      /\ \A t \in {"t1", "t2"}, d \in {"up", "down"} : g[<<t, u, d>>] \in Nat
  BY TotalType
<1>3. CASE roundTag = "t1"
  BY <1>1, <1>2, <1>3 DEF Total, InRound, Tag, Dir
<1>4. CASE roundTag = "t2"
  BY <1>1, <1>2, <1>4 DEF Total, InRound, Tag, Dir
<1> QED BY <1>3, <1>4 DEF TypeOK, Tag

\* Every step preserves EarnedOrUnread: a read moves bytes from the counter to the
\* count, a restore adds them on both sides, throttling takes Threshold of them.
LEMMA EarnedStep ==
  ASSUME TypeOK, TypeOK', RoundIsConsistent, EarnedOrUnread, [Next]_vars
  PROVE  EarnedOrUnread'
<1> SUFFICES ASSUME NEW u \in User
             PROVE  (throttled[u] * Threshold + traffic[u] + Unread(u) + Loaded(u)
                       <= Total(used, u) + restored[u])'
  BY DEF EarnedOrUnread
<1> DEFINE Goal == (throttled[u] * Threshold + traffic[u] + Unread(u) + Loaded(u)
                       <= Total(used, u) + restored[u])'
<1>a. throttled[u] * Threshold + traffic[u] + Unread(u) + Loaded(u) <= Total(used, u) + restored[u]
  BY DEF EarnedOrUnread
<1>b. /\ throttled[u] * Threshold \in Nat /\ Threshold \in Nat /\ throttled[u] \in Nat
      /\ traffic[u] \in Nat /\ restored[u] \in Nat /\ traffic'[u] \in Nat /\ restored'[u] \in Nat
  BY ReportAssumption DEF ReportAssumption, TypeOK
<1>c. /\ counter \in [Key -> Nat] /\ counter' \in [Key -> Nat] /\ hand \in [Key -> Nat]
      /\ hand' \in [Key -> Nat] /\ used \in [Key -> Nat] /\ used' \in [Key -> Nat]
  BY DEF TypeOK
<1>d. /\ Unread(u) \in Nat /\ Unread(u)' \in Nat /\ Total(used, u) \in Nat
      /\ InRound(counter, u) \in Nat /\ InRound(hand, u) \in Nat
  BY <1>c, TotalType DEF Unread, Total
<1>e. Loaded(u) \in Nat
  BY <1>d DEF Loaded
\* Steps that count nothing, of which the user's counters and round know nothing.
<1>f. ASSUME UNCHANGED throttled, UNCHANGED used, UNCHANGED roundTag,
             traffic'[u] <= traffic[u], restored'[u] >= restored[u],
             \A k \in Key : Owner(k) = u => counter'[k] = counter[k] /\ hand'[k] = hand[k],
             phase'[u] = "gone" <=> phase[u] = "gone"
      PROVE  Goal
  <2>1. Unread(u)' = Unread(u) /\ InRound(hand', u) = InRound(hand, u)
    BY <1>c, <1>f, TotalAgrees DEF Unread, Total
  <2>2. Loaded(u)' = Loaded(u) /\ Total(used, u)' = Total(used, u)
    BY <1>f, <2>1 DEF Loaded, InRound, Total
  <2> QED BY <1>a, <1>b, <1>d, <1>e, <1>f, <2>1, <2>2
<1>g. \A d \in Dir : LET k == <<roundTag, u, d>>
                     IN  /\ k \in Key /\ TagOf(k) = roundTag /\ Owner(k) = u
                         /\ hand[k] \in Nat /\ counter[k] \in Nat /\ counter'[k] \in Nat
  <2>1. \A d \in Dir : LET k == <<roundTag, u, d>>
                      IN  k \in Key /\ TagOf(k) = roundTag /\ Owner(k) = u
    BY KeysOf DEF TypeOK
  <2> QED BY <1>c, <2>1
<1> USE DEF nodeVars, coreVars, reportVars, dynVars, truthVars
<1>1. ASSUME ReadTag PROVE Goal
  <2>1. phase[u] = "idle" /\ phase' = phase
    BY <1>1 DEF ReadTag, RoundIsConsistent
  <2>2. Unread(u)' = Unread(u) /\ Loaded(u)' = Loaded(u) /\ Total(used, u)' = Total(used, u)
    BY <1>1, <2>1 DEF ReadTag, Unread, Loaded, Total
  <2> QED BY <1>1, <1>a, <2>2 DEF ReadTag
<1>2. ASSUME ReadUsers PROVE Goal
  <2>1. phase[u] = "idle" /\ phase'[u] \in {"idle", "todo"}
    BY <1>2 DEF ReadUsers, RoundIsConsistent
  <2> QED BY <1>2, <1>b, <1>f, <2>1 DEF ReadUsers
<1>3. ASSUME NEW v \in User, ReadNothing(v) PROVE Goal
  BY <1>3, <1>b, <1>f DEF ReadNothing, TypeOK
<1>4. ASSUME NEW v \in User, SwapCounter(v) PROVE Goal
  <2>1. CASE v # u
    BY <1>4, <1>b, <1>f, <2>1 DEF SwapCounter, CountTraffic, OfRound, TypeOK
  <2>2. CASE v = u
    <3>1. \A k \in Key : Owner(k) = u /\ TagOf(k) # roundTag => counter'[k] = counter[k]
      BY <1>4 DEF SwapCounter, OfRound
    <3>2. Total(counter', u) + InRound(counter, u) = Total(counter, u) + InRound(counter', u)
      BY <1>c, <3>1, TotalDiffers
    <3>3. InRound(counter', u) = 0
      BY <1>4, <2>2, KeysOf DEF SwapCounter, OfRound, InRound, TypeOK, Dir
    <3>4. /\ traffic'[u] = traffic[u] + InRound(counter, u) /\ Loaded(u) = 0 /\ Loaded(u)' = 0
          /\ UNCHANGED <<throttled, restored, used>>
      BY <1>4, <2>2 DEF SwapCounter, CountTraffic, Loaded, TypeOK
    <3>5. Unread(u)' + InRound(counter, u) = Unread(u)
      BY <1>d, <3>2, <3>3 DEF Unread, Total
    <3>6. Total(used, u)' = Total(used, u)
      BY <3>4 DEF Total
    <3> QED BY <1>a, <1>b, <1>d, <3>4, <3>5, <3>6
  <2> QED BY <2>1, <2>2
<1>5. ASSUME NEW v \in User, LoadCounter(v) PROVE Goal
  <2>1. CASE v # u
    BY <1>5, <1>b, <1>f, <2>1 DEF LoadCounter, OfRound, TypeOK
  <2>2. CASE v = u
    <3>1. /\ Loaded(u) = 0 /\ Loaded(u)' = 0 /\ Unread(u)' = Unread(u)
          /\ Total(used, u)' = Total(used, u)
          /\ UNCHANGED <<throttled, traffic, restored>>
      BY <1>5, <2>2 DEF LoadCounter, Loaded, Unread, Total, TypeOK
    <3> QED BY <1>a, <3>1
  <2> QED BY <2>1, <2>2
<1>6. ASSUME NEW v \in User, ResetCounter(v) PROVE Goal
  <2>1. CASE v # u
    BY <1>6, <1>b, <1>f, <2>1 DEF ResetCounter, CountTraffic, OfRound, TypeOK
  <2>2. CASE v = u
    <3>1. \A k \in Key : Owner(k) = u /\ TagOf(k) # roundTag => counter'[k] = counter[k]
      BY <1>6 DEF ResetCounter, OfRound
    <3>2. Total(counter', u) + InRound(counter, u) = Total(counter, u) + InRound(counter', u)
      BY <1>c, <3>1, TotalDiffers
    <3>3. InRound(counter', u) = 0
      BY <1>6, <2>2, KeysOf DEF ResetCounter, OfRound, InRound, TypeOK, Dir
    <3>4. /\ traffic'[u] = traffic[u] + InRound(hand, u) /\ Loaded(u) = 0 /\ Loaded(u)' = 0
          /\ UNCHANGED <<throttled, restored, used>>
      BY <1>6, <2>2 DEF ResetCounter, CountTraffic, Loaded, TypeOK
    <3>5. Unread(u)' + InRound(counter, u) = Unread(u)
      BY <1>d, <3>2, <3>3 DEF Unread, Total
    <3>6. Total(used, u)' = Total(used, u)
      BY <3>4 DEF Total
    <3>7. InRound(hand, u) <= InRound(counter, u)
      <4>1. \A d \in Dir : /\ hand[<<roundTag, u, d>>] <= counter[<<roundTag, u, d>>]
                           /\ hand[<<roundTag, u, d>>] \in Nat /\ counter[<<roundTag, u, d>>] \in Nat
        BY <1>6, <1>g, <2>2 DEF ResetCounter, RoundIsConsistent
      <4> QED BY <4>1 DEF InRound, Dir
    <3> QED BY <1>a, <1>b, <1>d, <3>4, <3>5, <3>6, <3>7
  <2> QED BY <2>1, <2>2
<1>7. ASSUME NEW v \in User, ResetGone(v) PROVE Goal
  <2>1. CASE v # u
    BY <1>7, <1>b, <1>f, <2>1 DEF ResetGone, CountTraffic, TypeOK
  <2>2. CASE v = u
    <3>1. /\ Loaded(u) = InRound(hand, u) /\ Loaded(u)' = 0 /\ Unread(u)' = Unread(u)
          /\ traffic'[u] = traffic[u] + InRound(hand, u) /\ Total(used, u)' = Total(used, u)
          /\ UNCHANGED <<throttled, restored>>
      BY <1>7, <2>2 DEF ResetGone, CountTraffic, Loaded, Unread, Total, TypeOK
    <3> QED BY <1>a, <1>b, <1>d, <3>1
  <2> QED BY <2>1, <2>2
<1>8. ASSUME NEW v \in User, RestoreUserTraffic(v) PROVE Goal
  <2>1. CASE v # u
    <3>1. \A k \in Key : Owner(k) = u => counter'[k] = counter[k] /\ hand'[k] = hand[k]
      BY <1>8, <2>1 DEF RestoreUserTraffic, OfRound, TypeOK
    <3> QED BY <1>8, <1>b, <1>f, <2>1, <3>1 DEF RestoreUserTraffic, TypeOK
  <2>2. CASE v = u
    <3>1. \A k \in Key : Owner(k) = u /\ TagOf(k) # roundTag => counter'[k] = counter[k]
      BY <1>8 DEF RestoreUserTraffic, OfRound, TypeOK
    <3>2. Total(counter', u) + InRound(counter, u) = Total(counter, u) + InRound(counter', u)
      BY <1>c, <3>1, TotalDiffers
    <3>3. InRound(counter', u) <= InRound(counter, u) + InRound(hand, u)
      <4>1. \A d \in Dir : /\ counter'[<<roundTag, u, d>>]
                               <= counter[<<roundTag, u, d>>] + hand[<<roundTag, u, d>>]
                          /\ hand[<<roundTag, u, d>>] \in Nat /\ counter[<<roundTag, u, d>>] \in Nat
                          /\ counter'[<<roundTag, u, d>>] \in Nat
        BY <1>8, <1>g, <2>2 DEF RestoreUserTraffic
      <4> QED BY <4>1 DEF InRound, Dir
    <3>4. /\ restored'[u] = restored[u] + InRound(hand, u) /\ Loaded(u) = 0 /\ Loaded(u)' = 0
          /\ UNCHANGED <<throttled, traffic, used>>
      BY <1>8, <2>2 DEF RestoreUserTraffic, Loaded, TypeOK
    <3>5. Unread(u)' <= Unread(u) + InRound(hand, u)
      <4>1. Unread(u)' = Total(counter', u) /\ Unread(u) = Total(counter, u)
        BY DEF Unread, Total
      <4>2. InRound(counter', u) \in Nat
        BY <1>c, TotalType
      <4> QED BY <1>d, <3>2, <3>3, <4>1, <4>2
    <3>6. Total(used, u)' = Total(used, u)
      BY <3>4 DEF Total
    <3> QED BY <1>a, <1>b, <1>d, <3>4, <3>5, <3>6
  <2> QED BY <2>1, <2>2
<1>9. ASSUME NothingToReport \/ PushNextPath \/ PushFailed \/ PushAccepted \/ RestoreDone PROVE Goal
  <2>1. UNCHANGED <<throttled, used, traffic, restored, counter>>
    BY <1>9 DEF NothingToReport, PushNextPath, PushFailed, PushAccepted, RestoreDone
  <2>2. phase[u] # "gone" /\ phase'[u] # "gone"
    BY <1>9 DEF NothingToReport, PushNextPath, PushFailed, PushAccepted, RestoreDone,
                ReadingDone, RoundOver
  <2>3. Loaded(u) = 0 /\ Loaded(u)' = 0 /\ Unread(u)' = Unread(u) /\ Total(used, u)' = Total(used, u)
    BY <2>1, <2>2 DEF Loaded, Unread, Total
  <2> QED BY <1>a, <2>1, <2>3
<1>10. ASSUME NEW t \in Tag, NEW v \in User, Connect(t, v) PROVE Goal
  BY <1>10, <1>b, <1>f DEF Connect
<1>11. ASSUME NEW k \in Key, Transfer(k) \/ TransferUnread(k) PROVE Goal
  <2>1. /\ UNCHANGED <<throttled, traffic, restored, hand, roundTag, phase>>
        /\ used' = [used EXCEPT ![k] = @ + 1]
        /\ counter' = counter \/ counter' = [counter EXCEPT ![k] = @ + 1]
    BY <1>11 DEF Transfer, TransferUnread
  <2>2. Loaded(u)' = Loaded(u)
    BY <2>1 DEF Loaded, InRound
  <2>3. Unread(u)' - Unread(u) <= Total(used, u)' - Total(used, u)
    <3>1. ASSUME NEW f \in [Key -> Nat]
          PROVE  Total([f EXCEPT ![k] = @ + 1], u) = Total(f, u) + IF Owner(k) = u THEN 1 ELSE 0
      <4> DEFINE g == [f EXCEPT ![k] = @ + 1]
      <4>1. g \in [Key -> Nat] /\ \A j \in Key : g[j] = f[j] + IF j = k THEN 1 ELSE 0
        OBVIOUS
      <4> HIDE DEF g
      <4>2. CASE Owner(k) # u
        <5>1. \A j \in Key : Owner(j) = u => g[j] = f[j]
          BY <4>1, <4>2
        <5>2. Total(g, u) = Total(f, u) /\ Total(f, u) \in Nat
          BY <4>1, <5>1, TotalAgrees, TotalType
        <5> QED BY <4>2, <5>2 DEF g
      <4>3. CASE Owner(k) = u
        <5>1. PICK t \in {"t1", "t2"}, d \in {"up", "down"} : k = <<t, u, d>>
          BY <4>3 DEF Key, Tag, Dir, Owner
        <5>2. \A s \in {"t1", "t2"}, e \in {"up", "down"} :
                 /\ g[<<s, u, e>>] = f[<<s, u, e>>] + IF s = t /\ e = d THEN 1 ELSE 0
                 /\ f[<<s, u, e>>] \in Nat
          BY <4>1, <5>1, KeysOf DEF Tag, Dir
        <5> QED BY <4>3, <5>2 DEF Total, g
      <4> QED BY <4>2, <4>3
    <3>2. Total(used', u) = Total(used, u) + IF Owner(k) = u THEN 1 ELSE 0
      BY <1>c, <2>1, <3>1
    <3>3. Total(counter', u) \in {Total(counter, u), Total(counter, u) + IF Owner(k) = u THEN 1 ELSE 0}
      BY <1>c, <2>1, <3>1
    <3>4. /\ Unread(u)' = Total(counter', u) /\ Unread(u) = Total(counter, u)
          /\ Total(used, u)' = Total(used', u)
      BY DEF Unread, Total
    <3> QED BY <1>d, <3>2, <3>3, <3>4
  <2>4. Total(used, u)' \in Nat
    BY <1>c, TotalType DEF Total
  <2> QED BY <1>a, <1>b, <1>d, <1>e, <2>1, <2>2, <2>3, <2>4
<1>12. ASSUME SpeedChecker PROVE Goal
  <2>1. Loaded(u)' = Loaded(u) /\ Unread(u)' = Unread(u) /\ Total(used, u)' = Total(used, u)
    BY <1>12 DEF SpeedChecker, Loaded, InRound, Unread, Total
  <2>2. CASE traffic[u] >= Threshold
    <3>1. throttled'[u] = throttled[u] + 1 /\ traffic'[u] = 0 /\ restored' = restored
      BY <1>12, <2>2 DEF SpeedChecker
    <3>2. (throttled[u] + 1) * Threshold = throttled[u] * Threshold + Threshold
      BY <1>b
    <3> QED BY <1>a, <1>b, <1>d, <1>e, <2>1, <2>2, <3>1, <3>2
  <2>3. CASE ~(traffic[u] >= Threshold)
    <3>1. throttled'[u] = throttled[u] /\ traffic'[u] = traffic[u] /\ restored' = restored
      BY <1>12, <2>3 DEF SpeedChecker, TypeOK
    <3> QED BY <1>a, <2>1, <3>1
  <2> QED BY <2>2, <2>3
<1>13. ASSUME NEW newList \in SUBSET User, NEW changed \in SUBSET User, DelUsers(newList, changed)
       PROVE  Goal
  <2>1. UNCHANGED <<throttled, traffic, restored, used, hand, roundTag, phase>>
    BY <1>13 DEF DelUsers
  <2>2. \A k \in Key : counter'[k] <= counter[k]
    BY <1>13 DEF DelUsers, TypeOK
  <2>3. Unread(u)' <= Unread(u)
    BY <1>c, <2>2, TotalShrinks DEF Unread, Total
  <2>4. Loaded(u)' = Loaded(u) /\ Total(used, u)' = Total(used, u)
    BY <2>1 DEF Loaded, InRound, Total
  <2> QED BY <1>a, <1>b, <1>d, <1>e, <2>1, <2>3, <2>4
<1>14. ASSUME DelNode PROVE Goal
  <2>1. UNCHANGED <<throttled, traffic, restored, used, hand, roundTag>>
    BY <1>14 DEF DelNode
  <2>2. \A k \in Key : counter'[k] <= counter[k]
    BY <1>14 DEF DelNode, TypeOK
  <2>3. Unread(u)' <= Unread(u) /\ Total(used, u)' = Total(used, u)
    BY <1>c, <2>1, <2>2, TotalShrinks DEF Unread, Total
  <2>4. CASE phase'[u] = phase[u]
    <3>1. Loaded(u)' = Loaded(u)
      BY <2>1, <2>4 DEF Loaded, InRound
    <3> QED BY <1>a, <1>b, <1>d, <1>e, <2>1, <2>3, <3>1
  <2>5. CASE phase'[u] # phase[u]
    <3>1. phase[u] = "loaded" /\ phase'[u] = "gone" /\ core = "hysteria2" /\ roundTag = tag
      BY <1>14, <2>5 DEF DelNode, TypeOK
    <3>2. \A k \in Key : /\ TagOf(k) # roundTag => counter'[k] = counter[k]
                         /\ TagOf(k) = roundTag => counter'[k] = 0
      BY <1>14, <3>1 DEF DelNode
    <3>3. Total(counter', u) + InRound(counter, u) = Total(counter, u) + InRound(counter', u)
      <4>1. \A k \in Key : Owner(k) = u /\ TagOf(k) # roundTag => counter'[k] = counter[k]
        BY <3>2
      <4> QED BY <1>c, <4>1, TotalDiffers
    <3>4. InRound(counter', u) = 0
      BY <3>2, KeysOf DEF InRound, TypeOK, Dir
    <3>5. InRound(hand, u) <= InRound(counter, u)
      <4>1. \A d \in Dir : /\ hand[<<roundTag, u, d>>] <= counter[<<roundTag, u, d>>]
                           /\ hand[<<roundTag, u, d>>] \in Nat /\ counter[<<roundTag, u, d>>] \in Nat
        <5>1. \A k \in Key : Owner(k) = u => hand[k] <= counter[k]
          BY <3>1 DEF RoundIsConsistent
        <5> QED BY <1>g, <5>1
      <4> QED BY <4>1 DEF InRound, Dir
    <3>6. Loaded(u) = 0 /\ Loaded(u)' = InRound(hand, u)
      BY <2>1, <3>1 DEF Loaded, InRound
    <3>7. Unread(u)' + InRound(counter, u) = Unread(u)
      BY <1>d, <3>3, <3>4 DEF Unread, Total
    <3> QED BY <1>a, <1>b, <1>d, <2>1, <2>3, <3>5, <3>6, <3>7
  <2> QED BY <2>4, <2>5
<1>15. ASSUME MonitorQuiet PROVE Goal
  <2>1. traffic'[u] <= traffic[u] /\ restored'[u] >= restored[u]
    BY <1>15, <1>b, QuietFrame DEF Frame
  <2> QED BY <1>15, <1>f, <2>1, QuietFrame DEF Frame
<1>16. ASSUME UNCHANGED vars PROVE Goal
  BY <1>16, <1>b, <1>f DEF vars
<1> HIDE DEF Goal
<1> QED
  <2>1. Goal
    BY <1>1, <1>2, <1>3, <1>4, <1>5, <1>6, <1>7, <1>8, <1>9, <1>10, <1>11, <1>12, <1>13, <1>14,
       <1>15, <1>16, NextCases
  <2> QED BY <2>1 DEF Goal

\* node/user.go:28-31: a user is throttled only for bytes that were moved, at
\* least Threshold of them each time; those a failed push has put back count
\* again.
THEOREM ThrottlingIsEarned == Spec => []ThrottleIsEarned
<1> DEFINE Inv == TypeOK /\ CounterExists /\ RoundIsConsistent /\ NeverHalfRead
<1>1. Init => EarnedOrUnread
  <2>1. 0 * Threshold = 0
    BY ReportAssumption DEF ReportAssumption
  <2> SUFFICES ASSUME Init, NEW u \in User
               PROVE  throttled[u] * Threshold + traffic[u] + Unread(u) + Loaded(u)
                        <= Total(used, u) + restored[u]
    BY DEF EarnedOrUnread
  <2>2. throttled[u] = 0 /\ traffic[u] = 0 /\ restored[u] = 0 /\ Loaded(u) = 0
    BY DEF Init, Loaded, NoUserTraffic
  <2>3. Unread(u) = 0 /\ Total(used, u) = 0
    BY KeysOf DEF Init, Unread, Total, Zero, Tag
  <2> QED BY <2>1, <2>2, <2>3
<1>2. Inv /\ Inv' /\ EarnedOrUnread /\ [Next]_vars => EarnedOrUnread'
  BY EarnedStep
<1>3. Inv /\ EarnedOrUnread => ThrottleIsEarned
  <2> SUFFICES ASSUME Inv, EarnedOrUnread, NEW u \in User
               PROVE  throttled[u] * Threshold + traffic[u] <= Total(used, u) + restored[u]
    BY DEF ThrottleIsEarned
  <2>1. throttled[u] * Threshold \in Nat /\ traffic[u] \in Nat /\ restored[u] \in Nat
    BY ReportAssumption DEF ReportAssumption, TypeOK
  <2>2. Unread(u) \in Nat /\ Loaded(u) \in Nat /\ Total(used, u) \in Nat
    BY TotalType DEF Unread, Loaded, TypeOK
  <2> QED BY <2>1, <2>2 DEF EarnedOrUnread
<1> QED BY <1>1, <1>2, <1>3, InvariantHolds, PTL DEF Spec

=============================================================================
