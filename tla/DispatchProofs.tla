--------------------------- MODULE DispatchProofs ----------------------------
(***************************************************************************)
(* Proofs about ConnLimiter and Dispatch, for any connections, addresses   *)
(* and limits.                                                             *)
(*                                                                         *)
(* First the limiter, whose calls and sweep overlap in any way.  Its slots *)
(* are exact until one of them writes over what it has not seen (raced):   *)
(* a compare-and-swap in the places of the plain Stores and Deletes would  *)
(* rule that out, and the proofs show that nothing else is missing.  The   *)
(* lemmas are about every step a caller may cause, those of Next and those *)
(* of a caller that assigns connections and rejects them in its own way.   *)
(*                                                                         *)
(* Then what a connection meets on its way through a node that is          *)
(* reloaded, and that the limiter it goes through sees nothing but such    *)
(* steps, so that the proofs about it carry over.                          *)
(***************************************************************************)
EXTENDS Dispatch, FiniteSetTheorems, TLAPS

\* A connection that is not in the limiter gets another address and network.
Readdress(c, i, k) ==
    /\ pc[c] = "idle"
    /\ ip' = [ip EXCEPT ![c] = i] /\ kind' = [kind EXCEPT ![c] = k]
    /\ UNCHANGED <<user, pc, held, seen, sweep, sweeps, conf, raced>>

\* A connection that is open ends without giving back its slots.
Abandon(c) ==
    /\ pc[c] = "open"
    /\ Goto(c, "idle")
    /\ later' = IF kind[c] = "tcp" THEN later + 1 ELSE later
    /\ later' <= MaxLater
    /\ UNCHANGED <<user, call, sweep, sweeps, connLimit, realtime, undone, raced>>

CallerNext ==
    \/ Next
    \/ \E c \in Conn :
          \/ \E i \in IP, k \in Kinds : Readdress(c, i, k)
          \/ Abandon(c)

-----------------------------------------------------------------------------
(* The inductive invariant *)

Sweeping == [map : Map \cup {NoMap}, todo : SUBSET IP, due : SUBSET IP,
             kept : BOOLEAN, drop : BOOLEAN]

\* What a call, and the sweep, has found on its way to where it is
CallState ==
    /\ \A c \in Conn :
          /\ pc[c] \in {"undoStore", "delStore"} => seen[c] > 0
          /\ pc[c] = "addStore" => seen[c] >= 0
          /\ pc[c] = "ipDelStore" => seen[c] # 0
          /\ pc[c] \in {"addLoad", "addStore", "delLoad", "delStore", "ipDelGet", "ipDelLoad",
                        "ipDelStore", "ipDelCheck", "ipDelDrop"} => kind[c] = "tcp"
          /\ pc[c] \in {"ipDelGet", "ipDelLoad", "ipDelStore", "ipDelCheck", "ipDelDrop"} =>
                realtime /\ IPLimit # 0
          /\ pc[c] \in Holding => held[c] \in Map
    /\ sweep.due # {} \/ sweep.drop => sweep.map \in Map

\* The connections count is about, those in the middle of a call included
Slots == {c \in Conn : /\ kind[c] = "tcp"
                       /\ pc[c] \in {"passed", "open", "ipGet", "ipLoad", "ipRange", "ipStore",
                                     "undoLoad", "undoStore", "delLoad", "delStore"}}

Adding == {"addLoad", "addStore"}

\* The slots that were never given back are those of connections rejected later.
CountExact ==
    /\ count = Cardinality(Slots) + later
    /\ count <= connLimit
    /\ \A c \in Conn : pc[c] \in Adding => seen[c] < connLimit

CountFollows == ~raced /\ connLimit # 0 /\ ~undone => CountExact

\* A map that is not the user's is empty.
OrphansEmpty == ~raced => \A m \in Map : m # cur => \A i \in IP : maps[m][i] = 0

\* The connections the entry of an address is about
IPSlots(i) == {c \in Conn : /\ kind[c] = "tcp" /\ ip[c] = i
                            /\ pc[c] \in {"passed", "open", "delLoad", "delStore",
                                          "ipDelGet", "ipDelLoad", "ipDelStore"}}

IPExact(i) ==
    /\ Registered(i) >= 2 * Cardinality(IPSlots(i))
    /\ later = 0 => Registered(i) <= 2 * Cardinality(IPSlots(i)) + 1

\* A call that takes an address back works on the map of the user.
DelHoldsCur ==
    \A c \in Conn : pc[c] \in {"ipDelLoad", "ipDelStore"} => held[c] = cur

IPsFollow ==
    ~raced /\ realtime /\ IPLimit # 0 => (\A i \in IP : IPExact(i)) /\ DelHoldsCur

IPsFit ==
    ~raced /\ IPLimit # 0 => IsFiniteSet(OnlineIPs) /\ Cardinality(OnlineIPs) <= IPLimit

\* Every step keeps the variables within their types.
LEMMA TypeStep ==
  ASSUME TypeOK, CallState, [CallerNext]_vars
  PROVE  TypeOK'
<1> USE ConnAssumption
    DEF ConnAssumption, TypeOK, Place, Outside, Holding, user, call, conf, CallState
<1>1. ASSUME NEW c \in Conn, NEW i \in IP, NEW k \in Kinds, Accept(c, i, k)
      PROVE  TypeOK'
  BY <1>1 DEF Accept, Goto
<1>2. ASSUME NEW c \in Conn, CheckConnLimit(c) PROVE TypeOK'
  BY <1>2 DEF CheckConnLimit, Goto, See, Hold, Drop, AfterLimit
<1>3. ASSUME NEW c \in Conn, AddLoad(c) PROVE TypeOK'
  BY <1>3 DEF AddLoad, Goto, See, RacedIf
<1>4. ASSUME NEW c \in Conn, AddStore(c) PROVE TypeOK'
  BY <1>4 DEF AddStore, Goto, RacedIf
<1>5. ASSUME NEW c \in Conn, IPGet(c) PROVE TypeOK'
  <2>1. \A m \in Map : [maps EXCEPT ![m] = [i \in IP |-> 0]] \in [Map -> [IP -> Int]]
    OBVIOUS
  <2>2. cur' \in Map \cup {NoMap} /\ maps' \in [Map -> [IP -> Int]]
    BY <1>5, <2>1 DEF IPGet
  <2>3. held' \in [Conn -> Map \cup {NoMap}] /\ pc' \in [Conn -> Place]
    BY <1>5 DEF IPGet, Goto, Hold
  <2> QED BY <1>5, <2>2, <2>3 DEF IPGet
<1>6. ASSUME NEW c \in Conn, IPLoad(c) PROVE TypeOK'
  BY <1>6 DEF IPLoad, Goto, See
<1>7. ASSUME NEW c \in Conn, IPRange(c) PROVE TypeOK'
  BY <1>7 DEF IPRange, Goto, See, Hold, Drop
<1>8. ASSUME NEW c \in Conn, IPStore(c) PROVE TypeOK'
  BY <1>8 DEF IPStore, Goto, See, Hold, Drop, Put, RacedIf
<1>9. ASSUME NEW c \in Conn, UndoLoad(c) PROVE TypeOK'
  BY <1>9 DEF UndoLoad, Goto, See, Hold, Drop
<1>10. ASSUME NEW c \in Conn, UndoStore(c) PROVE TypeOK'
  BY <1>10 DEF UndoStore, Goto, See, Hold, Drop, RacedIf
<1>11. ASSUME NEW c \in Conn, DelLoad(c) PROVE TypeOK'
  BY <1>11 DEF DelLoad, Goto, See, Hold, Drop, AfterCount
<1>12. ASSUME NEW c \in Conn, DelStore(c) PROVE TypeOK'
  BY <1>12 DEF DelStore, Goto, See, Hold, Drop, AfterCount, RacedIf
<1>13. ASSUME NEW c \in Conn, IPDelGet(c) PROVE TypeOK'
  BY <1>13 DEF IPDelGet, Goto, See, Hold, Drop
<1>14. ASSUME NEW c \in Conn, IPDelLoad(c) PROVE TypeOK'
  BY <1>14 DEF IPDelLoad, Goto, See, Hold, Drop
<1>15. ASSUME NEW c \in Conn, IPDelStore(c) PROVE TypeOK'
  BY <1>15 DEF IPDelStore, Goto, Put, RacedIf
<1>16. ASSUME NEW c \in Conn, IPDelCheck(c) PROVE TypeOK'
  <2>1. Drop(c, "idle") \/ (Goto(c, "ipDelDrop") /\ UNCHANGED <<held, seen>>)
    BY <1>16 DEF IPDelCheck
  <2>2. pc' \in [Conn -> Place] /\ seen' \in [Conn -> Int] /\ held' \in [Conn -> Map \cup {NoMap}]
    BY <2>1 DEF Goto, See, Hold, Drop
  <2> QED BY <1>16, <2>2 DEF IPDelCheck
<1>17. ASSUME NEW c \in Conn, IPDelDrop(c) PROVE TypeOK'
  <2>1. raced' \in BOOLEAN
    BY <1>17, Zenon DEF IPDelDrop, RacedIf
  <2>2. pc' \in [Conn -> Place] /\ seen' \in [Conn -> Int] /\ held' \in [Conn -> Map \cup {NoMap}]
    BY <1>17 DEF IPDelDrop, Goto, See, Hold, Drop
  <2> QED BY <1>17, <2>1, <2>2 DEF IPDelDrop
<1>18. ASSUME NEW c \in Conn, Pass(c) PROVE TypeOK'
  BY <1>18 DEF Pass, Goto
<1>19. ASSUME NEW c \in Conn, RejectLater(c) PROVE TypeOK'
  BY <1>19 DEF RejectLater, Goto
<1>20. ASSUME NEW c \in Conn, CloseUDP(c) PROVE TypeOK'
  BY <1>20 DEF CloseUDP, Goto
<1>21. ASSUME NEW c \in Conn, CloseTCP(c) PROVE TypeOK'
  BY <1>21 DEF CloseTCP, Goto
<1>22. CASE SweepStart
  <2>1. [NoSweep EXCEPT !.map = cur, !.todo = IP] \in Sweeping
    BY DEF NoSweep, Sweeping
  <2>2. sweep' \in Sweeping /\ sweeps' \in 0..MaxSweeps
    BY <1>22, <2>1 DEF SweepStart
  <2> QED BY <1>22, <2>2 DEF SweepStart, Sweeping
<1>23. ASSUME NEW i \in IP, SweepLoad(i) PROVE TypeOK'
  <2> DEFINE looked == [sweep EXCEPT !.todo = @ \ {i}]
  <2>1. sweep \in Sweeping /\ {i} \in SUBSET IP /\ sweep.todo \ {i} \in SUBSET IP
    BY DEF Sweeping
  <2>2. looked \in Sweeping
    BY <2>1 DEF Sweeping
  <2>3. [looked EXCEPT !.due = {i}] \in Sweeping /\ [looked EXCEPT !.kept = TRUE] \in Sweeping
    BY <2>1, <2>2 DEF Sweeping
  <2>4. sweep' \in Sweeping
    BY <1>23, <2>2, <2>3 DEF SweepLoad
  <2> QED BY <1>23, <2>4 DEF SweepLoad, Sweeping
<1>24. ASSUME NEW i \in IP, SweepDelete(i) PROVE TypeOK'
  <2>1. raced' \in BOOLEAN
    BY <1>24, Zenon DEF SweepDelete, RacedIf
  <2>2. sweep' \in Sweeping
    <3>1. sweep \in Sweeping /\ {} \in SUBSET IP
      BY DEF Sweeping
    <3>2. [sweep EXCEPT !.due = {}] \in Sweeping
      BY <3>1 DEF Sweeping
    <3> QED BY <1>24, <3>2 DEF SweepDelete
  <2>3. maps' \in [Map -> [IP -> Int]]
    BY <1>24 DEF SweepDelete, Put
  <2> QED BY <1>24, <2>1, <2>2, <2>3 DEF SweepDelete, Sweeping
<1>25. CASE SweepCheck
  <2>1. NoSweep \in Sweeping /\ [sweep EXCEPT !.drop = TRUE] \in Sweeping
    BY DEF NoSweep, Sweeping
  <2>2. sweep' \in Sweeping
    BY <1>25, <2>1 DEF SweepCheck
  <2> QED BY <1>25, <2>2 DEF SweepCheck, Sweeping
<1>26. CASE SweepDrop
  <2>1. raced' \in BOOLEAN
    BY <1>26, Zenon DEF SweepDrop, RacedIf
  <2>2. sweep' \in Sweeping
    BY <1>26 DEF SweepDrop, NoSweep, Sweeping
  <2> QED BY <1>26, <2>1, <2>2 DEF SweepDrop, Sweeping
<1>27. ASSUME NEW c \in Conn, NEW i \in IP, NEW k \in Kinds, Readdress(c, i, k)
      PROVE  TypeOK'
  BY <1>27 DEF Readdress
<1>28. ASSUME NEW c \in Conn, Abandon(c) PROVE TypeOK'
  BY <1>28 DEF Abandon, Goto
<1>29. CASE UNCHANGED vars
  BY <1>29 DEF vars
<1> HIDE DEF ConnAssumption, TypeOK, Place, Outside, Holding, user, call, conf, CallState
<1> QED
  BY <1>1, <1>2, <1>3, <1>4, <1>5, <1>6, <1>7, <1>8, <1>9, <1>10, <1>11, <1>12, <1>13,
     <1>14, <1>15, <1>16, <1>17, <1>18, <1>19, <1>20, <1>21, <1>22, <1>23, <1>24,
     <1>25, <1>26, <1>27, <1>28, <1>29
  DEF CallerNext, Next, Step, ClearOnlineIP

\* Every step preserves CallState.
LEMMA CallStep ==
  ASSUME TypeOK, CallState, [CallerNext]_vars
  PROVE  CallState'
<1> USE ConnAssumption
    DEF ConnAssumption, TypeOK, Place, Outside, Holding, user, call, conf, CallState
<1>1. ASSUME NEW c \in Conn, NEW i \in IP, NEW k \in Kinds, Accept(c, i, k)
      PROVE  CallState'
  BY <1>1 DEF Accept, Goto
<1>2. ASSUME NEW c \in Conn, CheckConnLimit(c) PROVE CallState'
  BY <1>2 DEF CheckConnLimit, Goto, See, Hold, Drop, AfterLimit
<1>3. ASSUME NEW c \in Conn, AddLoad(c) PROVE CallState'
  BY <1>3 DEF AddLoad, Goto, See, RacedIf
<1>4. ASSUME NEW c \in Conn, AddStore(c) PROVE CallState'
  BY <1>4 DEF AddStore, Goto, RacedIf
<1>5. ASSUME NEW c \in Conn, IPGet(c) PROVE CallState'
  BY <1>5 DEF IPGet, Goto, Hold
<1>6. ASSUME NEW c \in Conn, IPLoad(c) PROVE CallState'
  BY <1>6 DEF IPLoad, Goto, See
<1>7. ASSUME NEW c \in Conn, IPRange(c) PROVE CallState'
  BY <1>7 DEF IPRange, Goto, See, Hold, Drop
<1>8. ASSUME NEW c \in Conn, IPStore(c) PROVE CallState'
  BY <1>8 DEF IPStore, Goto, See, Hold, Drop, Put, RacedIf
<1>9. ASSUME NEW c \in Conn, UndoLoad(c) PROVE CallState'
  BY <1>9 DEF UndoLoad, Goto, See, Hold, Drop
<1>10. ASSUME NEW c \in Conn, UndoStore(c) PROVE CallState'
  BY <1>10 DEF UndoStore, Goto, See, Hold, Drop, RacedIf
<1>11. ASSUME NEW c \in Conn, DelLoad(c) PROVE CallState'
  BY <1>11 DEF DelLoad, Goto, See, Hold, Drop, AfterCount
<1>12. ASSUME NEW c \in Conn, DelStore(c) PROVE CallState'
  BY <1>12 DEF DelStore, Goto, See, Hold, Drop, AfterCount, RacedIf
<1>13. ASSUME NEW c \in Conn, IPDelGet(c) PROVE CallState'
  BY <1>13 DEF IPDelGet, Goto, See, Hold, Drop
<1>14. ASSUME NEW c \in Conn, IPDelLoad(c) PROVE CallState'
  BY <1>14 DEF IPDelLoad, Goto, See, Hold, Drop
<1>15. ASSUME NEW c \in Conn, IPDelStore(c) PROVE CallState'
  BY <1>15 DEF IPDelStore, Goto, Put, RacedIf
<1>16. ASSUME NEW c \in Conn, IPDelCheck(c) PROVE CallState'
  BY <1>16 DEF IPDelCheck, Goto, See, Hold, Drop
<1>17. ASSUME NEW c \in Conn, IPDelDrop(c) PROVE CallState'
  BY <1>17 DEF IPDelDrop, Goto, See, Hold, Drop, RacedIf
<1>18. ASSUME NEW c \in Conn, Pass(c) PROVE CallState'
  BY <1>18 DEF Pass, Goto
<1>19. ASSUME NEW c \in Conn, RejectLater(c) PROVE CallState'
  BY <1>19 DEF RejectLater, Goto
<1>20. ASSUME NEW c \in Conn, CloseUDP(c) PROVE CallState'
  BY <1>20 DEF CloseUDP, Goto
<1>21. ASSUME NEW c \in Conn, CloseTCP(c) PROVE CallState'
  BY <1>21 DEF CloseTCP, Goto
<1>22. CASE SweepStart
  BY <1>22 DEF SweepStart, NoSweep
<1>23. ASSUME NEW i \in IP, SweepLoad(i) PROVE CallState'
  BY <1>23 DEF SweepLoad
<1>24. ASSUME NEW i \in IP, SweepDelete(i) PROVE CallState'
  BY <1>24 DEF SweepDelete, Put, RacedIf
<1>25. CASE SweepCheck
  BY <1>25 DEF SweepCheck, NoSweep
<1>26. CASE SweepDrop
  BY <1>26 DEF SweepDrop, NoSweep, RacedIf
<1>27. ASSUME NEW c \in Conn, NEW i \in IP, NEW k \in Kinds, Readdress(c, i, k)
      PROVE  CallState'
  BY <1>27 DEF Readdress
<1>28. ASSUME NEW c \in Conn, Abandon(c) PROVE CallState'
  BY <1>28 DEF Abandon, Goto
<1>29. CASE UNCHANGED vars
  BY <1>29 DEF vars
<1> HIDE DEF ConnAssumption, TypeOK, Place, Outside, Holding, user, call, conf, CallState
<1> QED
  BY <1>1, <1>2, <1>3, <1>4, <1>5, <1>6, <1>7, <1>8, <1>9, <1>10, <1>11, <1>12, <1>13,
     <1>14, <1>15, <1>16, <1>17, <1>18, <1>19, <1>20, <1>21, <1>22, <1>23, <1>24,
     <1>25, <1>26, <1>27, <1>28, <1>29
  DEF CallerNext, Next, Step, ClearOnlineIP

\* There are finitely many connections.
LEMMA SlotsFinite ==
  /\ IsFiniteSet(Slots) /\ Cardinality(Slots) \in Nat
  /\ \A i : IsFiniteSet(IPSlots(i)) /\ Cardinality(IPSlots(i)) \in Nat
<1>1. Slots \subseteq Conn /\ \A i : IPSlots(i) \subseteq Conn
  BY DEF Slots, IPSlots
<1> QED BY <1>1, ConnAssumption, FS_Subset, FS_CardinalityType DEF ConnAssumption

\* A step that takes no slot and gives none back
LEMMA CountKept ==
  ASSUME CountFollows, Slots' = Slots, UNCHANGED <<count, connLimit, undone, later>>,
         ~raced' => ~raced,
         \A e \in Conn : pc'[e] \in Adding => pc[e] \in Adding /\ seen'[e] = seen[e]
  PROVE  CountFollows'
BY DEF CountFollows, CountExact

\* Every step preserves CountFollows.
LEMMA CountStep ==
  ASSUME TypeOK, CallState, CountFollows, [CallerNext]_vars
  PROVE  CountFollows'
<1> USE ConnAssumption
    DEF ConnAssumption, TypeOK, Place, Outside, Holding, user, call, conf
<1>1. ASSUME NEW c \in Conn, NEW i \in IP, NEW k \in Kinds, Accept(c, i, k)
      PROVE  CountFollows'
  <2> SUFFICES ASSUME ~raced', connLimit # 0, ~undone, CountExact PROVE CountExact'
    <3>1. connLimit' # 0 /\ ~undone' /\ ~raced' => connLimit # 0 /\ ~undone /\ ~raced
      BY <1>1, Zenon DEF Accept, RacedIf, conf
    <3> QED BY <3>1 DEF CountFollows
  <2>1. Slots' = Slots
    BY <1>1 DEF Accept, Goto, Slots
  <2>2. \A e \in Conn : pc'[e] \in Adding => pc[e] \in Adding /\ seen'[e] = seen[e]
    BY <1>1 DEF Accept, Goto, Adding
  <2> QED BY <1>1, <2>1, <2>2 DEF Accept, CountExact
<1>2. ASSUME NEW c \in Conn, CheckConnLimit(c) PROVE CountFollows'
  <2> SUFFICES ASSUME ~raced', connLimit # 0, ~undone, CountExact PROVE CountExact'
    <3>1. connLimit' # 0 /\ ~undone' /\ ~raced' => connLimit # 0 /\ ~undone /\ ~raced
      BY <1>2, Zenon DEF CheckConnLimit, RacedIf, conf
    <3> QED BY <3>1 DEF CountFollows
  <2>1. Slots' = Slots
    BY <1>2 DEF CheckConnLimit, Goto, See, Hold, Drop, AfterLimit, Slots
  <2>2. \A e \in Conn : pc'[e] \in Adding => seen'[e] < connLimit
    BY <1>2 DEF CheckConnLimit, Goto, See, Hold, Drop, AfterLimit, Adding, CountExact
  <2> QED BY <1>2, <2>1, <2>2 DEF CheckConnLimit, CountExact
<1>3. ASSUME NEW c \in Conn, AddLoad(c) PROVE CountFollows'
  <2> SUFFICES ASSUME ~raced', connLimit # 0, ~undone, CountExact PROVE CountExact'
    <3>1. connLimit' # 0 /\ ~undone' /\ ~raced' => connLimit # 0 /\ ~undone /\ ~raced
      BY <1>3, Zenon DEF AddLoad, RacedIf, conf
    <3> QED BY <3>1 DEF CountFollows
  <2>1. Slots' = Slots
    BY <1>3 DEF AddLoad, Goto, See, RacedIf, Slots
  <2>2. count = seen[c]
    BY <1>3, Zenon DEF AddLoad, RacedIf
  <2>3. \A e \in Conn : pc'[e] \in Adding => seen'[e] < connLimit
    BY <1>3, <2>2 DEF AddLoad, Goto, See, Adding, CountExact
  <2> QED BY <1>3, <2>1, <2>3 DEF AddLoad, CountExact
<1>4. ASSUME NEW c \in Conn, AddStore(c) PROVE CountFollows'
  <2> SUFFICES ASSUME ~raced', connLimit # 0, ~undone, CountExact PROVE CountExact'
    <3>1. connLimit' # 0 /\ ~undone' /\ ~raced' => connLimit # 0 /\ ~undone /\ ~raced
      BY <1>4, Zenon DEF AddStore, RacedIf, conf
    <3> QED BY <3>1 DEF CountFollows
  <2>1. count = seen[c]
    BY <1>4, Zenon DEF AddStore, RacedIf
  <2>2. kind[c] = "tcp" /\ count < connLimit /\ c \notin Slots
    BY <1>4, <2>1 DEF AddStore, CallState, CountExact, Slots, Adding
  <2>3. Slots' = Slots \cup {c}
    BY <1>4, <2>2 DEF AddStore, Goto, Slots
  <2>4. Cardinality(Slots') = Cardinality(Slots) + 1
    BY <2>2, <2>3, SlotsFinite, FS_AddElement
  <2>5. \A e \in Conn : pc'[e] \in Adding => pc[e] \in Adding /\ seen'[e] = seen[e]
    BY <1>4 DEF AddStore, Goto, Adding
  <2>6. count' = count + 1 /\ UNCHANGED <<connLimit, later>>
    BY <1>4, <2>1 DEF AddStore
  <2> QED BY <2>2, <2>4, <2>5, <2>6, SlotsFinite DEF CountExact
<1>5. ASSUME NEW c \in Conn, IPGet(c) PROVE CountFollows'
  <2>1. Slots' = Slots /\ UNCHANGED <<count, connLimit, undone, later>>
    BY <1>5 DEF IPGet, Goto, Hold, Slots
  <2>2. ~raced' => ~raced
    BY <1>5, Zenon DEF IPGet, RacedIf
  <2>3. \A e \in Conn : pc'[e] \in Adding => pc[e] \in Adding /\ seen'[e] = seen[e]
    BY <1>5 DEF IPGet, Goto, Hold, Adding
  <2> QED BY <2>1, <2>2, <2>3, CountKept
<1>6. ASSUME NEW c \in Conn, IPLoad(c) PROVE CountFollows'
  <2>1. Slots' = Slots /\ UNCHANGED <<count, connLimit, undone, later>>
    BY <1>6 DEF IPLoad, Goto, See, Slots
  <2>2. ~raced' => ~raced
    BY <1>6, Zenon DEF IPLoad, RacedIf
  <2>3. \A e \in Conn : pc'[e] \in Adding => pc[e] \in Adding /\ seen'[e] = seen[e]
    BY <1>6 DEF IPLoad, Goto, See, Adding
  <2> QED BY <2>1, <2>2, <2>3, CountKept
<1>7. ASSUME NEW c \in Conn, IPRange(c) PROVE CountFollows'
  <2>1. Slots' = Slots /\ UNCHANGED <<count, connLimit, undone, later>>
    BY <1>7 DEF IPRange, Goto, See, Hold, Drop, Slots
  <2>2. ~raced' => ~raced
    BY <1>7, Zenon DEF IPRange, RacedIf
  <2>3. \A e \in Conn : pc'[e] \in Adding => pc[e] \in Adding /\ seen'[e] = seen[e]
    BY <1>7 DEF IPRange, Goto, See, Hold, Drop, Adding
  <2> QED BY <2>1, <2>2, <2>3, CountKept
<1>8. ASSUME NEW c \in Conn, IPStore(c) PROVE CountFollows'
  <2>1. Slots' = Slots /\ UNCHANGED <<count, connLimit, undone, later>>
    BY <1>8 DEF IPStore, Goto, See, Hold, Drop, Put, RacedIf, Slots
  <2>2. ~raced' => ~raced
    BY <1>8, Zenon DEF IPStore, RacedIf
  <2>3. \A e \in Conn : pc'[e] \in Adding => pc[e] \in Adding /\ seen'[e] = seen[e]
    BY <1>8 DEF IPStore, Goto, See, Hold, Drop, Put, RacedIf, Adding
  <2> QED BY <2>1, <2>2, <2>3, CountKept
<1>9. ASSUME NEW c \in Conn, UndoLoad(c) PROVE CountFollows'
  <2> SUFFICES ASSUME ~raced', connLimit # 0, ~undone, CountExact PROVE CountExact'
    <3>1. connLimit' # 0 /\ ~undone' /\ ~raced' => connLimit # 0 /\ ~undone /\ ~raced
      BY <1>9, Zenon DEF UndoLoad, RacedIf, conf
    <3> QED BY <3>1 DEF CountFollows
  <2>1. kind[c] = "tcp" => count # 0
    <3>1. kind[c] = "tcp" => c \in Slots
      BY <1>9 DEF UndoLoad, Slots
    <3>2. c \in Slots => Cardinality(Slots) # 0
      BY SlotsFinite, FS_EmptySet
    <3> QED BY <3>1, <3>2, SlotsFinite DEF CountExact
  <2>2. Slots' = Slots
    BY <1>9, <2>1 DEF UndoLoad, Goto, See, Hold, Drop, Slots
  <2>3. \A e \in Conn : pc'[e] \in Adding => pc[e] \in Adding /\ seen'[e] = seen[e]
    BY <1>9 DEF UndoLoad, Goto, See, Hold, Drop, Adding
  <2> QED BY <1>9, <2>2, <2>3 DEF UndoLoad, CountExact
<1>10. ASSUME NEW c \in Conn, UndoStore(c) PROVE CountFollows'
  <2> SUFFICES ASSUME ~raced', connLimit # 0, ~undone, kind[c] = "tcp", CountExact
               PROVE  CountExact'
    <3>1. connLimit' # 0 /\ ~undone' /\ ~raced' => connLimit # 0 /\ ~undone /\ ~raced /\ kind[c] # "udp"
      BY <1>10, Zenon DEF UndoStore, RacedIf
    <3> QED BY <3>1 DEF CountFollows
  <2>1. count = seen[c]
    BY <1>10, Zenon DEF UndoStore, RacedIf
  <2>2. Slots' = Slots \ {c} /\ c \in Slots
    BY <1>10 DEF UndoStore, Goto, See, Hold, Drop, RacedIf, Slots
  <2>3. Cardinality(Slots') = Cardinality(Slots) - 1
    BY <2>2, SlotsFinite, FS_RemoveElement
  <2>4. count' = count - 1 /\ UNCHANGED <<connLimit, later>>
    BY <1>10, <2>1 DEF UndoStore
  <2>5. \A e \in Conn : pc'[e] \in Adding => pc[e] \in Adding /\ seen'[e] = seen[e]
    BY <1>10 DEF UndoStore, Goto, See, Hold, Drop, RacedIf, Adding
  <2>6. \A e \in Conn : pc'[e] \in Adding => seen'[e] < connLimit'
    BY <2>4, <2>5 DEF CountExact
  <2>7. count' = Cardinality(Slots') + later' /\ count' <= connLimit'
    <3>1. count = Cardinality(Slots) + later /\ count <= connLimit
      BY DEF CountExact
    <3>2. count \in Nat /\ later \in Nat /\ connLimit \in Nat
      OBVIOUS
    <3> HIDE DEF TypeOK
    <3> QED BY <2>3, <2>4, <3>1, <3>2, SlotsFinite
  <2> QED BY <2>6, <2>7 DEF CountExact
<1>11. ASSUME NEW c \in Conn, DelLoad(c) PROVE CountFollows'
  <2> SUFFICES ASSUME ~raced', connLimit # 0, ~undone, CountExact PROVE CountExact'
    <3>1. connLimit' # 0 /\ ~undone' /\ ~raced' => connLimit # 0 /\ ~undone /\ ~raced
      BY <1>11, Zenon DEF DelLoad, RacedIf, conf
    <3> QED BY <3>1 DEF CountFollows
  <2>1. kind[c] = "tcp" => count # 0
    <3>1. kind[c] = "tcp" => c \in Slots
      BY <1>11 DEF DelLoad, Slots
    <3>2. c \in Slots => Cardinality(Slots) # 0
      BY SlotsFinite, FS_EmptySet
    <3> QED BY <3>1, <3>2, SlotsFinite DEF CountExact
  <2>2. Slots' = Slots
    BY <1>11, <2>1 DEF DelLoad, Goto, See, Hold, Drop, AfterCount, Slots, CallState
  <2>3. \A e \in Conn : pc'[e] \in Adding => pc[e] \in Adding /\ seen'[e] = seen[e]
    BY <1>11 DEF DelLoad, Goto, See, Hold, Drop, AfterCount, Adding
  <2> QED BY <1>11, <2>2, <2>3 DEF DelLoad, CountExact
<1>12. ASSUME NEW c \in Conn, DelStore(c) PROVE CountFollows'
  <2> SUFFICES ASSUME ~raced', connLimit # 0, ~undone, CountExact PROVE CountExact'
    <3>1. connLimit' # 0 /\ ~undone' /\ ~raced' => connLimit # 0 /\ ~undone /\ ~raced
      BY <1>12, Zenon DEF DelStore, RacedIf, conf
    <3> QED BY <3>1 DEF CountFollows
  <2>0. kind[c] = "tcp"
    BY <1>12 DEF DelStore, CallState
  <2>1. count = seen[c]
    BY <1>12, Zenon DEF DelStore, RacedIf
  <2>2. Slots' = Slots \ {c} /\ c \in Slots
    BY <2>0, <1>12 DEF DelStore, Goto, See, Hold, Drop, AfterCount, RacedIf, Slots
  <2>3. Cardinality(Slots') = Cardinality(Slots) - 1
    BY <2>2, SlotsFinite, FS_RemoveElement
  <2>4. count' = count - 1 /\ UNCHANGED <<connLimit, later>>
    BY <1>12, <2>1 DEF DelStore
  <2>5. \A e \in Conn : pc'[e] \in Adding => pc[e] \in Adding /\ seen'[e] = seen[e]
    BY <1>12 DEF DelStore, Goto, See, Hold, Drop, AfterCount, RacedIf, Adding
  <2>6. \A e \in Conn : pc'[e] \in Adding => seen'[e] < connLimit'
    BY <2>4, <2>5 DEF CountExact
  <2>7. count' = Cardinality(Slots') + later' /\ count' <= connLimit'
    <3>1. count = Cardinality(Slots) + later /\ count <= connLimit
      BY DEF CountExact
    <3>2. count \in Nat /\ later \in Nat /\ connLimit \in Nat
      OBVIOUS
    <3> HIDE DEF TypeOK
    <3> QED BY <2>3, <2>4, <3>1, <3>2, SlotsFinite
  <2> QED BY <2>6, <2>7 DEF CountExact
<1>13. ASSUME NEW c \in Conn, IPDelGet(c) PROVE CountFollows'
  <2>1. Slots' = Slots /\ UNCHANGED <<count, connLimit, undone, later>>
    BY <1>13 DEF IPDelGet, Goto, See, Hold, Drop, Slots, CallState
  <2>2. ~raced' => ~raced
    BY <1>13, Zenon DEF IPDelGet, RacedIf
  <2>3. \A e \in Conn : pc'[e] \in Adding => pc[e] \in Adding /\ seen'[e] = seen[e]
    BY <1>13 DEF IPDelGet, Goto, See, Hold, Drop, Adding
  <2> QED BY <2>1, <2>2, <2>3, CountKept
<1>14. ASSUME NEW c \in Conn, IPDelLoad(c) PROVE CountFollows'
  <2>1. Slots' = Slots /\ UNCHANGED <<count, connLimit, undone, later>>
    BY <1>14 DEF IPDelLoad, Goto, See, Hold, Drop, Slots, CallState
  <2>2. ~raced' => ~raced
    BY <1>14, Zenon DEF IPDelLoad, RacedIf
  <2>3. \A e \in Conn : pc'[e] \in Adding => pc[e] \in Adding /\ seen'[e] = seen[e]
    BY <1>14 DEF IPDelLoad, Goto, See, Hold, Drop, Adding
  <2> QED BY <2>1, <2>2, <2>3, CountKept
<1>15. ASSUME NEW c \in Conn, IPDelStore(c) PROVE CountFollows'
  <2>1. Slots' = Slots /\ UNCHANGED <<count, connLimit, undone, later>>
    BY <1>15 DEF IPDelStore, Goto, Put, RacedIf, Slots, CallState
  <2>2. ~raced' => ~raced
    BY <1>15, Zenon DEF IPDelStore, RacedIf
  <2>3. \A e \in Conn : pc'[e] \in Adding => pc[e] \in Adding /\ seen'[e] = seen[e]
    BY <1>15 DEF IPDelStore, Goto, Put, RacedIf, Adding
  <2> QED BY <2>1, <2>2, <2>3, CountKept
<1>16. ASSUME NEW c \in Conn, IPDelCheck(c) PROVE CountFollows'
  <2>1. Slots' = Slots /\ UNCHANGED <<count, connLimit, undone, later>>
    BY <1>16 DEF IPDelCheck, Goto, See, Hold, Drop, Slots, CallState
  <2>2. ~raced' => ~raced
    BY <1>16, Zenon DEF IPDelCheck, RacedIf
  <2>3. \A e \in Conn : pc'[e] \in Adding => pc[e] \in Adding /\ seen'[e] = seen[e]
    BY <1>16 DEF IPDelCheck, Goto, See, Hold, Drop, Adding
  <2> QED BY <2>1, <2>2, <2>3, CountKept
<1>17. ASSUME NEW c \in Conn, IPDelDrop(c) PROVE CountFollows'
  <2>1. Slots' = Slots /\ UNCHANGED <<count, connLimit, undone, later>>
    BY <1>17 DEF IPDelDrop, Goto, See, Hold, Drop, RacedIf, Slots, CallState
  <2>2. ~raced' => ~raced
    BY <1>17, Zenon DEF IPDelDrop, RacedIf
  <2>3. \A e \in Conn : pc'[e] \in Adding => pc[e] \in Adding /\ seen'[e] = seen[e]
    BY <1>17 DEF IPDelDrop, Goto, See, Hold, Drop, RacedIf, Adding
  <2> QED BY <2>1, <2>2, <2>3, CountKept
<1>18. ASSUME NEW c \in Conn, Pass(c) PROVE CountFollows'
  <2>1. Slots' = Slots /\ UNCHANGED <<count, connLimit, undone, later>>
    BY <1>18 DEF Pass, Goto, Slots
  <2>2. ~raced' => ~raced
    BY <1>18, Zenon DEF Pass, RacedIf
  <2>3. \A e \in Conn : pc'[e] \in Adding => pc[e] \in Adding /\ seen'[e] = seen[e]
    BY <1>18 DEF Pass, Goto, Adding
  <2> QED BY <2>1, <2>2, <2>3, CountKept
<1>19. ASSUME NEW c \in Conn, RejectLater(c) PROVE CountFollows'
  <2> SUFFICES ASSUME ~raced', connLimit # 0, ~undone, CountExact PROVE CountExact'
    <3>1. connLimit' # 0 /\ ~undone' /\ ~raced' => connLimit # 0 /\ ~undone /\ ~raced
      BY <1>19, Zenon DEF RejectLater, RacedIf, conf
    <3> QED BY <3>1 DEF CountFollows
  <2>0. UNCHANGED <<count, connLimit>>
    BY <1>19 DEF RejectLater
  <2>1. \A e \in Conn : pc'[e] \in Adding => pc[e] \in Adding /\ seen'[e] = seen[e]
    BY <1>19 DEF RejectLater, Goto, Adding
  <2>2. CASE kind[c] = "tcp"
    <3>1. Slots' = Slots \ {c} /\ c \in Slots
      BY <1>19, <2>2 DEF RejectLater, Goto, Slots
    <3>2. Cardinality(Slots') = Cardinality(Slots) - 1
      BY <3>1, SlotsFinite, FS_RemoveElement
    <3>3. later' = later + 1
      BY <1>19, <2>2 DEF RejectLater
    <3>4. count' = Cardinality(Slots') + later' /\ count' <= connLimit'
      BY <2>0, <3>2, <3>3, SlotsFinite DEF CountExact
    <3> QED BY <2>0, <2>1, <3>4 DEF CountExact
  <2>3. CASE kind[c] # "tcp"
    <3>1. Slots' = Slots /\ later' = later
      BY <1>19, <2>3 DEF RejectLater, Goto, Slots
    <3> QED BY <2>0, <2>1, <3>1 DEF CountExact
  <2> QED BY <2>2, <2>3
<1>20. ASSUME NEW c \in Conn, CloseUDP(c) PROVE CountFollows'
  <2>1. Slots' = Slots /\ UNCHANGED <<count, connLimit, undone, later>>
    BY <1>20 DEF CloseUDP, Goto, Slots
  <2>2. ~raced' => ~raced
    BY <1>20, Zenon DEF CloseUDP, RacedIf
  <2>3. \A e \in Conn : pc'[e] \in Adding => pc[e] \in Adding /\ seen'[e] = seen[e]
    BY <1>20 DEF CloseUDP, Goto, Adding
  <2> QED BY <2>1, <2>2, <2>3, CountKept
<1>21. ASSUME NEW c \in Conn, CloseTCP(c) PROVE CountFollows'
  <2>1. Slots' = Slots /\ UNCHANGED <<count, connLimit, undone, later>>
    BY <1>21 DEF CloseTCP, Goto, Slots
  <2>2. ~raced' => ~raced
    BY <1>21, Zenon DEF CloseTCP, RacedIf
  <2>3. \A e \in Conn : pc'[e] \in Adding => pc[e] \in Adding /\ seen'[e] = seen[e]
    BY <1>21 DEF CloseTCP, Goto, Adding
  <2> QED BY <2>1, <2>2, <2>3, CountKept
<1>22. CASE SweepStart
  <2>1. Slots' = Slots /\ UNCHANGED <<count, connLimit, undone, later>>
    BY <1>22 DEF SweepStart, NoSweep, Slots
  <2>2. ~raced' => ~raced
    BY <1>22, Zenon DEF SweepStart, RacedIf
  <2>3. \A e \in Conn : pc'[e] \in Adding => pc[e] \in Adding /\ seen'[e] = seen[e]
    BY <1>22 DEF SweepStart, NoSweep, Adding
  <2> QED BY <2>1, <2>2, <2>3, CountKept
<1>23. ASSUME NEW i \in IP, SweepLoad(i) PROVE CountFollows'
  <2>1. Slots' = Slots /\ UNCHANGED <<count, connLimit, undone, later>>
    BY <1>23 DEF SweepLoad, Slots
  <2>2. ~raced' => ~raced
    BY <1>23, Zenon DEF SweepLoad, RacedIf
  <2>3. \A e \in Conn : pc'[e] \in Adding => pc[e] \in Adding /\ seen'[e] = seen[e]
    BY <1>23 DEF SweepLoad, Adding
  <2> QED BY <2>1, <2>2, <2>3, CountKept
<1>24. ASSUME NEW i \in IP, SweepDelete(i) PROVE CountFollows'
  <2>1. Slots' = Slots /\ UNCHANGED <<count, connLimit, undone, later>>
    BY <1>24 DEF SweepDelete, Put, RacedIf, Slots
  <2>2. ~raced' => ~raced
    BY <1>24, Zenon DEF SweepDelete, RacedIf
  <2>3. \A e \in Conn : pc'[e] \in Adding => pc[e] \in Adding /\ seen'[e] = seen[e]
    BY <1>24 DEF SweepDelete, Put, RacedIf, Adding
  <2> QED BY <2>1, <2>2, <2>3, CountKept
<1>25. CASE SweepCheck
  <2>1. Slots' = Slots /\ UNCHANGED <<count, connLimit, undone, later>>
    BY <1>25 DEF SweepCheck, NoSweep, Slots
  <2>2. ~raced' => ~raced
    BY <1>25, Zenon DEF SweepCheck, RacedIf
  <2>3. \A e \in Conn : pc'[e] \in Adding => pc[e] \in Adding /\ seen'[e] = seen[e]
    BY <1>25 DEF SweepCheck, NoSweep, Adding
  <2> QED BY <2>1, <2>2, <2>3, CountKept
<1>26. CASE SweepDrop
  <2>1. Slots' = Slots /\ UNCHANGED <<count, connLimit, undone, later>>
    BY <1>26 DEF SweepDrop, NoSweep, RacedIf, Slots
  <2>2. ~raced' => ~raced
    BY <1>26, Zenon DEF SweepDrop, RacedIf
  <2>3. \A e \in Conn : pc'[e] \in Adding => pc[e] \in Adding /\ seen'[e] = seen[e]
    BY <1>26 DEF SweepDrop, NoSweep, RacedIf, Adding
  <2> QED BY <2>1, <2>2, <2>3, CountKept
<1>27. ASSUME NEW c \in Conn, NEW i \in IP, NEW k \in Kinds, Readdress(c, i, k)
      PROVE  CountFollows'
  <2>1. Slots' = Slots /\ UNCHANGED <<count, connLimit, undone, later>>
    BY <1>27 DEF Readdress, Slots
  <2>2. ~raced' => ~raced
    BY <1>27, Zenon DEF Readdress, RacedIf
  <2>3. \A e \in Conn : pc'[e] \in Adding => pc[e] \in Adding /\ seen'[e] = seen[e]
    BY <1>27 DEF Readdress, Adding
  <2> QED BY <2>1, <2>2, <2>3, CountKept
<1>28. ASSUME NEW c \in Conn, Abandon(c) PROVE CountFollows'
  <2> SUFFICES ASSUME ~raced', connLimit # 0, ~undone, CountExact PROVE CountExact'
    <3>1. connLimit' # 0 /\ ~undone' /\ ~raced' => connLimit # 0 /\ ~undone /\ ~raced
      BY <1>28, Zenon DEF Abandon, RacedIf, conf
    <3> QED BY <3>1 DEF CountFollows
  <2>0. UNCHANGED <<count, connLimit>>
    BY <1>28 DEF Abandon
  <2>1. \A e \in Conn : pc'[e] \in Adding => pc[e] \in Adding /\ seen'[e] = seen[e]
    BY <1>28 DEF Abandon, Goto, Adding
  <2>2. CASE kind[c] = "tcp"
    <3>1. Slots' = Slots \ {c} /\ c \in Slots
      BY <1>28, <2>2 DEF Abandon, Goto, Slots
    <3>2. Cardinality(Slots') = Cardinality(Slots) - 1
      BY <3>1, SlotsFinite, FS_RemoveElement
    <3>3. later' = later + 1
      BY <1>28, <2>2 DEF Abandon
    <3>4. count' = Cardinality(Slots') + later' /\ count' <= connLimit'
      BY <2>0, <3>2, <3>3, SlotsFinite DEF CountExact
    <3> QED BY <2>0, <2>1, <3>4 DEF CountExact
  <2>3. CASE kind[c] # "tcp"
    <3>1. Slots' = Slots /\ later' = later
      BY <1>28, <2>3 DEF Abandon, Goto, Slots
    <3> QED BY <2>0, <2>1, <3>1 DEF CountExact
  <2> QED BY <2>2, <2>3
<1>29. CASE UNCHANGED vars
  <2>1. Slots' = Slots /\ UNCHANGED <<count, connLimit, undone, later>>
    BY <1>29 DEF vars, Slots
  <2>2. ~raced' => ~raced
    BY <1>29, Zenon DEF vars, RacedIf
  <2>3. \A e \in Conn : pc'[e] \in Adding => pc[e] \in Adding /\ seen'[e] = seen[e]
    BY <1>29 DEF vars, Adding
  <2> QED BY <2>1, <2>2, <2>3, CountKept
<1> HIDE DEF ConnAssumption, TypeOK, Place, Outside, Holding, user, call, conf
<1> QED
  BY <1>1, <1>2, <1>3, <1>4, <1>5, <1>6, <1>7, <1>8, <1>9, <1>10, <1>11, <1>12, <1>13,
     <1>14, <1>15, <1>16, <1>17, <1>18, <1>19, <1>20, <1>21, <1>22, <1>23, <1>24,
     <1>25, <1>26, <1>27, <1>28, <1>29
  DEF CallerNext, Next, Step, ClearOnlineIP

\* A step that leaves the address maps as they are
LEMMA MapsKept ==
  ASSUME OrphansEmpty, IPsFit, UNCHANGED <<cur, maps>>, ~raced' => ~raced
  PROVE  OrphansEmpty' /\ IPsFit'
<1>1. OnlineIPs' = OnlineIPs
  BY DEF OnlineIPs, Registered
<1> QED BY <1>1 DEF OrphansEmpty, IPsFit

\* No address more
LEMMA FewerFit ==
  ASSUME IPsFit, OnlineIPs' \subseteq OnlineIPs, ~raced' => ~raced
  PROVE  IPsFit'
<1> SUFFICES ASSUME ~raced', IPLimit # 0
             PROVE  IsFiniteSet(OnlineIPs') /\ Cardinality(OnlineIPs') <= IPLimit
  BY DEF IPsFit
<1>1. IsFiniteSet(OnlineIPs) /\ Cardinality(OnlineIPs) \in Nat /\ Cardinality(OnlineIPs) <= IPLimit
  BY FS_CardinalityType DEF IPsFit
<1>2. /\ IsFiniteSet(OnlineIPs') /\ Cardinality(OnlineIPs') \in Nat
      /\ Cardinality(OnlineIPs') <= Cardinality(OnlineIPs)
  BY <1>1, FS_Subset, FS_CardinalityType
<1> QED BY <1>1, <1>2, ConnAssumption DEF ConnAssumption

\* Every step preserves OrphansEmpty and IPsFit.
LEMMA MapsStep ==
  ASSUME TypeOK, CallState, OrphansEmpty, IPsFit, [CallerNext]_vars
  PROVE  OrphansEmpty' /\ IPsFit'
<1> USE ConnAssumption
    DEF ConnAssumption, TypeOK, Place, Outside, Holding, user, call, conf
<1>1. ASSUME NEW c \in Conn, NEW i \in IP, NEW k \in Kinds, Accept(c, i, k)
      PROVE  OrphansEmpty' /\ IPsFit'
  <2>0. ~raced' => ~raced
    BY <1>1, Zenon DEF Accept, RacedIf
  <2>1. UNCHANGED <<cur, maps>>
    BY <1>1 DEF Accept
  <2> QED BY <2>0, <2>1, MapsKept
<1>2. ASSUME NEW c \in Conn, CheckConnLimit(c) PROVE OrphansEmpty' /\ IPsFit'
  <2>0. ~raced' => ~raced
    BY <1>2, Zenon DEF CheckConnLimit, RacedIf
  <2>1. UNCHANGED <<cur, maps>>
    BY <1>2 DEF CheckConnLimit
  <2> QED BY <2>0, <2>1, MapsKept
<1>3. ASSUME NEW c \in Conn, AddLoad(c) PROVE OrphansEmpty' /\ IPsFit'
  <2>0. ~raced' => ~raced
    BY <1>3, Zenon DEF AddLoad, RacedIf
  <2>1. UNCHANGED <<cur, maps>>
    BY <1>3 DEF AddLoad
  <2> QED BY <2>0, <2>1, MapsKept
<1>4. ASSUME NEW c \in Conn, AddStore(c) PROVE OrphansEmpty' /\ IPsFit'
  <2>0. ~raced' => ~raced
    BY <1>4, Zenon DEF AddStore, RacedIf
  <2>1. UNCHANGED <<cur, maps>>
    BY <1>4 DEF AddStore
  <2> QED BY <2>0, <2>1, MapsKept
<1>5. ASSUME NEW c \in Conn, IPGet(c) PROVE OrphansEmpty' /\ IPsFit'
  <2>0. ~raced' => ~raced
    BY <1>5, Zenon DEF IPGet, RacedIf
  <2>1. CASE cur # NoMap
    <3>1. UNCHANGED <<cur, maps>>
      BY <1>5, <2>1 DEF IPGet
    <3> QED BY <2>0, <3>1, MapsKept
  <2>2. CASE cur = NoMap
    <3>1. PICK m \in Map : cur' = m /\ maps' = [maps EXCEPT ![m] = [i \in IP |-> 0]]
      BY <1>5, <2>2 DEF IPGet
    <3>2. OrphansEmpty'
      BY <2>0, <2>2, <3>1 DEF OrphansEmpty
    <3>3. OnlineIPs' \subseteq OnlineIPs
      BY <3>1 DEF OnlineIPs, Registered
    <3> QED BY <2>0, <3>2, <3>3, FewerFit
  <2> QED BY <2>1, <2>2
<1>6. ASSUME NEW c \in Conn, IPLoad(c) PROVE OrphansEmpty' /\ IPsFit'
  <2>0. ~raced' => ~raced
    BY <1>6, Zenon DEF IPLoad, RacedIf
  <2>1. UNCHANGED <<cur, maps>>
    BY <1>6 DEF IPLoad
  <2> QED BY <2>0, <2>1, MapsKept
<1>7. ASSUME NEW c \in Conn, IPRange(c) PROVE OrphansEmpty' /\ IPsFit'
  <2>0. ~raced' => ~raced
    BY <1>7, Zenon DEF IPRange, RacedIf
  <2>1. UNCHANGED <<cur, maps>>
    BY <1>7 DEF IPRange
  <2> QED BY <2>0, <2>1, MapsKept
<1>8. ASSUME NEW c \in Conn, IPStore(c) PROVE OrphansEmpty' /\ IPsFit'
  <2>0. ~raced' => ~raced
    BY <1>8, Zenon DEF IPStore, RacedIf
  <2> DEFINE entry == maps[held[c]][ip[c]]
  <2>1. held[c] \in Map /\ ip[c] \in IP
    BY <1>8 DEF IPStore, CallState
  <2>2. PICK v \in Int : maps' = [maps EXCEPT ![held[c]][ip[c]] = v]
    <3> DEFINE new == CASE ~realtime -> 1
                        [] realtime /\ kind[c] = "tcp" -> seen[c] + 2
                        [] realtime /\ kind[c] = "udp" -> IF seen[c] = 0 THEN 1 ELSE entry
    <3>1. kind[c] \in {"tcp", "udp"} /\ seen[c] \in Int /\ entry \in Int /\ realtime \in BOOLEAN
      BY <2>1
    <3>2. new \in Int
      BY <3>1
    <3>3. maps' = [maps EXCEPT ![held[c]][ip[c]] = new]
      BY <1>8 DEF IPStore, Put
    <3> HIDE DEF new
    <3> QED BY <3>2, <3>3
  <2>3. ~raced' => held[c] = cur /\ entry = seen[c] /\ ~(entry = 0 /\ Full(held[c]))
    BY <1>8, Zenon DEF IPStore, RacedIf
  <2>4. cur' = cur
    BY <1>8 DEF IPStore
  <2>5. OrphansEmpty'
    BY <2>0, <2>1, <2>2, <2>3, <2>4 DEF OrphansEmpty
  <2>6. ASSUME ~raced', IPLimit # 0
        PROVE  IsFiniteSet(OnlineIPs') /\ Cardinality(OnlineIPs') <= IPLimit
    <3>1. held[c] = cur /\ cur # NoMap /\ Online(cur) = OnlineIPs
      BY <2>1, <2>3, <2>6 DEF Online, OnlineIPs, Registered
    <3>2. /\ IsFiniteSet(OnlineIPs) /\ Cardinality(OnlineIPs) \in Nat
          /\ Cardinality(OnlineIPs) <= IPLimit
      BY <2>0, <2>6, FS_CardinalityType DEF IPsFit
    <3>3. OnlineIPs' \subseteq OnlineIPs \cup {ip[c]}
      BY <2>1, <2>2, <2>4, <3>1 DEF OnlineIPs, Registered
    <3>4. IsFiniteSet(OnlineIPs \cup {ip[c]}) /\ Cardinality(OnlineIPs \cup {ip[c]}) <= IPLimit
      <4>1. CASE entry # 0
        <5>1. OnlineIPs \cup {ip[c]} = OnlineIPs
          BY <2>1, <3>1, <4>1 DEF OnlineIPs, Registered
        <5> QED BY <3>2, <5>1
      <4>2. CASE entry = 0
        <5>1. ~(Cardinality(OnlineIPs) >= IPLimit)
          BY <2>3, <2>6, <3>1, <4>2 DEF Full
        <5>2. ip[c] \notin OnlineIPs
          BY <2>1, <3>1, <4>2 DEF OnlineIPs, Registered
        <5>3. /\ IsFiniteSet(OnlineIPs \cup {ip[c]})
              /\ Cardinality(OnlineIPs \cup {ip[c]}) = Cardinality(OnlineIPs) + 1
          BY <3>2, <5>2, FS_AddElement
        <5> QED BY <3>2, <5>1, <5>3
      <4> QED BY <4>1, <4>2
    <3>5. /\ IsFiniteSet(OnlineIPs') /\ Cardinality(OnlineIPs') \in Nat
          /\ Cardinality(OnlineIPs') <= Cardinality(OnlineIPs \cup {ip[c]})
          /\ Cardinality(OnlineIPs \cup {ip[c]}) \in Nat
      BY <3>3, <3>4, FS_Subset, FS_CardinalityType
    <3> QED BY <3>4, <3>5
  <2> QED BY <2>5, <2>6 DEF IPsFit
<1>9. ASSUME NEW c \in Conn, UndoLoad(c) PROVE OrphansEmpty' /\ IPsFit'
  <2>0. ~raced' => ~raced
    BY <1>9, Zenon DEF UndoLoad, RacedIf
  <2>1. UNCHANGED <<cur, maps>>
    BY <1>9 DEF UndoLoad
  <2> QED BY <2>0, <2>1, MapsKept
<1>10. ASSUME NEW c \in Conn, UndoStore(c) PROVE OrphansEmpty' /\ IPsFit'
  <2>0. ~raced' => ~raced
    BY <1>10, Zenon DEF UndoStore, RacedIf
  <2>1. UNCHANGED <<cur, maps>>
    BY <1>10 DEF UndoStore
  <2> QED BY <2>0, <2>1, MapsKept
<1>11. ASSUME NEW c \in Conn, DelLoad(c) PROVE OrphansEmpty' /\ IPsFit'
  <2>0. ~raced' => ~raced
    BY <1>11, Zenon DEF DelLoad, RacedIf
  <2>1. UNCHANGED <<cur, maps>>
    BY <1>11 DEF DelLoad
  <2> QED BY <2>0, <2>1, MapsKept
<1>12. ASSUME NEW c \in Conn, DelStore(c) PROVE OrphansEmpty' /\ IPsFit'
  <2>0. ~raced' => ~raced
    BY <1>12, Zenon DEF DelStore, RacedIf
  <2>1. UNCHANGED <<cur, maps>>
    BY <1>12 DEF DelStore
  <2> QED BY <2>0, <2>1, MapsKept
<1>13. ASSUME NEW c \in Conn, IPDelGet(c) PROVE OrphansEmpty' /\ IPsFit'
  <2>0. ~raced' => ~raced
    BY <1>13, Zenon DEF IPDelGet, RacedIf
  <2>1. UNCHANGED <<cur, maps>>
    BY <1>13 DEF IPDelGet
  <2> QED BY <2>0, <2>1, MapsKept
<1>14. ASSUME NEW c \in Conn, IPDelLoad(c) PROVE OrphansEmpty' /\ IPsFit'
  <2>0. ~raced' => ~raced
    BY <1>14, Zenon DEF IPDelLoad, RacedIf
  <2>1. UNCHANGED <<cur, maps>>
    BY <1>14 DEF IPDelLoad
  <2> QED BY <2>0, <2>1, MapsKept
<1>15. ASSUME NEW c \in Conn, IPDelStore(c) PROVE OrphansEmpty' /\ IPsFit'
  <2>0. ~raced' => ~raced
    BY <1>15, Zenon DEF IPDelStore, RacedIf
  <2>1. held[c] \in Map /\ ip[c] \in IP /\ seen[c] # 0 /\ seen[c] \in Int
    BY <1>15 DEF IPDelStore, CallState
  <2>2. maps' = [maps EXCEPT ![held[c]][ip[c]] = seen[c] - 2] /\ cur' = cur
    BY <1>15 DEF IPDelStore, Put
  <2>3. ~raced' => held[c] = cur /\ maps[held[c]][ip[c]] = seen[c]
    BY <1>15, Zenon DEF IPDelStore, RacedIf
  <2>4. OrphansEmpty'
    BY <2>0, <2>1, <2>2, <2>3 DEF OrphansEmpty
  <2>5. ~raced' => OnlineIPs' \subseteq OnlineIPs
    BY <2>1, <2>2, <2>3 DEF OnlineIPs, Registered
  <2>6. CASE raced'
    BY <2>4, <2>6 DEF IPsFit
  <2> QED BY <2>0, <2>4, <2>5, <2>6, FewerFit
<1>16. ASSUME NEW c \in Conn, IPDelCheck(c) PROVE OrphansEmpty' /\ IPsFit'
  <2>0. ~raced' => ~raced
    BY <1>16, Zenon DEF IPDelCheck, RacedIf
  <2>1. UNCHANGED <<cur, maps>>
    BY <1>16 DEF IPDelCheck
  <2> QED BY <2>0, <2>1, MapsKept
<1>17. ASSUME NEW c \in Conn, IPDelDrop(c) PROVE OrphansEmpty' /\ IPsFit'
  <2>0. ~raced' => ~raced
    BY <1>17, Zenon DEF IPDelDrop, RacedIf
  <2>1. cur' = NoMap /\ maps' = maps
    BY <1>17 DEF IPDelDrop
  <2>2. ~raced' => held[c] = cur /\ Online(held[c]) = {}
    BY <1>17, Zenon DEF IPDelDrop, RacedIf
  <2>3. OrphansEmpty'
    BY <2>0, <2>1, <2>2 DEF OrphansEmpty, Online
  <2>4. OnlineIPs' \subseteq OnlineIPs
    BY <2>1 DEF OnlineIPs, Registered
  <2> QED BY <2>0, <2>3, <2>4, FewerFit
<1>18. ASSUME NEW c \in Conn, Pass(c) PROVE OrphansEmpty' /\ IPsFit'
  <2>0. ~raced' => ~raced
    BY <1>18, Zenon DEF Pass, RacedIf
  <2>1. UNCHANGED <<cur, maps>>
    BY <1>18 DEF Pass
  <2> QED BY <2>0, <2>1, MapsKept
<1>19. ASSUME NEW c \in Conn, RejectLater(c) PROVE OrphansEmpty' /\ IPsFit'
  <2>0. ~raced' => ~raced
    BY <1>19, Zenon DEF RejectLater, RacedIf
  <2>1. UNCHANGED <<cur, maps>>
    BY <1>19 DEF RejectLater
  <2> QED BY <2>0, <2>1, MapsKept
<1>20. ASSUME NEW c \in Conn, CloseUDP(c) PROVE OrphansEmpty' /\ IPsFit'
  <2>0. ~raced' => ~raced
    BY <1>20, Zenon DEF CloseUDP, RacedIf
  <2>1. UNCHANGED <<cur, maps>>
    BY <1>20 DEF CloseUDP
  <2> QED BY <2>0, <2>1, MapsKept
<1>21. ASSUME NEW c \in Conn, CloseTCP(c) PROVE OrphansEmpty' /\ IPsFit'
  <2>0. ~raced' => ~raced
    BY <1>21, Zenon DEF CloseTCP, RacedIf
  <2>1. UNCHANGED <<cur, maps>>
    BY <1>21 DEF CloseTCP
  <2> QED BY <2>0, <2>1, MapsKept
<1>22. CASE SweepStart
  <2>0. ~raced' => ~raced
    BY <1>22, Zenon DEF SweepStart, RacedIf
  <2>1. UNCHANGED <<cur, maps>>
    BY <1>22 DEF SweepStart
  <2> QED BY <2>0, <2>1, MapsKept
<1>23. ASSUME NEW i \in IP, SweepLoad(i) PROVE OrphansEmpty' /\ IPsFit'
  <2>0. ~raced' => ~raced
    BY <1>23, Zenon DEF SweepLoad, RacedIf
  <2>1. UNCHANGED <<cur, maps>>
    BY <1>23 DEF SweepLoad
  <2> QED BY <2>0, <2>1, MapsKept
<1>24. ASSUME NEW i \in IP, SweepDelete(i) PROVE OrphansEmpty' /\ IPsFit'
  <2>0. ~raced' => ~raced
    BY <1>24, Zenon DEF SweepDelete, RacedIf
  <2>1. sweep.map \in Map
    BY <1>24 DEF SweepDelete, CallState
  <2>2. maps' = [maps EXCEPT ![sweep.map][i] = 0] /\ cur' = cur
    BY <1>24 DEF SweepDelete, Put
  <2>3. OrphansEmpty'
    BY <2>0, <2>1, <2>2 DEF OrphansEmpty
  <2>4. OnlineIPs' \subseteq OnlineIPs
    BY <2>1, <2>2 DEF OnlineIPs, Registered
  <2> QED BY <2>0, <2>3, <2>4, FewerFit
<1>25. CASE SweepCheck
  <2>0. ~raced' => ~raced
    BY <1>25, Zenon DEF SweepCheck, RacedIf
  <2>1. UNCHANGED <<cur, maps>>
    BY <1>25 DEF SweepCheck
  <2> QED BY <2>0, <2>1, MapsKept
<1>26. CASE SweepDrop
  <2>0. ~raced' => ~raced
    BY <1>26, Zenon DEF SweepDrop, RacedIf
  <2>1. cur' = NoMap /\ maps' = maps
    BY <1>26 DEF SweepDrop
  <2>2. ~raced' => sweep.map = cur /\ Online(sweep.map) = {}
    BY <1>26, Zenon DEF SweepDrop, RacedIf
  <2>3. OrphansEmpty'
    BY <2>0, <2>1, <2>2 DEF OrphansEmpty, Online
  <2>4. OnlineIPs' \subseteq OnlineIPs
    BY <2>1 DEF OnlineIPs, Registered
  <2> QED BY <2>0, <2>3, <2>4, FewerFit
<1>27. ASSUME NEW c \in Conn, NEW i \in IP, NEW k \in Kinds, Readdress(c, i, k)
      PROVE  OrphansEmpty' /\ IPsFit'
  <2>0. ~raced' => ~raced
    BY <1>27, Zenon DEF Readdress, RacedIf
  <2>1. UNCHANGED <<cur, maps>>
    BY <1>27 DEF Readdress
  <2> QED BY <2>0, <2>1, MapsKept
<1>28. ASSUME NEW c \in Conn, Abandon(c) PROVE OrphansEmpty' /\ IPsFit'
  <2>0. ~raced' => ~raced
    BY <1>28, Zenon DEF Abandon, RacedIf
  <2>1. UNCHANGED <<cur, maps>>
    BY <1>28 DEF Abandon
  <2> QED BY <2>0, <2>1, MapsKept
<1>29. CASE UNCHANGED vars
  <2>0. ~raced' => ~raced
    BY <1>29, Zenon DEF vars, RacedIf
  <2>1. UNCHANGED <<cur, maps>>
    BY <1>29 DEF vars
  <2> QED BY <2>0, <2>1, MapsKept
<1> HIDE DEF ConnAssumption, TypeOK, Place, Outside, Holding, user, call, conf
<1> QED
  BY <1>1, <1>2, <1>3, <1>4, <1>5, <1>6, <1>7, <1>8, <1>9, <1>10, <1>11, <1>12, <1>13,
     <1>14, <1>15, <1>16, <1>17, <1>18, <1>19, <1>20, <1>21, <1>22, <1>23, <1>24,
     <1>25, <1>26, <1>27, <1>28, <1>29
  DEF CallerNext, Next, Step, ClearOnlineIP

\* A step that counts no address and takes none back
LEMMA IPsKept ==
  ASSUME IPsFollow, UNCHANGED <<cur, maps, realtime, later>>, ~raced' => ~raced,
         \A j \in IP : IPSlots(j)' = IPSlots(j),
         \A e \in Conn : pc'[e] \in {"ipDelLoad", "ipDelStore"} =>
            pc[e] \in {"ipDelLoad", "ipDelStore"} /\ held'[e] = held[e]
  PROVE  IPsFollow'
<1>1. \A j \in IP : Registered(j)' = Registered(j)
  BY DEF Registered
<1> QED BY <1>1 DEF IPsFollow, IPExact, DelHoldsCur

\* The address of a connection that holds a slot is in the map of the user.
LEMMA SlotIsRegistered ==
  ASSUME TypeOK, ~raced, realtime, IPLimit # 0, IPsFollow, NEW c \in Conn, c \in IPSlots(ip[c])
  PROVE  cur \in Map /\ maps[cur][ip[c]] >= 2
<1>1. ip[c] \in IP /\ IPExact(ip[c])
  BY DEF IPsFollow, TypeOK
<1>2. Cardinality(IPSlots(ip[c])) # 0
  BY SlotsFinite, FS_EmptySet
<1>3. Registered(ip[c]) >= 2
  <2>1. PICK n \in Nat : n = Cardinality(IPSlots(ip[c]))
    BY SlotsFinite
  <2>2. Registered(ip[c]) >= 2 * n /\ Registered(ip[c]) \in Int
    BY <1>1, <2>1 DEF IPExact, Registered, TypeOK
  <2> QED BY <1>2, <2>1, <2>2
<1> QED BY <1>3 DEF Registered, TypeOK

\* Every step preserves IPsFollow.
LEMMA IPsStep ==
  ASSUME TypeOK, CallState, IPsFollow, [CallerNext]_vars
  PROVE  IPsFollow'
<1> USE ConnAssumption
    DEF ConnAssumption, TypeOK, Place, Outside, Holding, user, call, conf
<1>1. ASSUME NEW c \in Conn, NEW i \in IP, NEW k \in Kinds, Accept(c, i, k)
      PROVE  IPsFollow'
  <2>0. ~raced' => ~raced
    BY <1>1, Zenon DEF Accept, RacedIf
  <2>1. \A j \in IP : IPSlots(j)' = IPSlots(j)
    BY <1>1 DEF Accept, Goto, IPSlots
  <2>2. \A e \in Conn : pc'[e] \in {"ipDelLoad", "ipDelStore"} =>
           pc[e] \in {"ipDelLoad", "ipDelStore"} /\ held'[e] = held[e]
    BY <1>1 DEF Accept, Goto
  <2>3. UNCHANGED <<cur, maps, realtime, later>>
    BY <1>1 DEF Accept
  <2> QED BY <2>0, <2>1, <2>2, <2>3, IPsKept
<1>2. ASSUME NEW c \in Conn, CheckConnLimit(c) PROVE IPsFollow'
  <2>0. ~raced' => ~raced
    BY <1>2, Zenon DEF CheckConnLimit, RacedIf
  <2>1. \A j \in IP : IPSlots(j)' = IPSlots(j)
    BY <1>2 DEF CheckConnLimit, Goto, See, Hold, Drop, AfterLimit, IPSlots
  <2>2. \A e \in Conn : pc'[e] \in {"ipDelLoad", "ipDelStore"} =>
           pc[e] \in {"ipDelLoad", "ipDelStore"} /\ held'[e] = held[e]
    BY <1>2 DEF CheckConnLimit, Goto, See, Hold, Drop, AfterLimit
  <2>3. UNCHANGED <<cur, maps, realtime, later>>
    BY <1>2 DEF CheckConnLimit
  <2> QED BY <2>0, <2>1, <2>2, <2>3, IPsKept
<1>3. ASSUME NEW c \in Conn, AddLoad(c) PROVE IPsFollow'
  <2>0. ~raced' => ~raced
    BY <1>3, Zenon DEF AddLoad, RacedIf
  <2>1. \A j \in IP : IPSlots(j)' = IPSlots(j)
    BY <1>3 DEF AddLoad, Goto, See, RacedIf, IPSlots
  <2>2. \A e \in Conn : pc'[e] \in {"ipDelLoad", "ipDelStore"} =>
           pc[e] \in {"ipDelLoad", "ipDelStore"} /\ held'[e] = held[e]
    BY <1>3 DEF AddLoad, Goto, See, RacedIf
  <2>3. UNCHANGED <<cur, maps, realtime, later>>
    BY <1>3 DEF AddLoad
  <2> QED BY <2>0, <2>1, <2>2, <2>3, IPsKept
<1>4. ASSUME NEW c \in Conn, AddStore(c) PROVE IPsFollow'
  <2>0. ~raced' => ~raced
    BY <1>4, Zenon DEF AddStore, RacedIf
  <2>1. \A j \in IP : IPSlots(j)' = IPSlots(j)
    BY <1>4 DEF AddStore, Goto, RacedIf, IPSlots
  <2>2. \A e \in Conn : pc'[e] \in {"ipDelLoad", "ipDelStore"} =>
           pc[e] \in {"ipDelLoad", "ipDelStore"} /\ held'[e] = held[e]
    BY <1>4 DEF AddStore, Goto, RacedIf
  <2>3. UNCHANGED <<cur, maps, realtime, later>>
    BY <1>4 DEF AddStore
  <2> QED BY <2>0, <2>1, <2>2, <2>3, IPsKept
<1>5. ASSUME NEW c \in Conn, IPGet(c) PROVE IPsFollow'
  <2>0. ~raced' => ~raced
    BY <1>5, Zenon DEF IPGet, RacedIf
  <2> SUFFICES ASSUME ~raced', ~raced, realtime, IPLimit # 0, \A j \in IP : IPExact(j), DelHoldsCur
               PROVE  (\A j \in IP : IPExact(j)') /\ DelHoldsCur'
    BY <1>5, <2>0 DEF IPGet, IPsFollow
  <2>1. \A j \in IP : IPSlots(j)' = IPSlots(j)
    BY <1>5 DEF IPGet, Goto, Hold, IPSlots
  <2>2. \A e \in Conn : pc'[e] \in {"ipDelLoad", "ipDelStore"} =>
           pc[e] \in {"ipDelLoad", "ipDelStore"} /\ held'[e] = held[e]
    BY <1>5 DEF IPGet, Goto, Hold
  <2>3. later' = later
    BY <1>5 DEF IPGet
  <2>4. CASE cur # NoMap
    <3>1. UNCHANGED <<cur, maps, realtime, later>>
      BY <1>5, <2>4 DEF IPGet
    <3> QED BY <2>0, <2>1, <2>2, <3>1, IPsKept DEF IPsFollow
  <2>5. CASE cur = NoMap
    <3>1. PICK m \in Map : cur' = m /\ maps' = [maps EXCEPT ![m] = [i \in IP |-> 0]]
      BY <1>5, <2>5 DEF IPGet
    <3>2. \A j \in IP : Registered(j) = 0 /\ Registered(j)' = 0
      BY <2>5, <3>1 DEF Registered
    <3>3. \A j \in IP : IPExact(j)'
      BY <2>1, <2>3, <3>2 DEF IPExact
    <3>4. \A e \in Conn : pc[e] \in {"ipDelLoad", "ipDelStore"} => held[e] = NoMap /\ held[e] \in Map
      BY <2>5 DEF DelHoldsCur, CallState
    <3>5. DelHoldsCur'
      BY <2>2, <3>4 DEF DelHoldsCur
    <3> QED BY <3>3, <3>5
  <2> QED BY <2>4, <2>5
<1>6. ASSUME NEW c \in Conn, IPLoad(c) PROVE IPsFollow'
  <2>0. ~raced' => ~raced
    BY <1>6, Zenon DEF IPLoad, RacedIf
  <2>1. \A j \in IP : IPSlots(j)' = IPSlots(j)
    BY <1>6 DEF IPLoad, Goto, See, IPSlots
  <2>2. \A e \in Conn : pc'[e] \in {"ipDelLoad", "ipDelStore"} =>
           pc[e] \in {"ipDelLoad", "ipDelStore"} /\ held'[e] = held[e]
    BY <1>6 DEF IPLoad, Goto, See
  <2>3. UNCHANGED <<cur, maps, realtime, later>>
    BY <1>6 DEF IPLoad
  <2> QED BY <2>0, <2>1, <2>2, <2>3, IPsKept
<1>7. ASSUME NEW c \in Conn, IPRange(c) PROVE IPsFollow'
  <2>0. ~raced' => ~raced
    BY <1>7, Zenon DEF IPRange, RacedIf
  <2>1. \A j \in IP : IPSlots(j)' = IPSlots(j)
    BY <1>7 DEF IPRange, Goto, See, Hold, Drop, IPSlots
  <2>2. \A e \in Conn : pc'[e] \in {"ipDelLoad", "ipDelStore"} =>
           pc[e] \in {"ipDelLoad", "ipDelStore"} /\ held'[e] = held[e]
    BY <1>7 DEF IPRange, Goto, See, Hold, Drop
  <2>3. UNCHANGED <<cur, maps, realtime, later>>
    BY <1>7 DEF IPRange
  <2> QED BY <2>0, <2>1, <2>2, <2>3, IPsKept
<1>8. ASSUME NEW c \in Conn, IPStore(c) PROVE IPsFollow'
  <2>0. ~raced' => ~raced
    BY <1>8, Zenon DEF IPStore, RacedIf
  <2> SUFFICES ASSUME ~raced', ~raced, realtime, IPLimit # 0, \A j \in IP : IPExact(j), DelHoldsCur
               PROVE  (\A j \in IP : IPExact(j)') /\ DelHoldsCur'
    BY <1>8, <2>0 DEF IPStore, IPsFollow
  <2>1. held[c] \in Map /\ ip[c] \in IP /\ held[c] = cur /\ maps[cur][ip[c]] = seen[c]
    <3>1. held[c] \in Map /\ ip[c] \in IP
      BY <1>8 DEF IPStore, CallState
    <3>2. held[c] = cur /\ maps[held[c]][ip[c]] = seen[c]
      BY <1>8, Zenon DEF IPStore, RacedIf
    <3> QED BY <3>1, <3>2
  <2>2. /\ cur' = cur /\ later' = later /\ cur # NoMap
        /\ seen[c] \in Int /\ kind[c] \in {"tcp", "udp"}
    BY <1>8, <2>1 DEF IPStore
  <2>3. DelHoldsCur'
    BY <1>8, <2>2 DEF IPStore, Goto, See, Hold, Drop, Put, RacedIf, DelHoldsCur
  <2>4. ASSUME NEW j \in IP, j # ip[c] PROVE IPExact(j)'
    <3>1. IPSlots(j)' = IPSlots(j)
      BY <1>8, <2>4 DEF IPStore, Goto, See, Hold, Drop, Put, RacedIf, IPSlots
    <3>2. Registered(j)' = Registered(j)
      BY <1>8, <2>1, <2>2, <2>4 DEF IPStore, Put, Registered
    <3>3. IPExact(j)
      OBVIOUS
    <3> QED BY <2>2, <3>1, <3>2, <3>3 DEF IPExact
  <2>5. CASE kind[c] = "tcp"
    <3>0. PICK j \in IP : j = ip[c]
      BY <2>1
    <3>1. IPSlots(j)' = IPSlots(j) \cup {c} /\ c \notin IPSlots(j)
      BY <1>8, <2>1, <2>5, <3>0 DEF IPStore, Goto, See, Hold, Drop, Put, RacedIf, IPSlots
    <3>2. Cardinality(IPSlots(j)') = Cardinality(IPSlots(j)) + 1
      BY <3>1, SlotsFinite, FS_AddElement
    <3>3. Registered(j) = seen[c] /\ Registered(j)' = seen[c] + 2
      BY <1>8, <2>1, <2>2, <2>5, <3>0 DEF IPStore, Put, Registered
    <3>4. IPExact(j)
      BY <2>1
    <3>5. PICK k \in Nat : k = Cardinality(IPSlots(j))
      BY SlotsFinite
    <3>6. /\ seen[c] + 2 >= 2 * (k + 1)
          /\ later = 0 => seen[c] + 2 <= 2 * (k + 1) + 1
      BY <2>2, <3>3, <3>4, <3>5 DEF IPExact
    <3>7. IPExact(j)'
      BY <2>2, <3>2, <3>3, <3>5, <3>6 DEF IPExact
    <3> QED BY <2>3, <2>4, <3>0, <3>7
  <2>6. CASE kind[c] = "udp"
    <3>0. PICK j \in IP : j = ip[c]
      BY <2>1
    <3>1. IPSlots(j)' = IPSlots(j)
      BY <1>8, <2>1, <2>6, <3>0 DEF IPStore, Goto, See, Hold, Drop, Put, RacedIf, IPSlots
    <3>2. Registered(j) = seen[c] /\ Registered(j)' = IF seen[c] = 0 THEN 1 ELSE seen[c]
      BY <1>8, <2>1, <2>2, <2>6, <3>0 DEF IPStore, Put, Registered
    <3>3. IPExact(j)
      BY <2>1
    <3>4. PICK k \in Nat : k = Cardinality(IPSlots(j))
      BY SlotsFinite
    <3>5. IPExact(j)'
      BY <2>2, <3>1, <3>2, <3>3, <3>4 DEF IPExact
    <3> QED BY <2>3, <2>4, <3>0, <3>5
  <2> QED BY <2>2, <2>5, <2>6
<1>9. ASSUME NEW c \in Conn, UndoLoad(c) PROVE IPsFollow'
  <2>0. ~raced' => ~raced
    BY <1>9, Zenon DEF UndoLoad, RacedIf
  <2>1. \A j \in IP : IPSlots(j)' = IPSlots(j)
    BY <1>9 DEF UndoLoad, Goto, See, Hold, Drop, IPSlots
  <2>2. \A e \in Conn : pc'[e] \in {"ipDelLoad", "ipDelStore"} =>
           pc[e] \in {"ipDelLoad", "ipDelStore"} /\ held'[e] = held[e]
    BY <1>9 DEF UndoLoad, Goto, See, Hold, Drop
  <2>3. UNCHANGED <<cur, maps, realtime, later>>
    BY <1>9 DEF UndoLoad
  <2> QED BY <2>0, <2>1, <2>2, <2>3, IPsKept
<1>10. ASSUME NEW c \in Conn, UndoStore(c) PROVE IPsFollow'
  <2>0. ~raced' => ~raced
    BY <1>10, Zenon DEF UndoStore, RacedIf
  <2>1. \A j \in IP : IPSlots(j)' = IPSlots(j)
    BY <1>10 DEF UndoStore, Goto, See, Hold, Drop, RacedIf, IPSlots
  <2>2. \A e \in Conn : pc'[e] \in {"ipDelLoad", "ipDelStore"} =>
           pc[e] \in {"ipDelLoad", "ipDelStore"} /\ held'[e] = held[e]
    BY <1>10 DEF UndoStore, Goto, See, Hold, Drop, RacedIf
  <2>3. UNCHANGED <<cur, maps, realtime, later>>
    BY <1>10 DEF UndoStore
  <2> QED BY <2>0, <2>1, <2>2, <2>3, IPsKept
<1>11. ASSUME NEW c \in Conn, DelLoad(c) PROVE IPsFollow'
  <2>0. ~raced' => ~raced
    BY <1>11, Zenon DEF DelLoad, RacedIf
  <2> SUFFICES ASSUME ~raced', ~raced, realtime, IPLimit # 0, \A j \in IP : IPExact(j), DelHoldsCur
               PROVE  (\A j \in IP : IPExact(j)') /\ DelHoldsCur'
    BY <1>11, <2>0 DEF DelLoad, IPsFollow
  <2>1. \A j \in IP : IPSlots(j)' = IPSlots(j)
    BY <1>11 DEF DelLoad, Goto, See, Hold, Drop, AfterCount, IPSlots
  <2>2. \A e \in Conn : pc'[e] \in {"ipDelLoad", "ipDelStore"} =>
           pc[e] \in {"ipDelLoad", "ipDelStore"} /\ held'[e] = held[e]
    BY <1>11 DEF DelLoad, Goto, See, Hold, Drop, AfterCount
  <2>3. UNCHANGED <<cur, maps, realtime, later>>
    BY <1>11 DEF DelLoad
  <2> QED BY <2>0, <2>1, <2>2, <2>3, IPsKept DEF IPsFollow
<1>12. ASSUME NEW c \in Conn, DelStore(c) PROVE IPsFollow'
  <2>0. ~raced' => ~raced
    BY <1>12, Zenon DEF DelStore, RacedIf
  <2> SUFFICES ASSUME ~raced', ~raced, realtime, IPLimit # 0, \A j \in IP : IPExact(j), DelHoldsCur
               PROVE  (\A j \in IP : IPExact(j)') /\ DelHoldsCur'
    BY <1>12, <2>0 DEF DelStore, IPsFollow
  <2>1. \A j \in IP : IPSlots(j)' = IPSlots(j)
    BY <1>12 DEF DelStore, Goto, See, Hold, Drop, AfterCount, RacedIf, IPSlots
  <2>2. \A e \in Conn : pc'[e] \in {"ipDelLoad", "ipDelStore"} =>
           pc[e] \in {"ipDelLoad", "ipDelStore"} /\ held'[e] = held[e]
    BY <1>12 DEF DelStore, Goto, See, Hold, Drop, AfterCount, RacedIf
  <2>3. UNCHANGED <<cur, maps, realtime, later>>
    BY <1>12 DEF DelStore
  <2> QED BY <2>0, <2>1, <2>2, <2>3, IPsKept DEF IPsFollow
<1>13. ASSUME NEW c \in Conn, IPDelGet(c) PROVE IPsFollow'
  <2>0. ~raced' => ~raced
    BY <1>13, Zenon DEF IPDelGet, RacedIf
  <2> SUFFICES ASSUME ~raced', ~raced, realtime, IPLimit # 0, \A j \in IP : IPExact(j), DelHoldsCur
               PROVE  (\A j \in IP : IPExact(j)') /\ DelHoldsCur'
    BY <1>13, <2>0 DEF IPDelGet, IPsFollow
  <2>1. c \in IPSlots(ip[c])
    BY <1>13 DEF IPDelGet, IPSlots, CallState
  <2>2. cur \in Map
    BY <2>1, SlotIsRegistered DEF IPsFollow
  <2>3. Hold(c, cur) /\ Goto(c, "ipDelLoad")
    BY <1>13, <2>2 DEF IPDelGet
  <2>4. \A j \in IP : IPSlots(j)' = IPSlots(j)
    BY <1>13, <2>3 DEF IPDelGet, Goto, IPSlots
  <2>5. \A j \in IP : Registered(j)' = Registered(j)
    BY <1>13 DEF IPDelGet, Registered
  <2>6. DelHoldsCur'
    BY <1>13, <2>3 DEF IPDelGet, Goto, Hold, DelHoldsCur
  <2> QED BY <1>13, <2>4, <2>5, <2>6 DEF IPDelGet, IPExact
<1>14. ASSUME NEW c \in Conn, IPDelLoad(c) PROVE IPsFollow'
  <2>0. ~raced' => ~raced
    BY <1>14, Zenon DEF IPDelLoad, RacedIf
  <2> SUFFICES ASSUME ~raced', ~raced, realtime, IPLimit # 0, \A j \in IP : IPExact(j), DelHoldsCur
               PROVE  (\A j \in IP : IPExact(j)') /\ DelHoldsCur'
    BY <1>14, <2>0 DEF IPDelLoad, IPsFollow
  <2>1. c \in IPSlots(ip[c])
    BY <1>14 DEF IPDelLoad, IPSlots, CallState
  <2>2. maps[cur][ip[c]] >= 2 /\ held[c] = cur /\ maps[cur][ip[c]] \in Int
    BY <1>14, <2>1, SlotIsRegistered DEF IPDelLoad, IPsFollow, DelHoldsCur
  <2>3. Goto(c, "ipDelStore") /\ held' = held
    BY <1>14, <2>2 DEF IPDelLoad
  <2>4. \A j \in IP : IPSlots(j)' = IPSlots(j)
    BY <1>14, <2>3 DEF IPDelLoad, Goto, IPSlots
  <2>5. \A e \in Conn : pc'[e] \in {"ipDelLoad", "ipDelStore"} =>
           pc[e] \in {"ipDelLoad", "ipDelStore"} /\ held'[e] = held[e]
    BY <1>14, <2>3 DEF IPDelLoad, Goto
  <2>6. UNCHANGED <<cur, maps, realtime, later>>
    BY <1>14 DEF IPDelLoad
  <2> QED BY <2>0, <2>4, <2>5, <2>6, IPsKept DEF IPsFollow
<1>15. ASSUME NEW c \in Conn, IPDelStore(c) PROVE IPsFollow'
  <2>0. ~raced' => ~raced
    BY <1>15, Zenon DEF IPDelStore, RacedIf
  <2> SUFFICES ASSUME ~raced', ~raced, realtime, IPLimit # 0, \A j \in IP : IPExact(j), DelHoldsCur
               PROVE  (\A j \in IP : IPExact(j)') /\ DelHoldsCur'
    BY <1>15, <2>0 DEF IPDelStore, IPsFollow
  <2>1. c \in IPSlots(ip[c])
    BY <1>15 DEF IPDelStore, IPSlots, CallState
  <2>2. /\ held[c] \in Map /\ ip[c] \in IP
        /\ held[c] = cur /\ maps[cur][ip[c]] = seen[c]
    <3>1. held[c] \in Map /\ ip[c] \in IP
      BY <1>15 DEF IPDelStore, CallState
    <3>2. held[c] = cur /\ maps[held[c]][ip[c]] = seen[c]
      BY <1>15, Zenon DEF IPDelStore, RacedIf
    <3> QED BY <3>1, <3>2
  <2>3. cur' = cur /\ later' = later /\ cur # NoMap /\ seen[c] \in Int
    BY <1>15, <2>2 DEF IPDelStore
  <2>4. DelHoldsCur'
    BY <1>15, <2>3 DEF IPDelStore, Goto, Put, RacedIf, DelHoldsCur
  <2>5. ASSUME NEW j \in IP, j # ip[c] PROVE IPExact(j)'
    <3>1. IPSlots(j)' = IPSlots(j)
      BY <1>15, <2>5 DEF IPDelStore, Goto, Put, RacedIf, IPSlots
    <3>2. Registered(j)' = Registered(j)
      BY <1>15, <2>2, <2>3, <2>5 DEF IPDelStore, Put, Registered
    <3>3. IPExact(j)
      OBVIOUS
    <3> QED BY <2>3, <3>1, <3>2, <3>3 DEF IPExact
  <2>6. \A j \in IP : j = ip[c] => IPExact(j)'
    <3>0. PICK j \in IP : j = ip[c]
      BY <2>2
    <3>1. IPSlots(j)' = IPSlots(j) \ {c} /\ c \in IPSlots(j)
      BY <1>15, <2>1, <3>0 DEF IPDelStore, Goto, Put, RacedIf, IPSlots
    <3>2. Cardinality(IPSlots(j)') = Cardinality(IPSlots(j)) - 1
      BY <3>1, SlotsFinite, FS_RemoveElement
    <3>3. Registered(j) = seen[c] /\ Registered(j)' = seen[c] - 2
      BY <1>15, <2>2, <2>3, <3>0 DEF IPDelStore, Put, Registered
    <3>4. IPExact(j)
      BY <2>2
    <3>5. PICK k \in Nat : k = Cardinality(IPSlots(j))
      BY SlotsFinite
    <3>6. /\ seen[c] - 2 >= 2 * (k - 1)
          /\ later = 0 => seen[c] - 2 <= 2 * (k - 1) + 1
      BY <2>3, <3>3, <3>4, <3>5 DEF IPExact
    <3>7. IPExact(j)'
      BY <2>3, <3>2, <3>3, <3>5, <3>6 DEF IPExact
    <3> QED BY <3>0, <3>7
  <2> QED BY <2>4, <2>5, <2>6
<1>16. ASSUME NEW c \in Conn, IPDelCheck(c) PROVE IPsFollow'
  <2>0. ~raced' => ~raced
    BY <1>16, Zenon DEF IPDelCheck, RacedIf
  <2>1. \A j \in IP : IPSlots(j)' = IPSlots(j)
    BY <1>16 DEF IPDelCheck, Goto, See, Hold, Drop, IPSlots
  <2>2. \A e \in Conn : pc'[e] \in {"ipDelLoad", "ipDelStore"} =>
           pc[e] \in {"ipDelLoad", "ipDelStore"} /\ held'[e] = held[e]
    BY <1>16 DEF IPDelCheck, Goto, See, Hold, Drop
  <2>3. UNCHANGED <<cur, maps, realtime, later>>
    BY <1>16 DEF IPDelCheck
  <2> QED BY <2>0, <2>1, <2>2, <2>3, IPsKept
<1>17. ASSUME NEW c \in Conn, IPDelDrop(c) PROVE IPsFollow'
  <2>0. ~raced' => ~raced
    BY <1>17, Zenon DEF IPDelDrop, RacedIf
  <2> SUFFICES ASSUME ~raced', ~raced, realtime, IPLimit # 0, \A j \in IP : IPExact(j), DelHoldsCur
               PROVE  (\A j \in IP : IPExact(j)') /\ DelHoldsCur'
    BY <1>17, <2>0 DEF IPDelDrop, IPsFollow
  <2>1. cur' = NoMap /\ maps' = maps /\ later' = later
    BY <1>17 DEF IPDelDrop
  <2>2. held[c] = cur /\ Online(held[c]) = {}
    BY <1>17, Zenon DEF IPDelDrop, RacedIf
  <2>3. \A j \in IP : Registered(j) = 0 /\ Registered(j)' = 0
    BY <2>1, <2>2 DEF Registered, Online
  <2>4. \A j \in IP : IPSlots(j)' = IPSlots(j)
    BY <1>17 DEF IPDelDrop, Goto, See, Hold, Drop, RacedIf, IPSlots
  <2>5. \A j \in IP : IPExact(j)'
    BY <2>1, <2>3, <2>4 DEF IPExact
  <2>6. ASSUME NEW e \in Conn, pc[e] \in {"ipDelLoad", "ipDelStore"} PROVE FALSE
    <3>1. e \in IPSlots(ip[e]) /\ ip[e] \in IP
      BY <2>6 DEF IPSlots, CallState
    <3>2. cur \in Map /\ maps[cur][ip[e]] >= 2
      BY <3>1, SlotIsRegistered DEF IPsFollow
    <3> QED BY <2>3, <3>1, <3>2 DEF Registered
  <2>7. \A e \in Conn : pc'[e] \in {"ipDelLoad", "ipDelStore"} =>
           pc[e] \in {"ipDelLoad", "ipDelStore"} /\ held'[e] = held[e]
    BY <1>17 DEF IPDelDrop, Goto, See, Hold, Drop, RacedIf
  <2> QED BY <2>5, <2>6, <2>7 DEF DelHoldsCur
<1>18. ASSUME NEW c \in Conn, Pass(c) PROVE IPsFollow'
  <2>0. ~raced' => ~raced
    BY <1>18, Zenon DEF Pass, RacedIf
  <2>1. \A j \in IP : IPSlots(j)' = IPSlots(j)
    BY <1>18 DEF Pass, Goto, IPSlots
  <2>2. \A e \in Conn : pc'[e] \in {"ipDelLoad", "ipDelStore"} =>
           pc[e] \in {"ipDelLoad", "ipDelStore"} /\ held'[e] = held[e]
    BY <1>18 DEF Pass, Goto
  <2>3. UNCHANGED <<cur, maps, realtime, later>>
    BY <1>18 DEF Pass
  <2> QED BY <2>0, <2>1, <2>2, <2>3, IPsKept
<1>19. ASSUME NEW c \in Conn, RejectLater(c) PROVE IPsFollow'
  <2>0. ~raced' => ~raced
    BY <1>19, Zenon DEF RejectLater, RacedIf
  <2> SUFFICES ASSUME ~raced', ~raced, realtime, IPLimit # 0, \A j \in IP : IPExact(j), DelHoldsCur
               PROVE  (\A j \in IP : IPExact(j)') /\ DelHoldsCur'
    BY <1>19, <2>0 DEF RejectLater, IPsFollow
  <2>1. \A j \in IP : Registered(j)' = Registered(j)
    BY <1>19 DEF RejectLater, Registered
  <2>2. DelHoldsCur'
    BY <1>19 DEF RejectLater, Goto, DelHoldsCur
  <2>3. ASSUME NEW j \in IP PROVE IPExact(j)'
    <3>0. IPExact(j) /\ Registered(j) \in Int
      BY DEF Registered
    <3>1. CASE j = ip[c] /\ kind[c] = "tcp"
      <4>1. IPSlots(j)' = IPSlots(j) \ {c} /\ c \in IPSlots(j)
        BY <1>19, <3>1 DEF RejectLater, Goto, IPSlots
      <4>2. Cardinality(IPSlots(j)') = Cardinality(IPSlots(j)) - 1
        BY <4>1, SlotsFinite, FS_RemoveElement
      <4>3. later' # 0
        BY <1>19, <3>1 DEF RejectLater
      <4>4. PICK k \in Nat : k = Cardinality(IPSlots(j))
        BY SlotsFinite
      <4>5. Registered(j) >= 2 * (k - 1)
        BY <3>0, <4>4 DEF IPExact
      <4> QED BY <2>1, <4>2, <4>3, <4>4, <4>5 DEF IPExact
    <3>2. CASE ~(j = ip[c] /\ kind[c] = "tcp")
      <4>1. IPSlots(j)' = IPSlots(j)
        BY <1>19, <3>2 DEF RejectLater, Goto, IPSlots
      <4>2. later' = 0 => later = 0
        BY <1>19 DEF RejectLater
      <4> QED BY <2>1, <3>0, <4>1, <4>2 DEF IPExact
    <3> QED BY <3>1, <3>2
  <2> QED BY <2>2, <2>3
<1>20. ASSUME NEW c \in Conn, CloseUDP(c) PROVE IPsFollow'
  <2>0. ~raced' => ~raced
    BY <1>20, Zenon DEF CloseUDP, RacedIf
  <2>1. \A j \in IP : IPSlots(j)' = IPSlots(j)
    BY <1>20 DEF CloseUDP, Goto, IPSlots
  <2>2. \A e \in Conn : pc'[e] \in {"ipDelLoad", "ipDelStore"} =>
           pc[e] \in {"ipDelLoad", "ipDelStore"} /\ held'[e] = held[e]
    BY <1>20 DEF CloseUDP, Goto
  <2>3. UNCHANGED <<cur, maps, realtime, later>>
    BY <1>20 DEF CloseUDP
  <2> QED BY <2>0, <2>1, <2>2, <2>3, IPsKept
<1>21. ASSUME NEW c \in Conn, CloseTCP(c) PROVE IPsFollow'
  <2>0. ~raced' => ~raced
    BY <1>21, Zenon DEF CloseTCP, RacedIf
  <2>1. \A j \in IP : IPSlots(j)' = IPSlots(j)
    BY <1>21 DEF CloseTCP, Goto, IPSlots
  <2>2. \A e \in Conn : pc'[e] \in {"ipDelLoad", "ipDelStore"} =>
           pc[e] \in {"ipDelLoad", "ipDelStore"} /\ held'[e] = held[e]
    BY <1>21 DEF CloseTCP, Goto
  <2>3. UNCHANGED <<cur, maps, realtime, later>>
    BY <1>21 DEF CloseTCP
  <2> QED BY <2>0, <2>1, <2>2, <2>3, IPsKept
<1>22. CASE SweepStart
  <2>0. ~raced' => ~raced
    BY <1>22, Zenon DEF SweepStart, RacedIf
  <2>1. \A j \in IP : IPSlots(j)' = IPSlots(j)
    BY <1>22 DEF SweepStart, NoSweep, IPSlots
  <2>2. \A e \in Conn : pc'[e] \in {"ipDelLoad", "ipDelStore"} =>
           pc[e] \in {"ipDelLoad", "ipDelStore"} /\ held'[e] = held[e]
    BY <1>22 DEF SweepStart, NoSweep
  <2>3. UNCHANGED <<cur, maps, realtime, later>>
    BY <1>22 DEF SweepStart
  <2> QED BY <2>0, <2>1, <2>2, <2>3, IPsKept
<1>23. ASSUME NEW i \in IP, SweepLoad(i) PROVE IPsFollow'
  <2>0. ~raced' => ~raced
    BY <1>23, Zenon DEF SweepLoad, RacedIf
  <2>1. \A j \in IP : IPSlots(j)' = IPSlots(j)
    BY <1>23 DEF SweepLoad, IPSlots
  <2>2. \A e \in Conn : pc'[e] \in {"ipDelLoad", "ipDelStore"} =>
           pc[e] \in {"ipDelLoad", "ipDelStore"} /\ held'[e] = held[e]
    BY <1>23 DEF SweepLoad
  <2>3. UNCHANGED <<cur, maps, realtime, later>>
    BY <1>23 DEF SweepLoad
  <2> QED BY <2>0, <2>1, <2>2, <2>3, IPsKept
<1>24. ASSUME NEW i \in IP, SweepDelete(i) PROVE IPsFollow'
  <2>0. ~raced' => ~raced
    BY <1>24, Zenon DEF SweepDelete, RacedIf
  <2> SUFFICES ASSUME ~raced', ~raced, realtime, IPLimit # 0, \A j \in IP : IPExact(j), DelHoldsCur
               PROVE  (\A j \in IP : IPExact(j)') /\ DelHoldsCur'
    BY <1>24, <2>0 DEF SweepDelete, IPsFollow
  <2>1. sweep.map \in Map /\ maps[sweep.map][i] = 1
    <3>1. sweep.map \in Map
      BY <1>24 DEF SweepDelete, CallState
    <3>2. maps[sweep.map][i] = 1
      BY <1>24, Zenon DEF SweepDelete, RacedIf
    <3> QED BY <3>1, <3>2
  <2>2. /\ maps' = [maps EXCEPT ![sweep.map][i] = 0]
        /\ UNCHANGED <<cur, later, pc, held, ip, kind>>
    BY <1>24 DEF SweepDelete, Put
  <2>3. \A j \in IP : Registered(j)' = Registered(j) \/ (Registered(j) = 1 /\ Registered(j)' = 0)
    BY <2>1, <2>2 DEF Registered
  <2>4. \A j \in IP : IPSlots(j)' = IPSlots(j)
    BY <2>2 DEF IPSlots
  <2>5. ASSUME NEW j \in IP PROVE IPExact(j)'
    <3>1. PICK k \in Nat : k = Cardinality(IPSlots(j))
      BY SlotsFinite
    <3>2. /\ Registered(j) >= 2 * k
          /\ later = 0 => Registered(j) <= 2 * k + 1
      BY <3>1 DEF IPExact
    <3>3. /\ Registered(j)' >= 2 * k
          /\ later = 0 => Registered(j)' <= 2 * k + 1
      BY <2>3, <3>2
    <3> QED BY <2>2, <2>4, <3>1, <3>3 DEF IPExact
  <2>6. DelHoldsCur'
    BY <2>2 DEF DelHoldsCur
  <2> QED BY <2>5, <2>6
<1>25. CASE SweepCheck
  <2>0. ~raced' => ~raced
    BY <1>25, Zenon DEF SweepCheck, RacedIf
  <2>1. \A j \in IP : IPSlots(j)' = IPSlots(j)
    BY <1>25 DEF SweepCheck, NoSweep, IPSlots
  <2>2. \A e \in Conn : pc'[e] \in {"ipDelLoad", "ipDelStore"} =>
           pc[e] \in {"ipDelLoad", "ipDelStore"} /\ held'[e] = held[e]
    BY <1>25 DEF SweepCheck, NoSweep
  <2>3. UNCHANGED <<cur, maps, realtime, later>>
    BY <1>25 DEF SweepCheck
  <2> QED BY <2>0, <2>1, <2>2, <2>3, IPsKept
<1>26. CASE SweepDrop
  <2>0. ~raced' => ~raced
    BY <1>26, Zenon DEF SweepDrop, RacedIf
  <2> SUFFICES ASSUME ~raced', ~raced, realtime, IPLimit # 0, \A j \in IP : IPExact(j), DelHoldsCur
               PROVE  (\A j \in IP : IPExact(j)') /\ DelHoldsCur'
    BY <1>26, <2>0 DEF SweepDrop, IPsFollow
  <2>1. cur' = NoMap /\ maps' = maps /\ later' = later
    BY <1>26 DEF SweepDrop
  <2>2. sweep.map = cur /\ Online(sweep.map) = {}
    BY <1>26, Zenon DEF SweepDrop, RacedIf
  <2>3. \A j \in IP : Registered(j) = 0 /\ Registered(j)' = 0
    BY <2>1, <2>2 DEF Registered, Online
  <2>4. \A j \in IP : IPSlots(j)' = IPSlots(j)
    BY <1>26 DEF SweepDrop, NoSweep, RacedIf, IPSlots
  <2>5. \A j \in IP : IPExact(j)'
    BY <2>1, <2>3, <2>4 DEF IPExact
  <2>6. ASSUME NEW e \in Conn, pc[e] \in {"ipDelLoad", "ipDelStore"} PROVE FALSE
    <3>1. e \in IPSlots(ip[e]) /\ ip[e] \in IP
      BY <2>6 DEF IPSlots, CallState
    <3>2. cur \in Map /\ maps[cur][ip[e]] >= 2
      BY <3>1, SlotIsRegistered DEF IPsFollow
    <3> QED BY <2>3, <3>1, <3>2 DEF Registered
  <2>7. \A e \in Conn : pc'[e] \in {"ipDelLoad", "ipDelStore"} =>
           pc[e] \in {"ipDelLoad", "ipDelStore"} /\ held'[e] = held[e]
    BY <1>26 DEF SweepDrop, NoSweep, RacedIf
  <2> QED BY <2>5, <2>6, <2>7 DEF DelHoldsCur
<1>27. ASSUME NEW c \in Conn, NEW i \in IP, NEW k \in Kinds, Readdress(c, i, k)
      PROVE  IPsFollow'
  <2>0. ~raced' => ~raced
    BY <1>27, Zenon DEF Readdress, RacedIf
  <2>1. \A j \in IP : IPSlots(j)' = IPSlots(j)
    BY <1>27 DEF Readdress, IPSlots
  <2>2. \A e \in Conn : pc'[e] \in {"ipDelLoad", "ipDelStore"} =>
           pc[e] \in {"ipDelLoad", "ipDelStore"} /\ held'[e] = held[e]
    BY <1>27 DEF Readdress
  <2>3. UNCHANGED <<cur, maps, realtime, later>>
    BY <1>27 DEF Readdress
  <2> QED BY <2>0, <2>1, <2>2, <2>3, IPsKept
<1>28. ASSUME NEW c \in Conn, Abandon(c) PROVE IPsFollow'
  <2>0. ~raced' => ~raced
    BY <1>28, Zenon DEF Abandon, RacedIf
  <2> SUFFICES ASSUME ~raced', ~raced, realtime, IPLimit # 0, \A j \in IP : IPExact(j), DelHoldsCur
               PROVE  (\A j \in IP : IPExact(j)') /\ DelHoldsCur'
    BY <1>28, <2>0 DEF Abandon, IPsFollow
  <2>1. \A j \in IP : Registered(j)' = Registered(j)
    BY <1>28 DEF Abandon, Registered
  <2>2. DelHoldsCur'
    BY <1>28 DEF Abandon, Goto, DelHoldsCur
  <2>3. ASSUME NEW j \in IP PROVE IPExact(j)'
    <3>0. IPExact(j) /\ Registered(j) \in Int
      BY DEF Registered
    <3>1. CASE j = ip[c] /\ kind[c] = "tcp"
      <4>1. IPSlots(j)' = IPSlots(j) \ {c} /\ c \in IPSlots(j)
        BY <1>28, <3>1 DEF Abandon, Goto, IPSlots
      <4>2. Cardinality(IPSlots(j)') = Cardinality(IPSlots(j)) - 1
        BY <4>1, SlotsFinite, FS_RemoveElement
      <4>3. later' # 0
        BY <1>28, <3>1 DEF Abandon
      <4>4. PICK k \in Nat : k = Cardinality(IPSlots(j))
        BY SlotsFinite
      <4>5. Registered(j) >= 2 * (k - 1)
        BY <3>0, <4>4 DEF IPExact
      <4> QED BY <2>1, <4>2, <4>3, <4>4, <4>5 DEF IPExact
    <3>2. CASE ~(j = ip[c] /\ kind[c] = "tcp")
      <4>1. IPSlots(j)' = IPSlots(j)
        BY <1>28, <3>2 DEF Abandon, Goto, IPSlots
      <4>2. later' = 0 => later = 0
        BY <1>28 DEF Abandon
      <4> QED BY <2>1, <3>0, <4>1, <4>2 DEF IPExact
    <3> QED BY <3>1, <3>2
  <2> QED BY <2>2, <2>3
<1>29. CASE UNCHANGED vars
  <2>0. ~raced' => ~raced
    BY <1>29, Zenon DEF vars, RacedIf
  <2>1. \A j \in IP : IPSlots(j)' = IPSlots(j)
    BY <1>29 DEF vars, IPSlots
  <2>2. \A e \in Conn : pc'[e] \in {"ipDelLoad", "ipDelStore"} =>
           pc[e] \in {"ipDelLoad", "ipDelStore"} /\ held'[e] = held[e]
    BY <1>29 DEF vars
  <2>3. UNCHANGED <<cur, maps, realtime, later>>
    BY <1>29 DEF vars
  <2> QED BY <2>0, <2>1, <2>2, <2>3, IPsKept
<1> HIDE DEF ConnAssumption, TypeOK, Place, Outside, Holding, user, call, conf
<1> QED
  BY <1>1, <1>2, <1>3, <1>4, <1>5, <1>6, <1>7, <1>8, <1>9, <1>10, <1>11, <1>12, <1>13,
     <1>14, <1>15, <1>16, <1>17, <1>18, <1>19, <1>20, <1>21, <1>22, <1>23, <1>24,
     <1>25, <1>26, <1>27, <1>28, <1>29
  DEF CallerNext, Next, Step, ClearOnlineIP

-----------------------------------------------------------------------------
LimiterInv == TypeOK /\ CallState
ExactInv == LimiterInv /\ CountFollows /\ OrphansEmpty /\ IPsFollow /\ IPsFit

\* A new limiter: no connection, no slot, no address.
LEMMA InitInvariant == Init => ExactInv
<1> SUFFICES ASSUME Init PROVE ExactInv
  OBVIOUS
<1> USE ConnAssumption DEF ConnAssumption
<1>1. TypeOK
  <2>1. /\ pc \in [Conn -> Place] /\ seen \in [Conn -> Int] /\ maps \in [Map -> [IP -> Int]]
        /\ held \in [Conn -> Map \cup {NoMap}] /\ cur \in Map \cup {NoMap}
        /\ ip \in [Conn -> IP] /\ kind \in [Conn -> {"tcp", "udp"}]
    BY DEF Init, Place, Outside
  <2>2. count \in Nat /\ later \in 0..MaxLater /\ connLimit \in ConnLimits /\ sweeps \in 0..MaxSweeps
    BY DEF Init
  <2>3. realtime \in BOOLEAN /\ undone \in BOOLEAN /\ raced \in BOOLEAN
    BY Zenon DEF Init
  <2>4. sweep \in Sweeping
    BY DEF Init, NoSweep, Sweeping
  <2> QED BY <2>1, <2>2, <2>3, <2>4 DEF TypeOK, Sweeping
<1>2. \A c \in Conn : pc[c] = "idle"
  BY DEF Init
<1>3. CallState
  <2>1. sweep.due = {} /\ sweep.drop = FALSE
    BY DEF Init, NoSweep
  <2> QED BY <1>2, <2>1 DEF CallState, Holding
<1>4. Slots = {} /\ \A i : IPSlots(i) = {}
  BY <1>2 DEF Slots, IPSlots
<1>5. CountFollows
  <2>1. Cardinality(Slots) = 0 /\ count = 0 /\ later = 0 /\ connLimit \in Nat
    BY <1>4, FS_EmptySet DEF Init
  <2> QED BY <1>2, <2>1 DEF CountFollows, CountExact, Adding
<1>6. OrphansEmpty
  BY DEF Init, OrphansEmpty
<1>7. \A i \in IP : Registered(i) = 0
  BY DEF Init, Registered
<1>8. IPsFollow
  <2>1. \A i \in IP : Cardinality(IPSlots(i)) = 0
    BY <1>4, FS_EmptySet
  <2> QED BY <1>2, <1>7, <2>1 DEF IPsFollow, IPExact, DelHoldsCur
<1>9. IPsFit
  <2>1. OnlineIPs = {}
    BY <1>7 DEF OnlineIPs
  <2> QED BY <2>1, FS_EmptySet DEF IPsFit
<1> QED BY <1>1, <1>3, <1>5, <1>6, <1>8, <1>9 DEF ExactInv, LimiterInv

\* The first part survives every step of every caller,
LEMMA LimiterStep ==
  ASSUME LimiterInv, [CallerNext]_vars
  PROVE  LimiterInv'
BY TypeStep, CallStep DEF LimiterInv

\* and so does all of it.
LEMMA ExactStep ==
  ASSUME ExactInv, [CallerNext]_vars
  PROVE  ExactInv'
BY LimiterStep, CountStep, MapsStep, IPsStep DEF ExactInv, LimiterInv

\* Outside the calls the slots are the open connections.
LEMMA SlotsAreOpen ==
  /\ OpenTCP \subseteq Slots
  /\ Calm => Slots = OpenTCP /\ \A i : IPSlots(i) = {c \in OpenTCP : ip[c] = i}
BY DEF OpenTCP, Slots, IPSlots, Calm, Outside

\* What the invariant says about the two properties
LEMMA ExactInvExact ==
  ASSUME ExactInv
  PROVE  SlotsAreExact /\ LimitsHold
<1> USE ConnAssumption DEF ConnAssumption
<1>1. later \in Nat /\ connLimit \in Nat /\ count \in Nat
  BY DEF ExactInv, LimiterInv, TypeOK
<1>2. ~raced /\ Calm => CountIsExact
  <2>1. ~raced /\ Calm /\ connLimit # 0 /\ ~undone =>
           count = Cardinality(Slots) + later /\ Slots = OpenTCP
    BY SlotsAreOpen DEF ExactInv, CountFollows, CountExact
  <2> QED BY <2>1, SlotsFinite DEF CountIsExact
<1>3. ~raced /\ Calm => IPSlotsAreExact
  <2> SUFFICES ASSUME ~raced, Calm, realtime, IPLimit # 0, later = 0, NEW i \in IP
               PROVE  Registered(i) \div 2 = Cardinality({c \in OpenTCP : ip[c] = i})
    BY DEF IPSlotsAreExact
  <2>1. IPExact(i) /\ IPSlots(i) = {c \in OpenTCP : ip[c] = i}
    BY SlotsAreOpen DEF ExactInv, IPsFollow
  <2>2. PICK n \in Nat : n = Cardinality(IPSlots(i))
    BY SlotsFinite
  <2>3. Registered(i) \in Int
    BY DEF ExactInv, LimiterInv, TypeOK, Registered
  <2>4. Registered(i) >= 2 * n /\ Registered(i) <= 2 * n + 1
    BY <2>1, <2>2 DEF IPExact
  <2>5. Registered(i) \div 2 = n
    BY <2>3, <2>4
  <2> QED BY <2>1, <2>2, <2>5
<1>4. ~raced /\ connLimit # 0 /\ ~undone => Cardinality(OpenTCP) <= connLimit
  <2>1. Cardinality(OpenTCP) <= Cardinality(Slots) /\ Cardinality(OpenTCP) \in Nat
    BY SlotsAreOpen, SlotsFinite, FS_Subset, FS_CardinalityType
  <2> QED BY <1>1, <2>1, SlotsFinite DEF ExactInv, CountFollows, CountExact
<1>5. ~raced /\ IPLimit # 0 => Cardinality(OnlineIPs) <= IPLimit
  BY DEF ExactInv, IPsFit
<1> QED BY <1>2, <1>3, <1>4, <1>5 DEF SlotsAreExact, LimitsHold

\* conn.go: whatever calls overlap, the count of a user stays a natural number: no
\* interleaving of the two halves of AddConnCount and DelConnCount makes it negative.
THEOREM CountNeverNegative == Spec => []TypeOK
<1>1. LimiterInv /\ [Next]_vars => LimiterInv'
  BY LimiterStep DEF CallerNext
<1>2. Init => LimiterInv
  BY InitInvariant DEF ExactInv
<1>3. LimiterInv => TypeOK
  BY DEF LimiterInv
<1> QED BY <1>1, <1>2, <1>3, PTL DEF Spec

-----------------------------------------------------------------------------
(* Dispatch *)

Carried ==
    [stage : {"closed", "shaken", "metering", "metered", "sniffed", "ruled", "open", "leaving"},
     born : {"old", "new"}, lim : Limiters \cup {"none"},
     saw : {"none", "old", "torn", "new"},
     exit : {"none", "forced", "routed", "own", "default"}]

\* The types of what ConnLimiter does not have
NodeTypeOK ==
    /\ core \in {"xray", "sing"} /\ named \in BOOLEAN /\ reload \in 0..9
    /\ inbound \in {"old", "gone", "new"} /\ outbound \in BOOLEAN /\ users \in BOOLEAN
    /\ reg \in Limiters \cup {"none"}
    /\ rules \in [Limiters -> {"none", "old", "torn", "new"}]

\* A connection whose rules are still to be checked has a limiter to ask.
CarriedOK ==
    /\ conn \in [Conn -> Carried]
    /\ \A c \in Conn : conn[c].stage \in {"metering", "metered", "sniffed"} => conn[c].lim \in Limiters

\* How far a reload has come when a part of the node is there
ReloadInOrder ==
    /\ named => reg = "first"
    /\ reload = 0 => inbound = "old"
    /\ inbound = "new" => reload >= 7
    /\ users => reload \in {0, 9}
    /\ reload >= 8 => outbound
    /\ reload >= 4 => reg = Lasting
    /\ reload >= 6 => rules[Lasting] = "new"

\* A connection of the new inbound came after all of the reload.
NewComesLast ==
    \A c \in Conn : conn[c].born = "new" =>
        /\ reload = 9 /\ conn[c].exit # "default"
        /\ conn[c].stage \notin {"closed", "shaken"} => conn[c].lim = Lasting
        /\ conn[c].stage \in {"ruled", "open"} => conn[c].saw = "new"

\* Where a connection is in the limiter that lasts, at each stage of its way
PlaceFollowsStage ==
    \A c \in Conn :
        /\ conn[c].stage \in {"closed", "shaken"} => pc[c] = "idle"
        /\ conn[c].stage = "shaken" => conn[c].lim = "none" /\ kind[c] \in Kinds
        /\ conn[c].stage = "metering" =>
              /\ conn[c].lim = Lasting
              /\ pc[c] \in {"limit", "addLoad", "addStore", "ipGet", "ipLoad", "ipRange", "ipStore",
                            "undoLoad", "undoStore", "passed"}
        /\ conn[c].stage \in {"metered", "sniffed", "ruled", "open"} =>
              pc[c] = IF conn[c].lim = Lasting THEN "open" ELSE "idle"
        /\ conn[c].stage = "leaving" =>
              /\ conn[c].lim = Lasting
              /\ pc[c] \in {"delLoad", "delStore", "ipDelGet", "ipDelLoad", "ipDelStore",
                            "ipDelCheck", "ipDelDrop"}

\* Every step keeps the node within its types.
LEMMA NodeTypeStep ==
  ASSUME NodeTypeOK, [DispatchNext]_dispatchVars
  PROVE  NodeTypeOK'
<1> USE DEF NodeTypeOK, nodeVars, limVars, Limiters, Lasting, ReloadOrder
<1>1. CASE ReloadStep
  <2>1. Lasting \in Limiters /\ reload' \in 0..9 /\ UNCHANGED <<core, named>>
    BY <1>1 DEF ReloadStep
  <2>2. /\ inbound' \in {inbound, "gone", "new"}
        /\ reg' \in {reg, "none", "second"}
    BY <1>1 DEF ReloadStep
  <2>3. outbound' \in BOOLEAN /\ users' \in BOOLEAN
    BY <1>1 DEF ReloadStep
  <2>4. rules' \in [Limiters -> {"none", "old", "torn", "new"}]
    BY <1>1, <2>1 DEF ReloadStep
  <2> QED BY <2>1, <2>2, <2>3, <2>4
<1>2. ASSUME Sweep PROVE NodeTypeOK'
  BY <1>2 DEF Sweep
<1>3. ASSUME NEW c \in Conn, NEW i \in IP, NEW k \in Kinds, Handshake(c, i, k)
      PROVE  NodeTypeOK'
  BY <1>3 DEF Handshake
<1>4. ASSUME NEW c \in Conn, NoLimiter(c) PROVE NodeTypeOK'
  BY <1>4 DEF NoLimiter
<1>5. ASSUME NEW c \in Conn, CheckLimit(c) PROVE NodeTypeOK'
  BY <1>5 DEF CheckLimit
<1>6. ASSUME NEW c \in Conn, CheckLimitReplaced(c) PROVE NodeTypeOK'
  BY <1>6 DEF CheckLimitReplaced
<1>7. ASSUME NEW c \in Conn, Call(c) PROVE NodeTypeOK'
  BY <1>7 DEF Call
<1>8. ASSUME NEW c \in Conn, Metered(c) PROVE NodeTypeOK'
  BY <1>8 DEF Metered
<1>9. ASSUME NEW c \in Conn, Sniff(c) PROVE NodeTypeOK'
  BY <1>9 DEF Sniff
<1>10. ASSUME NEW c \in Conn, PassRules(c) PROVE NodeTypeOK'
  BY <1>10 DEF PassRules
<1>11. ASSUME NEW c \in Conn, RejectByRule(c) PROVE NodeTypeOK'
  BY <1>11 DEF RejectByRule, Release
<1>12. ASSUME NEW c \in Conn, RejectByRuleSing(c) PROVE NodeTypeOK'
  BY <1>12 DEF RejectByRuleSing
<1>13. ASSUME NEW c \in Conn, Route(c) PROVE NodeTypeOK'
  BY <1>13 DEF Route
<1>14. ASSUME NEW c \in Conn, NoRoute(c) PROVE NodeTypeOK'
  BY <1>14 DEF NoRoute, Release
<1>15. ASSUME NEW c \in Conn, Close(c) PROVE NodeTypeOK'
  BY <1>15 DEF Close, Release
<1>16. CASE UNCHANGED dispatchVars
  BY <1>16 DEF dispatchVars
<1> QED
  BY <1>1, <1>2, <1>3, <1>4, <1>5, <1>6, <1>7, <1>8, <1>9, <1>10, <1>11, <1>12, <1>13,
     <1>14, <1>15, <1>16
  DEF DispatchNext

\* Every step preserves ReloadInOrder.
LEMMA ReloadInOrderStep ==
  ASSUME NodeTypeOK, ReloadInOrder, [DispatchNext]_dispatchVars
  PROVE  ReloadInOrder'
<1> USE DEF NodeTypeOK, nodeVars, limVars, Limiters, Lasting, ReloadOrder,
        ReloadInOrder
<1>1. CASE ReloadStep
  BY <1>1 DEF ReloadStep
<1>2. ASSUME Sweep PROVE ReloadInOrder'
  BY <1>2 DEF Sweep
<1>3. ASSUME NEW c \in Conn, NEW i \in IP, NEW k \in Kinds, Handshake(c, i, k)
      PROVE  ReloadInOrder'
  BY <1>3 DEF Handshake
<1>4. ASSUME NEW c \in Conn, NoLimiter(c) PROVE ReloadInOrder'
  BY <1>4 DEF NoLimiter
<1>5. ASSUME NEW c \in Conn, CheckLimit(c) PROVE ReloadInOrder'
  BY <1>5 DEF CheckLimit
<1>6. ASSUME NEW c \in Conn, CheckLimitReplaced(c) PROVE ReloadInOrder'
  BY <1>6 DEF CheckLimitReplaced
<1>7. ASSUME NEW c \in Conn, Call(c) PROVE ReloadInOrder'
  BY <1>7 DEF Call
<1>8. ASSUME NEW c \in Conn, Metered(c) PROVE ReloadInOrder'
  BY <1>8 DEF Metered
<1>9. ASSUME NEW c \in Conn, Sniff(c) PROVE ReloadInOrder'
  BY <1>9 DEF Sniff
<1>10. ASSUME NEW c \in Conn, PassRules(c) PROVE ReloadInOrder'
  BY <1>10 DEF PassRules
<1>11. ASSUME NEW c \in Conn, RejectByRule(c) PROVE ReloadInOrder'
  BY <1>11 DEF RejectByRule, Release
<1>12. ASSUME NEW c \in Conn, RejectByRuleSing(c) PROVE ReloadInOrder'
  BY <1>12 DEF RejectByRuleSing
<1>13. ASSUME NEW c \in Conn, Route(c) PROVE ReloadInOrder'
  BY <1>13 DEF Route
<1>14. ASSUME NEW c \in Conn, NoRoute(c) PROVE ReloadInOrder'
  BY <1>14 DEF NoRoute, Release
<1>15. ASSUME NEW c \in Conn, Close(c) PROVE ReloadInOrder'
  BY <1>15 DEF Close, Release
<1>16. CASE UNCHANGED dispatchVars
  BY <1>16 DEF dispatchVars
<1> QED
  BY <1>1, <1>2, <1>3, <1>4, <1>5, <1>6, <1>7, <1>8, <1>9, <1>10, <1>11, <1>12, <1>13,
     <1>14, <1>15, <1>16
  DEF DispatchNext

\* A connection is over.
LEMMA ClosedCarries ==
  ASSUME CarriedOK, NEW c \in Conn, Carry(c, Closed)
  PROVE  CarriedOK'
<1>1. Closed \in Carried /\ Closed.stage = "closed"
  BY DEF Closed, Carried
<1> QED BY <1>1 DEF CarriedOK, Carry

\* A connection goes on to another stage, with a limiter where it needs one.
LEMMA StageCarries ==
  ASSUME CarriedOK, NEW c \in Conn,
         NEW st \in {"closed", "shaken", "metering", "metered", "sniffed", "ruled", "open", "leaving"},
         To(c, st), st \in {"metering", "metered", "sniffed"} => conn[c].lim \in Limiters
  PROVE  CarriedOK'
<1>1. conn[c] \in Carried
  BY DEF CarriedOK
<1>2. /\ [conn[c] EXCEPT !.stage = st] \in Carried
      /\ [conn[c] EXCEPT !.stage = st].stage = st
      /\ [conn[c] EXCEPT !.stage = st].lim = conn[c].lim
  BY <1>1 DEF Carried
<1>3. conn' = [conn EXCEPT ![c] = [conn[c] EXCEPT !.stage = st]]
  BY DEF To, Carry
<1> QED BY <1>2, <1>3 DEF CarriedOK

\* Every step keeps what the connections carry within its type.
LEMMA CarriedStep ==
  ASSUME NodeTypeOK, CarriedOK, [DispatchNext]_dispatchVars
  PROVE  CarriedOK'
<1> USE DEF NodeTypeOK, nodeVars, limVars
<1>1. CASE ReloadStep
  BY <1>1 DEF ReloadStep, CarriedOK
<1>2. ASSUME Sweep PROVE CarriedOK'
  BY <1>2 DEF Sweep, CarriedOK
<1>3. ASSUME NEW c \in Conn, NEW i \in IP, NEW k \in Kinds, Handshake(c, i, k)
      PROVE  CarriedOK'
  <2>1. inbound \in {"old", "new"}
    BY <1>3 DEF Handshake
  <2> DEFINE r == [Closed EXCEPT !.stage = "shaken", !.born = inbound]
  <2>7. r \in Carried
    BY <2>1 DEF Carried, Closed, Limiters
  <2>8. r.stage = "shaken"
    BY <2>1 DEF Carried, Closed, Limiters
  <2>9. conn' = [conn EXCEPT ![c] = r]
    BY <1>3 DEF Handshake, Carry
  <2> HIDE DEF r
  <2> QED BY <2>7, <2>8, <2>9 DEF CarriedOK
<1>4. ASSUME NEW c \in Conn, NoLimiter(c) PROVE CarriedOK'
  <2>1. Carry(c, Closed) \/ To(c, "open")
    BY <1>4 DEF NoLimiter
  <2> QED BY <2>1, ClosedCarries, StageCarries
<1>5. ASSUME NEW c \in Conn, CheckLimit(c) PROVE CarriedOK'
  <2>1. conn[c] \in Carried
    BY DEF CarriedOK
  <2>2. reg \in Limiters
    BY <1>5 DEF CheckLimit, Lasting, Limiters
  <2> DEFINE r == [conn[c] EXCEPT !.stage = "metering", !.lim = reg]
  <2>7. r \in Carried
    BY <2>1, <2>2 DEF Carried, Closed, Limiters
  <2>8. r.lim = reg
    BY <2>1, <2>2 DEF Carried, Closed, Limiters
  <2>9. conn' = [conn EXCEPT ![c] = r]
    BY <1>5 DEF CheckLimit, Carry
  <2> HIDE DEF r
  <2> QED BY <2>2, <2>7, <2>8, <2>9 DEF CarriedOK
<1>6. ASSUME NEW c \in Conn, CheckLimitReplaced(c) PROVE CarriedOK'
  <2>1. conn[c] \in Carried
    BY DEF CarriedOK
  <2>2. reg \in Limiters
    BY <1>6 DEF CheckLimitReplaced
  <2>3. CASE Carry(c, Closed)
    BY <2>3, ClosedCarries
  <2> SUFFICES ASSUME Carry(c, [conn[c] EXCEPT !.stage = "metered", !.lim = reg])
               PROVE  CarriedOK'
    BY <1>6, <2>3 DEF CheckLimitReplaced
  <2> DEFINE r == [conn[c] EXCEPT !.stage = "metered", !.lim = reg]
  <2>7. r \in Carried
    BY <2>1, <2>2 DEF Carried, Closed, Limiters
  <2>8. r.lim = reg
    BY <2>1, <2>2 DEF Carried, Closed, Limiters
  <2>9. conn' = [conn EXCEPT ![c] = r]
    BY DEF Carry
  <2> HIDE DEF r
  <2> QED BY <2>2, <2>7, <2>8, <2>9 DEF CarriedOK
<1>7. ASSUME NEW c \in Conn, Call(c) PROVE CarriedOK'
  <2>1. Carry(c, Closed) \/ UNCHANGED conn
    BY <1>7 DEF Call
  <2>2. CASE UNCHANGED conn
    BY <2>2 DEF CarriedOK
  <2> QED BY <2>1, <2>2, ClosedCarries
<1>8. ASSUME NEW c \in Conn, Metered(c) PROVE CarriedOK'
  <2>1. conn[c].lim \in Limiters
    BY <1>8 DEF Metered, At, CarriedOK
  <2>2. Carry(c, Closed) \/ To(c, "metered")
    BY <1>8 DEF Metered
  <2> QED BY <2>1, <2>2, ClosedCarries, StageCarries
<1>9. ASSUME NEW c \in Conn, Sniff(c) PROVE CarriedOK'
  <2>1. conn[c].lim \in Limiters
    BY <1>9 DEF Sniff, At, CarriedOK
  <2> QED BY <1>9, <2>1, StageCarries DEF Sniff
<1>10. ASSUME NEW c \in Conn, PassRules(c) PROVE CarriedOK'
  <2>1. conn[c] \in Carried
    BY DEF CarriedOK
  <2>2. conn[c].lim \in Limiters
    BY <1>10 DEF PassRules, Ready, At, CarriedOK
  <2>3. rules[conn[c].lim] \in {"none", "old", "torn", "new"}
    BY <2>2
  <2> DEFINE r == [conn[c] EXCEPT !.stage = IF core = "xray" THEN "ruled" ELSE "open",
                                !.saw = rules[conn[c].lim]]
  <2>7. r \in Carried
    BY <2>1, <2>3 DEF Carried, Closed, Limiters
  <2>8. r.stage \in {"ruled", "open"}
    BY <2>1, <2>3 DEF Carried, Closed, Limiters
  <2>9. conn' = [conn EXCEPT ![c] = r]
    BY <1>10 DEF PassRules, Carry
  <2> HIDE DEF r
  <2> QED BY <2>7, <2>8, <2>9 DEF CarriedOK
<1>11. ASSUME NEW c \in Conn, RejectByRule(c) PROVE CarriedOK'
  <2>1. Carry(c, Closed) \/ To(c, "leaving")
    BY <1>11 DEF RejectByRule, Release
  <2> QED BY <2>1, ClosedCarries, StageCarries
<1>12. ASSUME NEW c \in Conn, RejectByRuleSing(c) PROVE CarriedOK'
  BY <1>12, ClosedCarries DEF RejectByRuleSing
<1>13. ASSUME NEW c \in Conn, Route(c) PROVE CarriedOK'
  <2>1. conn[c] \in Carried
    BY DEF CarriedOK
  <2>2. PICK x \in {"forced", "routed", IF outbound THEN "own" ELSE "default"} :
              Carry(c, [conn[c] EXCEPT !.stage = "open", !.exit = x])
    BY <1>13 DEF Route
  <2> DEFINE r == [conn[c] EXCEPT !.stage = "open", !.exit = x]
  <2>7. r \in Carried
    BY <2>1, <2>2 DEF Carried, Closed, Limiters
  <2>8. r.stage = "open"
    BY <2>1, <2>2 DEF Carried, Closed, Limiters
  <2>9. conn' = [conn EXCEPT ![c] = r]
    BY <2>2 DEF Carry
  <2> HIDE DEF r
  <2> QED BY <2>7, <2>8, <2>9 DEF CarriedOK
<1>14. ASSUME NEW c \in Conn, NoRoute(c) PROVE CarriedOK'
  <2>1. Carry(c, Closed) \/ To(c, "leaving")
    BY <1>14 DEF NoRoute, Release
  <2> QED BY <2>1, ClosedCarries, StageCarries
<1>15. ASSUME NEW c \in Conn, Close(c) PROVE CarriedOK'
  <2>1. Carry(c, Closed) \/ To(c, "leaving")
    BY <1>15 DEF Close, Release
  <2> QED BY <2>1, ClosedCarries, StageCarries
<1>16. CASE UNCHANGED dispatchVars
  BY <1>16 DEF dispatchVars, CarriedOK
<1> QED
  BY <1>1, <1>2, <1>3, <1>4, <1>5, <1>6, <1>7, <1>8, <1>9, <1>10, <1>11, <1>12, <1>13,
     <1>14, <1>15, <1>16
  DEF DispatchNext

\* Every step preserves NewComesLast.
LEMMA NewStep ==
  ASSUME NodeTypeOK, ReloadInOrder, CarriedOK, NewComesLast, [DispatchNext]_dispatchVars
  PROVE  NewComesLast'
<1> USE DEF NodeTypeOK, ReloadInOrder, NewComesLast, CarriedOK, nodeVars, limVars, Limiters,
        Lasting, Carried, Closed
<1>1. CASE ReloadStep
  <2>1. reload # 9 /\ UNCHANGED conn
    BY <1>1 DEF ReloadStep, ReloadOrder
  <2> QED BY <2>1
<1>2. ASSUME Sweep PROVE NewComesLast'
  <2>1. UNCHANGED <<nodeVars, conn, pc, kind>>
    BY <1>2 DEF Sweep, ClearOnlineIP, SweepStart, SweepLoad, SweepDelete, SweepCheck, SweepDrop, call
  <2> QED BY <2>1
<1>3. ASSUME NEW c \in Conn, NEW i \in IP, NEW k \in Kinds, Handshake(c, i, k)
      PROVE  NewComesLast'
  BY <1>3 DEF Handshake, Carry, At
<1>4. ASSUME NEW c \in Conn, NoLimiter(c) PROVE NewComesLast'
  BY <1>4 DEF NoLimiter, Carry, At, To
<1>5. ASSUME NEW c \in Conn, CheckLimit(c) PROVE NewComesLast'
  BY <1>5 DEF CheckLimit, Accept, Goto, Carry, At
<1>6. ASSUME NEW c \in Conn, CheckLimitReplaced(c) PROVE NewComesLast'
  <2>1. reload # 9
    BY <1>6 DEF CheckLimitReplaced
  <2>2. conn[c].born # "new"
    BY <2>1
  <2>3. conn'[c].born # "new"
    <3>1. CASE conn' = [conn EXCEPT ![c] = Closed]
      BY <3>1
    <3>2. CASE conn' = [conn EXCEPT ![c] = [conn[c] EXCEPT !.stage = "metered", !.lim = reg]]
      BY <2>2, <3>2
    <3> QED BY <1>6, <3>1, <3>2 DEF CheckLimitReplaced, Carry
  <2>4. \A e \in Conn : e # c => conn'[e] = conn[e]
    BY <1>6 DEF CheckLimitReplaced, Carry
  <2>5. UNCHANGED <<reload, named>>
    BY <1>6 DEF CheckLimitReplaced
  <2> QED BY <2>3, <2>4, <2>5
<1>7. ASSUME NEW c \in Conn, Call(c) PROVE NewComesLast'
  BY <1>7 DEF Call, Carry, At
<1>8. ASSUME NEW c \in Conn, Metered(c) PROVE NewComesLast'
  BY <1>8 DEF Metered, Pass, RejectLater, Goto, Carry, At, To
<1>9. ASSUME NEW c \in Conn, Sniff(c) PROVE NewComesLast'
  BY <1>9 DEF Sniff, Carry, At, To
<1>10. ASSUME NEW c \in Conn, PassRules(c) PROVE NewComesLast'
  BY <1>10 DEF PassRules, Ready, Carry, At
<1>11. ASSUME NEW c \in Conn, RejectByRule(c) PROVE NewComesLast'
  BY <1>11 DEF RejectByRule, Ready, Release, Held, Goto, Carry, At, To
<1>12. ASSUME NEW c \in Conn, RejectByRuleSing(c) PROVE NewComesLast'
  BY <1>12 DEF RejectByRuleSing, Ready, Goto, Carry, At
<1>13. ASSUME NEW c \in Conn, Route(c) PROVE NewComesLast'
  BY <1>13 DEF Route, Carry, At
<1>14. ASSUME NEW c \in Conn, NoRoute(c) PROVE NewComesLast'
  BY <1>14 DEF NoRoute, Release, Held, Goto, Carry, At, To
<1>15. ASSUME NEW c \in Conn, Close(c) PROVE NewComesLast'
  BY <1>15 DEF Close, Release, Held, Goto, Carry, At, To
<1>16. CASE UNCHANGED dispatchVars
  BY <1>16 DEF dispatchVars
<1> QED
  BY <1>1, <1>2, <1>3, <1>4, <1>5, <1>6, <1>7, <1>8, <1>9, <1>10, <1>11, <1>12, <1>13,
     <1>14, <1>15, <1>16
  DEF DispatchNext

\* Where a connection is in the middle of AddConnCount, and of DelConnCount
Entering == {"limit", "addLoad", "addStore", "ipGet", "ipLoad", "ipRange", "ipStore",
             "undoLoad", "undoStore", "passed"}
Leaving == {"delLoad", "delStore", "ipDelGet", "ipDelLoad", "ipDelStore",
            "ipDelCheck", "ipDelDrop"}

\* A step of a call moves its own connection, and stays in its call or ends it.
LEMMA StepMoves ==
  ASSUME TypeOK, NEW c \in Conn, Step(c)
  PROVE  /\ kind' = kind /\ \A e \in Conn : e # c => pc'[e] = pc[e]
         /\ pc[c] \in Entering => pc'[c] \in {"idle"} \cup Entering
         /\ pc[c] \in Leaving => pc'[c] \in {"idle"} \cup Leaving
<1> DEFINE Moves ==
      /\ kind' = kind /\ \A e \in Conn : e # c => pc'[e] = pc[e]
      /\ pc[c] \in Entering => pc'[c] \in {"idle"} \cup Entering
      /\ pc[c] \in Leaving => pc'[c] \in {"idle"} \cup Leaving
<1>0. pc \in [Conn -> Place]
  BY DEF TypeOK
<1>1. CASE CheckConnLimit(c)
  BY <1>0, <1>1 DEF CheckConnLimit, Goto, See, Hold, Drop, call, Entering, Leaving, AfterLimit
<1>2. CASE AddLoad(c)
  BY <1>0, <1>2 DEF AddLoad, Goto, See, Hold, Drop, call, Entering, Leaving
<1>3. CASE AddStore(c)
  BY <1>0, <1>3 DEF AddStore, Goto, See, Hold, Drop, call, Entering, Leaving
<1>4. CASE IPGet(c)
  BY <1>0, <1>4 DEF IPGet, Goto, See, Hold, Drop, call, Entering, Leaving
<1>5. CASE IPLoad(c)
  BY <1>0, <1>5 DEF IPLoad, Goto, See, Hold, Drop, call, Entering, Leaving
<1>6. CASE IPRange(c)
  BY <1>0, <1>6 DEF IPRange, Goto, See, Hold, Drop, call, Entering, Leaving
<1>7. CASE IPStore(c)
  BY <1>0, <1>7 DEF IPStore, Goto, See, Hold, Drop, call, Entering, Leaving
<1>8. CASE UndoLoad(c)
  BY <1>0, <1>8 DEF UndoLoad, Goto, See, Hold, Drop, call, Entering, Leaving
<1>9. CASE UndoStore(c)
  BY <1>0, <1>9 DEF UndoStore, Goto, See, Hold, Drop, call, Entering, Leaving
<1>10. CASE DelLoad(c)
  BY <1>0, <1>10 DEF DelLoad, Goto, See, Hold, Drop, call, Entering, Leaving, AfterCount
<1>11. CASE DelStore(c)
  BY <1>0, <1>11 DEF DelStore, Goto, See, Hold, Drop, call, Entering, Leaving, AfterCount
<1>12. CASE IPDelGet(c)
  BY <1>0, <1>12 DEF IPDelGet, Goto, See, Hold, Drop, call, Entering, Leaving
<1>13. CASE IPDelLoad(c)
  BY <1>0, <1>13 DEF IPDelLoad, Goto, See, Hold, Drop, call, Entering, Leaving
<1>14. CASE IPDelStore(c)
  BY <1>0, <1>14 DEF IPDelStore, Goto, See, Hold, Drop, call, Entering, Leaving
<1>15. CASE IPDelCheck(c)
  BY <1>0, <1>15 DEF IPDelCheck, Goto, See, Hold, Drop, call, Entering, Leaving
<1>16. CASE IPDelDrop(c)
  BY <1>0, <1>16 DEF IPDelDrop, Goto, See, Hold, Drop, call, Entering, Leaving
<1> QED
  BY <1>1, <1>2, <1>3, <1>4, <1>5, <1>6, <1>7, <1>8,
     <1>9, <1>10, <1>11, <1>12, <1>13, <1>14, <1>15, <1>16 DEF Step

\* Every step preserves PlaceFollowsStage.
LEMMA PlaceStep ==
  ASSUME NodeTypeOK, CarriedOK, TypeOK, PlaceFollowsStage, [DispatchNext]_dispatchVars
  PROVE  PlaceFollowsStage'
<1>0. pc \in [Conn -> Place] /\ kind \in [Conn -> {"tcp", "udp"}] /\ Kinds \subseteq {"tcp", "udp"}
  BY ConnAssumption DEF ConnAssumption, TypeOK
<1> USE <1>0
    DEF NodeTypeOK, CarriedOK, PlaceFollowsStage, nodeVars, limVars, call,
        Lasting, Limiters, Carried, Closed
<1>1. CASE ReloadStep
  BY <1>1 DEF ReloadStep
<1>2. ASSUME Sweep PROVE PlaceFollowsStage'
  <2>1. UNCHANGED <<nodeVars, conn, pc, kind>>
    BY <1>2 DEF Sweep, ClearOnlineIP, SweepStart, SweepLoad, SweepDelete, SweepCheck, SweepDrop, call
  <2> QED BY <2>1
<1>3. ASSUME NEW c \in Conn, NEW i \in IP, NEW k \in Kinds, Handshake(c, i, k)
      PROVE  PlaceFollowsStage'
  BY <1>3 DEF Handshake, Carry, At
<1>4. ASSUME NEW c \in Conn, NoLimiter(c) PROVE PlaceFollowsStage'
  <2>1. CASE Carry(c, Closed)
    BY <1>4, <2>1 DEF NoLimiter, Carry, At
  <2>2. CASE To(c, "open")
    BY <1>4, <2>2 DEF NoLimiter, Carry, At, To
  <2> QED BY <1>4, <2>1, <2>2 DEF NoLimiter
<1>5. ASSUME NEW c \in Conn, CheckLimit(c) PROVE PlaceFollowsStage'
  BY <1>5 DEF CheckLimit, Accept, Goto, Carry, At
<1>6. ASSUME NEW c \in Conn, CheckLimitReplaced(c) PROVE PlaceFollowsStage'
  <2>1. CASE Carry(c, Closed)
    BY <1>6, <2>1 DEF CheckLimitReplaced, Carry, At
  <2>2. CASE Carry(c, [conn[c] EXCEPT !.stage = "metered", !.lim = reg])
    BY <1>6, <2>2 DEF CheckLimitReplaced, Carry, At
  <2> QED BY <1>6, <2>1, <2>2 DEF CheckLimitReplaced
<1>7. ASSUME NEW c \in Conn, Call(c) PROVE PlaceFollowsStage'
  <2>1. UNCHANGED <<nodeVars, kind>> /\ \A e \in Conn : e # c => pc'[e] = pc[e]
    BY <1>7, StepMoves DEF Call
  <2>2. CASE conn[c].stage = "metering"
    <3>1. pc'[c] \in {"idle"} \cup Entering
      BY <1>7, <2>2, StepMoves DEF Call, Entering, Leaving
    <3> QED BY <1>7, <2>1, <2>2, <3>1 DEF Call, Carry, Entering
  <2>3. CASE conn[c].stage = "leaving"
    <3>1. pc'[c] \in {"idle"} \cup Leaving
      BY <1>7, <2>3, StepMoves DEF Call, Entering, Leaving
    <3> QED BY <1>7, <2>1, <2>3, <3>1 DEF Call, Carry, Leaving
  <2> QED BY <1>7, <2>2, <2>3 DEF Call, At
<1>8. ASSUME NEW c \in Conn, Metered(c) PROVE PlaceFollowsStage'
  BY <1>8 DEF Metered, Pass, RejectLater, Goto, Carry, At, To
<1>9. ASSUME NEW c \in Conn, Sniff(c) PROVE PlaceFollowsStage'
  BY <1>9 DEF Sniff, Carry, At, To
<1>10. ASSUME NEW c \in Conn, PassRules(c) PROVE PlaceFollowsStage'
  BY <1>10 DEF PassRules, Ready, Carry, At
<1>11. ASSUME NEW c \in Conn, RejectByRule(c) PROVE PlaceFollowsStage'
  BY <1>11 DEF RejectByRule, Ready, Release, Held, Goto, Carry, At, To
<1>12. ASSUME NEW c \in Conn, RejectByRuleSing(c) PROVE PlaceFollowsStage'
  BY <1>12 DEF RejectByRuleSing, Ready, Goto, Carry, At
<1>13. ASSUME NEW c \in Conn, Route(c) PROVE PlaceFollowsStage'
  BY <1>13 DEF Route, Carry, At
<1>14. ASSUME NEW c \in Conn, NoRoute(c) PROVE PlaceFollowsStage'
  BY <1>14 DEF NoRoute, Release, Held, Goto, Carry, At, To
<1>15. ASSUME NEW c \in Conn, Close(c) PROVE PlaceFollowsStage'
  BY <1>15 DEF Close, Release, Held, Goto, Carry, At, To
<1>16. CASE UNCHANGED dispatchVars
  BY <1>16 DEF dispatchVars
<1> QED
  BY <1>1, <1>2, <1>3, <1>4, <1>5, <1>6, <1>7, <1>8, <1>9, <1>10, <1>11, <1>12, <1>13,
     <1>14, <1>15, <1>16
  DEF DispatchNext

\* A connection that leaves closes, as ConnLimiter has it, or was not in this limiter.
LEMMA ReleaseCloses ==
  ASSUME TypeOK, NEW c \in Conn, Release(c),
         pc[c] = IF conn[c].lim = Lasting THEN "open" ELSE "idle"
  PROVE  CloseTCP(c) \/ CloseUDP(c) \/ UNCHANGED vars
<1>1. CASE conn[c].lim = Lasting /\ kind[c] = "tcp"
  BY <1>1 DEF Release, Held, CloseTCP
<1>2. CASE conn[c].lim = Lasting /\ kind[c] # "tcp"
  <2>1. kind[c] = "udp"
    BY <1>2 DEF TypeOK
  <2> QED BY <1>2, <2>1 DEF Release, Held, CloseUDP
<1>3. CASE conn[c].lim # Lasting
  <2>1. pc' = [pc EXCEPT ![c] = pc[c]]
    BY <1>3 DEF Release, Held, Goto
  <2>2. pc' = pc
    BY <2>1 DEF TypeOK
  <2> QED BY <1>3, <2>2 DEF Release, vars
<1> QED BY <1>1, <1>2, <1>3

\* What a step does to the limiter is what one of its callers may do.
LEMMA LimiterSeesCalls ==
  ASSUME NodeTypeOK, CarriedOK, TypeOK, PlaceFollowsStage, [DispatchNext]_dispatchVars
  PROVE  [CallerNext]_vars
<1>1. CASE ReloadStep
  BY <1>1 DEF ReloadStep, limVars, vars
<1>2. ASSUME Sweep PROVE [CallerNext]_vars
  BY <1>2 DEF Sweep, CallerNext, Next
<1>3. ASSUME NEW c \in Conn, NEW i \in IP, NEW k \in Kinds, Handshake(c, i, k)
      PROVE  [CallerNext]_vars
  <2>1. Readdress(c, i, k)
    BY <1>3 DEF Handshake, Readdress
  <2> QED BY <2>1 DEF CallerNext
<1>4. ASSUME NEW c \in Conn, NoLimiter(c) PROVE [CallerNext]_vars
  BY <1>4 DEF NoLimiter, limVars, vars
<1>5. ASSUME NEW c \in Conn, CheckLimit(c) PROVE [CallerNext]_vars
  <2>1. ip[c] \in IP /\ kind[c] \in Kinds
    BY <1>5 DEF CheckLimit, At, TypeOK, PlaceFollowsStage
  <2>2. Accept(c, ip[c], kind[c])
    BY <1>5 DEF CheckLimit
  <2> QED BY <2>1, <2>2 DEF CallerNext, Next
<1>6. ASSUME NEW c \in Conn, CheckLimitReplaced(c) PROVE [CallerNext]_vars
  BY <1>6 DEF CheckLimitReplaced, limVars, vars
<1>7. ASSUME NEW c \in Conn, Call(c) PROVE [CallerNext]_vars
  BY <1>7 DEF Call, CallerNext, Next
<1>8. ASSUME NEW c \in Conn, Metered(c) PROVE [CallerNext]_vars
  BY <1>8 DEF Metered, CallerNext, Next
<1>9. ASSUME NEW c \in Conn, Sniff(c) PROVE [CallerNext]_vars
  BY <1>9 DEF Sniff, limVars, vars
<1>10. ASSUME NEW c \in Conn, PassRules(c) PROVE [CallerNext]_vars
  BY <1>10 DEF PassRules, limVars, vars
<1>11. ASSUME NEW c \in Conn, RejectByRule(c) PROVE [CallerNext]_vars
  <2>1. Release(c) /\ pc[c] = IF conn[c].lim = Lasting THEN "open" ELSE "idle"
    BY <1>11 DEF RejectByRule, Ready, At, PlaceFollowsStage
  <2> QED BY <2>1, ReleaseCloses DEF CallerNext, Next
<1>12. ASSUME NEW c \in Conn, RejectByRuleSing(c) PROVE [CallerNext]_vars
  <2>1. pc[c] = IF conn[c].lim = Lasting THEN "open" ELSE "idle"
    BY <1>12 DEF RejectByRuleSing, Ready, At, PlaceFollowsStage
  <2>2. CASE conn[c].lim = Lasting
    <3>1. Abandon(c)
      BY <1>12, <2>1, <2>2 DEF RejectByRuleSing, Abandon
    <3> QED BY <3>1 DEF CallerNext
  <2>3. CASE conn[c].lim # Lasting
    <3>1. pc' = [pc EXCEPT ![c] = pc[c]]
      BY <1>12, <2>1, <2>3 DEF RejectByRuleSing, Goto
    <3>2. pc' = pc
      BY <3>1 DEF TypeOK
    <3> QED BY <1>12, <2>3, <3>2 DEF RejectByRuleSing, vars, conf
  <2> QED BY <2>2, <2>3
<1>13. ASSUME NEW c \in Conn, Route(c) PROVE [CallerNext]_vars
  BY <1>13 DEF Route, limVars, vars
<1>14. ASSUME NEW c \in Conn, NoRoute(c) PROVE [CallerNext]_vars
  <2>1. Release(c) /\ pc[c] = IF conn[c].lim = Lasting THEN "open" ELSE "idle"
    BY <1>14 DEF NoRoute, At, PlaceFollowsStage
  <2> QED BY <2>1, ReleaseCloses DEF CallerNext, Next
<1>15. ASSUME NEW c \in Conn, Close(c) PROVE [CallerNext]_vars
  <2>1. Release(c) /\ pc[c] = IF conn[c].lim = Lasting THEN "open" ELSE "idle"
    BY <1>15 DEF Close, At, PlaceFollowsStage
  <2> QED BY <2>1, ReleaseCloses DEF CallerNext, Next
<1>16. CASE UNCHANGED dispatchVars
  BY <1>16 DEF dispatchVars, limVars, vars
<1> QED
  BY <1>1, <1>2, <1>3, <1>4, <1>5, <1>6, <1>7, <1>8, <1>9, <1>10, <1>11, <1>12, <1>13,
     <1>14, <1>15, <1>16
  DEF DispatchNext

-----------------------------------------------------------------------------
DispatchInv ==
    /\ NodeTypeOK /\ ReloadInOrder /\ CarriedOK /\ NewComesLast /\ PlaceFollowsStage
    /\ LimiterInv

\* A node that is up, and no connection.
LEMMA DispatchInitInvariant == DispatchInit => DispatchInv
<1> SUFFICES ASSUME DispatchInit PROVE DispatchInv
  OBVIOUS
<1>1. NodeTypeOK
  <2>1. rules \in [Limiters -> {"none", "old", "torn", "new"}]
    BY DEF DispatchInit, Limiters
  <2>2. named \in BOOLEAN /\ outbound \in BOOLEAN /\ users \in BOOLEAN /\ core \in {"xray", "sing"}
    BY Zenon DEF DispatchInit
  <2>3. reload \in 0..9 /\ inbound \in {"old", "gone", "new"} /\ reg \in Limiters \cup {"none"}
    BY DEF DispatchInit, Limiters
  <2> QED BY <2>1, <2>2, <2>3 DEF NodeTypeOK
<1>2. ReloadInOrder
  BY DEF DispatchInit, ReloadInOrder
<1>3. Closed \in Carried /\ Closed.stage = "closed" /\ Closed.born = "old"
  BY DEF Closed, Carried, Limiters
<1>4. \A c \in Conn : conn[c] = Closed /\ pc[c] = "idle"
  BY DEF DispatchInit, Init
<1>5. CarriedOK
  BY <1>3 DEF DispatchInit, CarriedOK
<1>6. NewComesLast /\ PlaceFollowsStage
  BY <1>3, <1>4 DEF NewComesLast, PlaceFollowsStage
<1>7. LimiterInv
  BY InitInvariant DEF DispatchInit, ExactInv
<1> QED BY <1>1, <1>2, <1>5, <1>6, <1>7 DEF DispatchInv

\* The invariant survives every step, and the limiter sees one of a caller.
LEMMA DispatchStep ==
  ASSUME DispatchInv, [DispatchNext]_dispatchVars
  PROVE  DispatchInv' /\ [CallerNext]_vars
<1>1. NodeTypeOK /\ ReloadInOrder /\ CarriedOK /\ NewComesLast /\ PlaceFollowsStage
      /\ LimiterInv /\ TypeOK
  BY DEF DispatchInv, LimiterInv
<1>2. [CallerNext]_vars
  BY <1>1, LimiterSeesCalls
<1>3. LimiterInv'
  BY <1>1, <1>2, LimiterStep
<1>4. NodeTypeOK' /\ ReloadInOrder'
  BY <1>1, NodeTypeStep, ReloadInOrderStep
<1>5. CarriedOK' /\ NewComesLast' /\ PlaceFollowsStage'
  BY <1>1, CarriedStep, NewStep, PlaceStep
<1> QED BY <1>2, <1>3, <1>4, <1>5 DEF DispatchInv

\* It holds in every state.
LEMMA DispatchInvariantHolds == DispatchSpec => []DispatchInv
BY DispatchInitInvariant, DispatchStep, PTL DEF DispatchSpec

\* dispatcher/default.go, hook.go, rule.go: nothing a connection or a reload does leaves
\* the types; in particular the rules are only ever asked of a limiter that exists.
THEOREM DispatchTypeCorrect == DispatchSpec => []DispatchTypeOK
<1>1. DispatchInv => DispatchTypeOK
  BY DEF DispatchInv, LimiterInv, NodeTypeOK, CarriedOK, Carried, DispatchTypeOK
<1> QED BY <1>1, DispatchInvariantHolds, PTL

\* node/task.go:264-272 before 293: for any number of connections, and at whatever step
\* of a reload they arrive, one of the new inbound is metered and sees all new rules.
THEOREM RulesAlwaysWhole == DispatchSpec => []RulesAreWhole
<1>1. DispatchInv => RulesAreWhole
  <2> SUFFICES ASSUME DispatchInv, NEW c \in Conn,
                      conn[c].born = "new", conn[c].stage \in {"ruled", "open"}
               PROVE  conn[c].lim # "none" /\ conn[c].saw = "new"
    BY DEF RulesAreWhole
  <2>1. conn[c].lim = Lasting /\ conn[c].saw = "new"
    BY DEF DispatchInv, NewComesLast
  <2> QED BY <2>1 DEF Lasting
<1> QED BY <1>1, DispatchInvariantHolds, PTL

\* default.go:593-599: only a connection of the inbound that was taken down ever leaves
\* by the default outbound for want of its own.
THEOREM ExitAlwaysOwn == DispatchSpec => []ExitIsOwn
<1>1. DispatchInv => ExitIsOwn
  <2> SUFFICES ASSUME DispatchInv, NEW c \in Conn, conn[c].exit = "default"
               PROVE  conn[c].born = "old"
    BY DEF ExitIsOwn
  <2>1. conn[c] \in Carried /\ conn[c].born # "new"
    BY DEF DispatchInv, CarriedOK, NewComesLast
  <2> QED BY <2>1 DEF Carried
<1> QED BY <1>1, DispatchInvariantHolds, PTL

\* The limiter alone, with callers that assign and reject connections in their own way
CallerSpec == Init /\ [][CallerNext]_vars

\* default.go, hook.go: whatever a connection meets on its way, a reload included, it
\* never calls DelConnCount without an AddConnCount that let it in, nor twice for one:
\* what the limiter sees of Dispatch is a behaviour of ConnLimiter with such callers.
THEOREM DispatchImplementsCaller == DispatchSpec => CallerSpec
<1>1. DispatchInit => Init
  BY DEF DispatchInit
<1>2. DispatchInv /\ [DispatchNext]_dispatchVars => [CallerNext]_vars
  BY DispatchStep
<1> QED BY <1>1, <1>2, DispatchInvariantHolds, PTL DEF DispatchSpec, CallerSpec

\* The invariant of the limiter holds in all of Dispatch.
LEMMA ExactInvHolds == DispatchSpec => []ExactInv
<1>1. ExactInv /\ [CallerNext]_vars => ExactInv'
  BY ExactStep
<1>2. CallerSpec => []ExactInv
  BY <1>1, InitInvariant, PTL DEF CallerSpec
<1> QED BY <1>2, DispatchImplementsCaller, PTL

\* conn.go:139-142, 150-153: for any connections, addresses and limits, across a reload,
\* and however calls and sweeps overlap, the slots of both limits are those of the
\* connections that are open, and of the connection limit one more for each that was
\* rejected after AddConnCount (limiter.go:282), so that it takes connLimit of these to lock
\* a user out; until a Store or Delete hits what changed since its Load.
THEOREM SlotsAlwaysExact == DispatchSpec => []SlotsAreExact
<1>1. ExactInv => SlotsAreExact
  BY ExactInvExact
<1> QED BY <1>1, ExactInvHolds, PTL

\* conn.go: under the same condition neither limit is ever exceeded, not even by one.
THEOREM LimitsAlwaysHold == DispatchSpec => []LimitsHold
<1>1. ExactInv => LimitsHold
  BY ExactInvExact
<1> QED BY <1>1, ExactInvHolds, PTL
=============================================================================
