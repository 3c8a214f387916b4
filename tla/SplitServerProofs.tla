-------------------------- MODULE SplitServerProofs --------------------------
(***************************************************************************)
(* Proofs about SplitServer, for any configurations, and any number of     *)
(* writes, reloads, failures and runs of the split command.                *)
(***************************************************************************)
EXTENDS SplitServer, WellFoundedInduction, FiniteSetTheorems, SequenceTheorems, TLAPS

\* A configuration the process can be started on
Usable(c) == IsList(c.nodes) /\ DistinctTags(c) /\ TagsOf(c) \subseteq Tag

\* A goroutine that has begun to change what the others see
Busy(g) == pc[g] \notin {"none", "delay", "done", "failed"}

TagsIn(s) == {s[i].tag : i \in 1..Len(s)}

\* The tags of the nodes that Node.Start has brought up
UpTags(w) == {w.nodes[i].tag : i \in 1..w.up}

\* The nodes of a Selector
Known(s) == {t \in Tag : sel[s].at[t] # 0}

IsSelector(s) ==
    s \in [entries : {s.entries}, running : {s.running},
           at : [Tag -> {s.at[t] : t \in Tag}], dead : {s.dead}]

IsWork(w) == w \in [nodes : {w.nodes}, sel : Gen \cup {Nil}, up : Nat]

\* The shapes of the variables, as far as the proofs need them
ProcShape ==
    /\ proc \in {"off", "init", "up", "exited", "crashed"}
    /\ Usable(file) /\ Usable(conf)
    /\ vc \in Gen \cup {Nil}
    /\ pc \in [Gen -> {"none", "delay", "closeNodes", "closeCore", "newCore",
                       "startCore", "startNodes", "undo", "done", "failed"}]
    /\ overlapped \in BOOLEAN /\ stuck \in BOOLEAN
    /\ proc = "off" => pc[1] = "newCore"

SelectorShape == sel = [g \in Gen |-> sel[g]] /\ \A g \in Gen : IsSelector(sel[g])

WorkShape ==
    /\ work = [g \in Gen |-> work[g]] /\ \A g \in Gen : IsWork(work[g])
    /\ nodes \in Seq(Controller) /\ todo \in [Gen -> Seq(Controller)]
    /\ \A g \in Gen : pc[g] = "startNodes" =>
          work[g].sel \in Gen /\ Usable([nodes |-> work[g].nodes])

Shape == ProcShape /\ SelectorShape /\ WorkShape

\* One reload at a time, but for those in their first five seconds
Sole == ~overlapped => \A g, h \in Gen : Busy(g) /\ Busy(h) => g = h

\* Cores are only started by the Selector in use, and it is closed before another is
\* made.
RunningInUse ==
    ~overlapped =>
        /\ \A s \in Gen : sel[s].running # {} => s = vc
        /\ \A g \in Gen :
              /\ pc[g] = "newCore" => \A s \in Gen : sel[s].running = {}
              /\ pc[g] = "startNodes" => work[g].sel = vc

\* Controllers of the Selector in use, which was not closed yet
InUse(list) ==
    /\ list # <<>> => vc # Nil /\ sel[vc].dead = {}
    /\ \A i \in 1..Len(list) : list[i].sel = vc

\* That is what the controllers are that are up or are being closed.
ControllersInUse ==
    ~overlapped =>
        /\ InUse(nodes)
        /\ \A g \in Gen :
              /\ pc[g] \in {"closeCore", "newCore", "startCore", "startNodes", "undo"} =>
                    nodes = <<>>
              /\ pc[g] \in {"startCore", "startNodes"} => vc # Nil /\ sel[vc].dead = {}
              /\ pc[g] \in {"closeNodes", "undo"} => InUse(todo[g])

Complete ==
    /\ vc # Nil /\ lims = TagsOf(conf) /\ TagsIn(nodes) = TagsOf(conf)
    /\ Serving(vc) = TagsOf(conf)

Nothing == nodes = <<>> /\ lims = {} /\ (~stuck /\ vc # Nil => Serving(vc) = {})

\* What is registered at each stage of a reload: the nodes that are still to be closed,
\* then nothing, then the nodes that were started.
RegisteredByStage ==
    ~overlapped /\ proc # "crashed" =>
        /\ (\A g \in Gen : ~Busy(g)) => Complete \/ Nothing
        /\ \A g \in Gen :
              /\ pc[g] \in {"closeNodes", "undo"} => lims \subseteq TagsIn(todo[g])
              /\ pc[g] \in {"closeCore", "newCore", "startCore"} => lims = {}
              /\ pc[g] = "startCore" => Known(vc) = {}
              /\ pc[g] = "startNodes" =>
                    /\ work[g].nodes = conf.nodes
                    /\ lims = UpTags(work[g]) /\ Known(vc) = UpTags(work[g])
              /\ pc[g] = "undo" /\ ~stuck /\ vc # Nil => Known(vc) \subseteq TagsIn(todo[g])

\* The cores that ran when the node j was about to be added
Before(w, s, j) == Owning(s) \cup {s.at[w.nodes[i].tag] : i \in 1..j - 1}

\* selector.go: the nodes that are up were put on a core that ran if there was one.
LazySoFar(w, s) ==
    \A j \in 1..w.up :
        w.nodes[j].coreName = "" /\ s.at[w.nodes[j].tag] \notin Before(w, s, j) =>
            Candidates(s, w.nodes[j]) \cap Before(w, s, j) = {}

\* The cores that run are those of the nodes that are up, so that what pickLocked finds
\* running is what LazyCores is about.
LazyByStage ==
    ~overlapped /\ proc # "crashed" =>
        /\ (\A g \in Gen : ~Busy(g)) /\ nodes # <<>> => LazySoFar(work[vc], sel[vc])
        /\ \A g \in Gen :
              /\ pc[g] = "startCore" => vc = g /\ sel[g].running = {}
              /\ pc[g] = "startNodes" =>
                    /\ vc = g /\ LazySoFar(work[g], sel[g])
                    /\ sel[g].running = Before(work[g], sel[g], work[g].up + 1)

IsRun(r) ==
    r \in [state : {r.state}, force : {r.force}, at : {r.at}, copied : {r.copied},
           checked : {r.checked}, splits : {r.splits}, fails : {r.fails}]

\* What the split command has written can be run.
SplitUsable ==
    /\ Usable(source) /\ \A f \in configs : Usable(f.conf)
    /\ IsRun(run)
    /\ run.state = "running" => run.at \in 1..Len(source.nodes)

ServerInv ==
    /\ Shape /\ Sole /\ RunningInUse /\ ControllersInUse /\ RegisteredByStage
    /\ LazyByStage /\ ClosingIsSafe

SystemInv == ServerInv /\ SplitUsable


\* A step of the process, started on whatever configuration can be used
ProcessNext == Running \/ \E c : Usable(c) /\ RunServer(c)

-----------------------------------------------------------------------------
(* The Selector and the lists of controllers *)

\* What is in the file can be used.
LEMMA ConfigUsable ==
  ASSUME NEW c \in Config \cup {NoConf}
  PROVE  Usable(c)
<1>1. CASE c = NoConf
  BY <1>1 DEF NoConf, Usable, IsList, TagsOf, DistinctTags
<1>2. CASE c \in Config
  BY <1>2, ServerAssumption DEF ServerAssumption, Usable, Tag
<1> QED BY <1>1, <1>2

\* AddNode: the node is on the core that was picked, and on no closed one.
LEMMA AddedEffect ==
  ASSUME NEW s, IsSelector(s), NEW n
  PROVE  /\ Started(s, n).entries = s.entries /\ Added(s, n).entries = s.entries
         /\ Added(s, n).running = s.running \cup {Pick(s, n)}
         /\ IsSelector(Started(s, n)) /\ Started(s, n).at = s.at
         /\ Started(s, n).dead = s.dead
         /\ IsSelector(Added(s, n)) /\ Added(s, n).dead = s.dead \ {n.tag}
         /\ \A t \in Tag : Added(s, n).at[t] = IF t = n.tag THEN Pick(s, n) ELSE s.at[t]
BY DEF IsSelector, Started, Added

\* DelNode: the node is gone, the cores go on.
LEMMA DeletedEffect ==
  ASSUME NEW s, IsSelector(s), NEW tag
  PROVE  /\ IsSelector(Deleted(s, tag)) /\ Deleted(s, tag).running = s.running
         /\ Deleted(s, tag).dead = s.dead \ {tag}
         /\ \A t \in Tag : Deleted(s, tag).at[t] = IF t = tag THEN 0 ELSE s.at[t]
BY DEF IsSelector, Deleted

\* Close: no core runs, and no node is on a core that does.
LEMMA ClosedEffect ==
  ASSUME NEW s, IsSelector(s)
  PROVE  /\ IsSelector(SelectorClosed(s)) /\ SelectorClosed(s).running = {}
         /\ SelectorClosed(s).at = s.at
         /\ SelectorClosed(s).dead = {t \in Tag : s.at[t] # 0}
BY DEF IsSelector, SelectorClosed

Fresh(cores) == [NoSelector EXCEPT !.entries = cores]

\* NewCore: nothing is started yet.
LEMMA FreshEffect ==
  ASSUME NEW cores
  PROVE  /\ IsSelector(Fresh(cores)) /\ Fresh(cores).running = {} /\ Fresh(cores).dead = {}
         /\ \A t \in Tag : Fresh(cores).at[t] = 0
BY DEF IsSelector, NoSelector, Fresh

Run(s, own) == [s EXCEPT !.running = @ \cup own]

\* Start: cores run, without nodes.
LEMMA RunEffect ==
  ASSUME NEW s, IsSelector(s), NEW own
  PROVE  /\ IsSelector(Run(s, own)) /\ Run(s, own).at = s.at /\ Run(s, own).dead = s.dead
         /\ Run(s, own).entries = s.entries /\ Run(s, own).running = s.running \cup own
BY DEF IsSelector, Run

\* One more node is up.
LEMMA NextWork ==
  ASSUME NEW w, IsWork(w)
  PROVE  LET v == [w EXCEPT !.up = @ + 1]
         IN  IsWork(v) /\ v.nodes = w.nodes /\ v.sel = w.sel /\ v.up = w.up + 1
BY DEF IsWork

\* What Node.Start has brought up is a list of controllers.
LEMMA BegunType ==
  ASSUME NEW w, IsWork(w), Usable([nodes |-> w.nodes]), w.sel \in Gen, w.up <= Len(w.nodes)
  PROVE  /\ Begun(w) \in Seq(Controller) /\ Len(Begun(w)) = w.up
         /\ \A i \in 1..w.up : Begun(w)[i].sel = w.sel /\ Begun(w)[i].tag = w.nodes[i].tag
         /\ w.up < Len(w.nodes) => w.nodes[w.up + 1].tag \in Tag
<1>1. Len(w.nodes) \in Nat /\ w.up \in Nat
  BY DEF IsWork, Usable, IsList
<1>2. \A i \in 1..Len(w.nodes) : w.nodes[i].tag \in Tag
  BY DEF Usable, TagsOf
<1>3. Begun(w) \in [1..w.up -> Controller]
  BY <1>1, <1>2 DEF Begun, Controller
<1>4. Begun(w) \in Seq(Controller) /\ Len(Begun(w)) = w.up
  BY <1>1, <1>3
<1> QED BY <1>1, <1>2, <1>4 DEF Begun


-----------------------------------------------------------------------------
(* What the larger actions do, by outcome *)

\* vc.Start: all cores are up, or one failed after some were.
LEMMA StartCoreEffect ==
  ASSUME NEW g \in Gen, StartCore(g)
  PROVE  /\ Alive /\ pc[g] = "startCore"
         /\ UNCHANGED <<file, conf, vc, nodes, lims, todo, overlapped, stuck>>
         /\ \/ vc = Nil /\ Crash("nilCore") /\ UNCHANGED <<sel, work>>
            \/ /\ vc # Nil /\ \E own : sel' = [sel EXCEPT ![vc] = Run(@, own)]
               /\ \/ /\ pc' = [pc EXCEPT ![g] = "startNodes"] /\ UNCHANGED <<proc, cause>>
                     /\ sel' = [sel EXCEPT ![vc] = Run(@, Owning(sel[vc]))]
                     /\ work' = [work EXCEPT ![g] = [nodes |-> conf.nodes, sel |-> vc, up |-> 0]]
                  \/ (Fails(g) \/ Crash("create")) /\ UNCHANGED work
<1> DEFINE own == Owning(sel[vc])
<1> HIDE DEF own
<1>1. /\ Alive /\ pc[g] = "startCore"
      /\ UNCHANGED <<file, conf, vc, nodes, lims, todo, overlapped, stuck>>
  BY DEF StartCore
<1>2. CASE vc = Nil /\ Crash("nilCore") /\ UNCHANGED <<sel, fails, work>>
  BY <1>1, <1>2
<1>3. CASE /\ vc # Nil /\ sel' = [sel EXCEPT ![vc].running = @ \cup own]
           /\ pc' = [pc EXCEPT ![g] = "startNodes"] /\ UNCHANGED <<proc, cause>>
           /\ work' = [work EXCEPT ![g] = [nodes |-> conf.nodes, sel |-> vc, up |-> 0]]
  <2>1. sel' = [sel EXCEPT ![vc] = Run(@, own)]
    BY <1>3 DEF Run
  <2> QED BY <1>1, <1>3, <2>1 DEF own
<1>4. ASSUME vc # Nil, NEW e, sel' = [sel EXCEPT ![vc].running = @ \cup {d \in own : d < e}],
             Fails(g) \/ Crash("create"), UNCHANGED work
      PROVE  /\ vc # Nil /\ \E o : sel' = [sel EXCEPT ![vc] = Run(@, o)]
             /\ (Fails(g) \/ Crash("create")) /\ UNCHANGED work
  <2>1. sel' = [sel EXCEPT ![vc] = Run(@, {d \in own : d < e})]
    BY <1>4 DEF Run
  <2> QED BY <1>4, <2>1
<1>5. \/ vc = Nil /\ Crash("nilCore") /\ UNCHANGED <<sel, fails, work>>
      \/ /\ vc # Nil /\ sel' = [sel EXCEPT ![vc].running = @ \cup own]
         /\ pc' = [pc EXCEPT ![g] = "startNodes"] /\ UNCHANGED <<proc, cause>>
         /\ work' = [work EXCEPT ![g] = [nodes |-> conf.nodes, sel |-> vc, up |-> 0]]
      \/ /\ vc # Nil /\ UNCHANGED work
         /\ \E e : /\ sel' = [sel EXCEPT ![vc].running = @ \cup {d \in own : d < e}]
                   /\ Fails(g) \/ Crash("create")
  BY Zenon DEF StartCore, own
<1> QED BY <1>1, <1>2, <1>3, <1>4, <1>5

\* One controller is started: it is up, or what was begun is to be closed, this one
\* included if it has registered anything.
LEMMA StartControllerEffect ==
  ASSUME SelectorShape, NEW g \in Gen, work[g].sel \in Gen, StartController(g)
  PROVE  LET w == work[g]
             n == w.nodes[w.up + 1]
             s == sel[w.sel]
         IN  /\ Alive /\ pc[g] = "startNodes" /\ w.up < Len(w.nodes)
             /\ UNCHANGED <<file, conf, vc, nodes, overlapped, stuck>>
             /\ \/ /\ Pick(s, n) # 0 /\ sel' = [sel EXCEPT ![w.sel] = Added(s, n)]
                   /\ lims' = lims \cup {n.tag} /\ work' = [work EXCEPT ![g].up = @ + 1]
                   /\ UNCHANGED <<proc, cause, pc, todo>>
                \/ (Crash("create") \/ Crash("addNode")) /\ UNCHANGED <<sel, todo, work>>
                \/ /\ pc' = [pc EXCEPT ![g] = "undo"] /\ UNCHANGED <<work, proc, cause>>
                   /\ todo' = [todo EXCEPT ![g] = Begun(w)] /\ UNCHANGED <<sel, lims>>
                \/ /\ pc' = [pc EXCEPT ![g] = "undo"] /\ UNCHANGED <<work, proc, cause>>
                   /\ todo' = [todo EXCEPT ![g] = Append(Begun(w), [sel |-> w.sel, tag |-> n.tag])]
                   /\ lims' = lims \cup {n.tag}
                   /\ \E t \in {s, Started(s, n), Added(s, n)} : sel' = [sel EXCEPT ![w.sel] = t]
<1>1. sel = [sel EXCEPT ![work[g].sel] = sel[work[g].sel]]
  BY DEF SelectorShape
<1> DEFINE added == AddNode(sel[work[g].sel], work[g].nodes[work[g].up + 1])
<1>2. added = "ok" => Pick(sel[work[g].sel], work[g].nodes[work[g].up + 1]) # 0
  BY DEF AddNode
<1>3. added \in {"create", "addNode"} /\ Crash(added) => Crash("create") \/ Crash("addNode")
  <2> HIDE DEF added
  <2> QED OBVIOUS
<1> QED BY <1>1, <1>2, <1>3, Zenon DEF StartController

\* The stages of the process and of the goroutines keep their ranges.
LEMMA ProcStep ==
  ASSUME ProcShape, [ProcessNext]_vars
  PROVE  ProcShape'
<1> USE ServerAssumption DEF ServerAssumption, ProcShape, Gen, Nil
<1>1. ASSUME NEW c \in Config \cup {NoConf}, NEW b \in BOOLEAN, Write(c, b) PROVE ProcShape'
  BY <1>1, ConfigUsable DEF Write, Notify, Ignored
<1>2. ASSUME WindowOver PROVE ProcShape'
  BY <1>2 DEF WindowOver
<1>3. ASSUME Signal PROVE ProcShape'
  BY <1>3 DEF Signal
<1>4. ASSUME EditAssets PROVE ProcShape'
  BY <1>4 DEF EditAssets, Notify, OneMoreFails
<1>5. ASSUME NEW g \in Gen, Load(g) PROVE ProcShape'
  <2>1. overlapped' \in BOOLEAN
    BY <1>5, Zenon DEF Load
  <2> QED BY <1>5, <2>1 DEF Load
<1>6. ASSUME NEW g \in Gen, NodesClose(g) PROVE ProcShape'
  BY <1>6 DEF NodesClose, CloseController, Crash
<1>7. ASSUME NEW g \in Gen, NodesClosed(g) PROVE ProcShape'
  BY <1>7 DEF NodesClosed
<1>8. ASSUME NEW g \in Gen, CloseCore(g) PROVE ProcShape'
  BY <1>8 DEF CloseCore, Crash, Fails, OneMoreFails
<1>9. ASSUME NEW g \in Gen, NewCore(g) PROVE ProcShape'
  BY <1>9 DEF NewCore, Fails, Alive
<1>10. ASSUME NEW g \in Gen, StartCore(g) PROVE ProcShape'
  BY <1>10, StartCoreEffect DEF Crash, Fails, Alive
<1>11. ASSUME NEW g \in Gen, StartController(g) PROVE ProcShape'
  <2>1. \/ pc' = [pc EXCEPT ![g] = "undo"] /\ UNCHANGED proc
        \/ UNCHANGED pc /\ proc' \in {proc, "crashed"}
    BY <1>11 DEF StartController, Crash
  <2> QED BY <1>11, <2>1 DEF StartController, Alive
<1>12. ASSUME NEW g \in Gen, UndoStart(g) PROVE ProcShape'
  BY <1>12 DEF UndoStart, CloseController, Crash
<1>13. ASSUME NEW g \in Gen, StartUndone(g) PROVE ProcShape'
  BY <1>13 DEF StartUndone, Fails
<1>14. ASSUME NEW g \in Gen, NodesStarted(g) PROVE ProcShape'
  BY <1>14 DEF NodesStarted
<1>15. ASSUME NEW c, Usable(c), RunServer(c) PROVE ProcShape'
  BY <1>15 DEF RunServer
<1>16. CASE UNCHANGED vars
  BY <1>16 DEF vars
<1> QED
  BY <1>1, <1>2, <1>3, <1>4, <1>5, <1>6, <1>7, <1>8, <1>9, <1>10, <1>11, <1>12, <1>13,
     <1>14, <1>15, <1>16
  DEF ProcessNext, Running, Step

\* A Selector has what it had, or what one of its operations makes of it.
LEMMA SelectorStep ==
  ASSUME Shape, [ProcessNext]_vars
  PROVE  SelectorShape'
<1> USE DEF Shape, SelectorShape
<1>1. ASSUME NEW c \in Config \cup {NoConf}, NEW b \in BOOLEAN, Write(c, b) PROVE SelectorShape'
  BY <1>1 DEF Write, Notify, Ignored
<1>2. ASSUME WindowOver PROVE SelectorShape'
  BY <1>2 DEF WindowOver
<1>3. ASSUME Signal PROVE SelectorShape'
  BY <1>3 DEF Signal
<1>4. ASSUME EditAssets PROVE SelectorShape'
  BY <1>4 DEF EditAssets, Notify, OneMoreFails
<1>5. ASSUME NEW g \in Gen, Load(g) PROVE SelectorShape'
  BY <1>5 DEF Load
<1>6. ASSUME NEW g \in Gen, NodesClose(g) PROVE SelectorShape'
  <2> DEFINE c == Head(todo[g])
  <2>1. c \in Controller
    BY <1>6 DEF NodesClose, CloseController, Crash, WorkShape
  <2>2. IsSelector(Deleted(sel[c.sel], c.tag))
    BY <2>1, DeletedEffect DEF Controller
  <2>3. UNCHANGED sel \/ sel' = [sel EXCEPT ![c.sel] = Deleted(@, c.tag)]
    BY <1>6 DEF NodesClose, CloseController, Crash
  <2> HIDE DEF c, IsSelector
  <2> QED BY <2>1, <2>2, <2>3 DEF Controller
<1>7. ASSUME NEW g \in Gen, NodesClosed(g) PROVE SelectorShape'
  BY <1>7 DEF NodesClosed
<1>8. ASSUME NEW g \in Gen, CloseCore(g) PROVE SelectorShape'
  <2>1. UNCHANGED sel \/ (vc # Nil /\ sel' = [sel EXCEPT ![vc] = SelectorClosed(@)])
    BY <1>8 DEF CloseCore
  <2>2. vc # Nil => IsSelector(SelectorClosed(sel[vc]))
    BY ClosedEffect DEF ProcShape
  <2> QED BY <2>1, <2>2 DEF ProcShape
<1>9. ASSUME NEW g \in Gen, NewCore(g) PROVE SelectorShape'
  <2>1. UNCHANGED sel \/ sel' = [sel EXCEPT ![g] = Fresh(conf.cores)]
    BY <1>9 DEF NewCore, Fresh
  <2> QED BY <2>1, FreshEffect
<1>10. ASSUME NEW g \in Gen, StartCore(g) PROVE SelectorShape'
  <2>1. CASE UNCHANGED sel
    BY <2>1
  <2>2. ASSUME vc # Nil, NEW own, sel' = [sel EXCEPT ![vc] = Run(@, own)] PROVE SelectorShape'
    <3>1. IsSelector(Run(sel[vc], own))
      BY <2>2, RunEffect DEF ProcShape
    <3> QED BY <2>2, <3>1 DEF ProcShape
  <2> QED BY <1>10, <2>1, <2>2, StartCoreEffect
<1>11. ASSUME NEW g \in Gen, StartController(g) PROVE SelectorShape'
  <2> DEFINE w == work[g]
             n == w.nodes[w.up + 1]
             s == sel[w.sel]
  <2>1. w.sel \in Gen
    BY <1>11 DEF WorkShape, StartController
  <2>2. IsSelector(Started(s, n)) /\ IsSelector(Added(s, n)) /\ IsSelector(s)
    BY <2>1, AddedEffect
  <2>3. UNCHANGED sel \/ \E t \in {s, Started(s, n), Added(s, n)} : sel' = [sel EXCEPT ![w.sel] = t]
    BY <1>11, <2>1, StartControllerEffect DEF SelectorShape
  <2> HIDE DEF s, n, w
  <2> QED BY <2>1, <2>2, <2>3
<1>12. ASSUME NEW g \in Gen, UndoStart(g) PROVE SelectorShape'
  <2> DEFINE c == Head(todo[g])
  <2>1. c \in Controller
    BY <1>12 DEF UndoStart, CloseController, Crash, WorkShape
  <2>2. IsSelector(Deleted(sel[c.sel], c.tag))
    BY <2>1, DeletedEffect DEF Controller
  <2>3. UNCHANGED sel \/ sel' = [sel EXCEPT ![c.sel] = Deleted(@, c.tag)]
    BY <1>12 DEF UndoStart, CloseController, Crash
  <2> HIDE DEF c, IsSelector
  <2> QED BY <2>1, <2>2, <2>3 DEF Controller
<1>13. ASSUME NEW g \in Gen, StartUndone(g) PROVE SelectorShape'
  BY <1>13 DEF StartUndone, Fails
<1>14. ASSUME NEW g \in Gen, NodesStarted(g) PROVE SelectorShape'
  BY <1>14 DEF NodesStarted
<1>15. ASSUME NEW c, Usable(c), RunServer(c) PROVE SelectorShape'
  BY <1>15 DEF RunServer
<1>16. CASE UNCHANGED vars
  BY <1>16 DEF vars
<1> HIDE DEF SelectorShape, Shape
<1> QED
  BY <1>1, <1>2, <1>3, <1>4, <1>5, <1>6, <1>7, <1>8, <1>9, <1>10, <1>11, <1>12, <1>13,
     <1>14, <1>15, <1>16
  DEF ProcessNext, Running, Step

\* The lists of controllers and of nodes stay lists, and what is being started can be.
LEMMA WorkStep ==
  ASSUME Shape, [ProcessNext]_vars
  PROVE  WorkShape'
<1> USE DEF Shape, WorkShape
<1>1. ASSUME NEW c \in Config \cup {NoConf}, NEW b \in BOOLEAN, Write(c, b) PROVE WorkShape'
  BY <1>1 DEF Write, Notify, Ignored, ProcShape
<1>2. ASSUME WindowOver PROVE WorkShape'
  BY <1>2 DEF WindowOver
<1>3. ASSUME Signal PROVE WorkShape'
  BY <1>3 DEF Signal
<1>4. ASSUME EditAssets PROVE WorkShape'
  BY <1>4 DEF EditAssets, Notify, OneMoreFails, ProcShape
<1>5. ASSUME NEW g \in Gen, Load(g) PROVE WorkShape'
  BY <1>5 DEF Load, ProcShape
<1>6. ASSUME NEW g \in Gen, NodesClose(g) PROVE WorkShape'
  <2>1. todo[g] \in Seq(Controller) /\ todo[g] # <<>> /\ todo' = [todo EXCEPT ![g] = Tail(@)]
    BY <1>6 DEF NodesClose, CloseController, Crash
  <2>2. todo' \in [Gen -> Seq(Controller)]
    BY <2>1
  <2> QED BY <1>6, <2>2 DEF NodesClose, CloseController, Crash
<1>7. ASSUME NEW g \in Gen, NodesClosed(g) PROVE WorkShape'
  BY <1>7 DEF NodesClosed, ProcShape
<1>8. ASSUME NEW g \in Gen, CloseCore(g) PROVE WorkShape'
  <2>1. /\ UNCHANGED <<nodes, todo, work>>
        /\ \A h \in Gen : pc'[h] = "startNodes" => pc[h] = "startNodes"
    BY <1>8 DEF CloseCore, ProcShape, Crash, Fails
  <2> QED BY <2>1
<1>9. ASSUME NEW g \in Gen, NewCore(g) PROVE WorkShape'
  <2>1. /\ UNCHANGED <<nodes, todo, work>>
        /\ \A h \in Gen : pc'[h] = "startNodes" => pc[h] = "startNodes"
    BY <1>9 DEF NewCore, ProcShape, Fails
  <2> QED BY <2>1
<1>10. ASSUME NEW g \in Gen, StartCore(g) PROVE WorkShape'
  <2>1. CASE /\ UNCHANGED <<nodes, todo, work>>
             /\ \A h \in Gen : pc'[h] = "startNodes" => pc[h] = "startNodes"
    BY <2>1
  <2>2. CASE /\ vc # Nil /\ pc' = [pc EXCEPT ![g] = "startNodes"] /\ UNCHANGED <<nodes, todo>>
             /\ work' = [work EXCEPT ![g] = [nodes |-> conf.nodes, sel |-> vc, up |-> 0]]
    <3> DEFINE w == [nodes |-> conf.nodes, sel |-> vc, up |-> 0]
    <3>1. IsWork(w) /\ w.sel \in Gen /\ Usable([nodes |-> w.nodes])
      BY <2>2 DEF IsWork, ProcShape, Usable, TagsOf, DistinctTags
    <3> HIDE DEF w
    <3>2. work' = [work EXCEPT ![g] = w]
      BY <2>2 DEF w
    <3> QED BY <2>2, <3>1, <3>2 DEF ProcShape
  <2> QED BY <1>10, <2>1, <2>2, StartCoreEffect DEF ProcShape, Crash, Fails
<1>11. ASSUME NEW g \in Gen, StartController(g) PROVE WorkShape'
  <2> DEFINE w == work[g]
             c == [sel |-> w.sel, tag |-> w.nodes[w.up + 1].tag]
  <2>1. /\ w.sel \in Gen /\ IsWork(w) /\ Usable([nodes |-> w.nodes]) /\ w.up < Len(w.nodes)
        /\ UNCHANGED nodes
    BY <1>11 DEF StartController
  <2>2. Begun(w) \in Seq(Controller) /\ c \in Controller
    <3>1. w.up \in Nat /\ Len(w.nodes) \in Nat
      BY <2>1 DEF IsWork, Usable, IsList
    <3>2. w.up <= Len(w.nodes)
      BY <2>1, <3>1
    <3> QED BY <2>1, <3>2, BegunType DEF Controller
  <2>3. CASE work' = [work EXCEPT ![g].up = @ + 1] /\ UNCHANGED <<pc, todo>>
    <3> DEFINE v == [w EXCEPT !.up = @ + 1]
    <3>1. IsWork(v) /\ v.nodes = w.nodes /\ v.sel = w.sel
      BY <2>1, NextWork
    <3>2. work' = [work EXCEPT ![g] = v]
      BY <2>1, <2>3 DEF IsWork
    <3> HIDE DEF v
    <3> QED BY <2>1, <2>3, <3>1, <3>2
  <2>4. CASE UNCHANGED <<todo, work, pc>>
    BY <2>1, <2>4
  <2>5. CASE /\ pc' = [pc EXCEPT ![g] = "undo"] /\ UNCHANGED work
             /\ \E l \in {Begun(w), Append(Begun(w), c)} : todo' = [todo EXCEPT ![g] = l]
    <3>1. Append(Begun(w), c) \in Seq(Controller)
      BY <2>2
    <3>2. todo' \in [Gen -> Seq(Controller)]
      BY <2>2, <2>5, <3>1, ZenonT(30)
    <3> QED BY <2>1, <2>5, <3>2 DEF ProcShape
  <2> QED BY <1>11, <2>1, <2>3, <2>4, <2>5, StartControllerEffect DEF Crash
<1>12. ASSUME NEW g \in Gen, UndoStart(g) PROVE WorkShape'
  <2>1. todo[g] \in Seq(Controller) /\ todo[g] # <<>> /\ todo' = [todo EXCEPT ![g] = Tail(@)]
    BY <1>12 DEF UndoStart, CloseController, Crash
  <2>2. todo' \in [Gen -> Seq(Controller)]
    BY <2>1
  <2> QED BY <1>12, <2>2 DEF UndoStart, CloseController, Crash
<1>13. ASSUME NEW g \in Gen, StartUndone(g) PROVE WorkShape'
  BY <1>13 DEF StartUndone, Fails, ProcShape
<1>14. ASSUME NEW g \in Gen, NodesStarted(g) PROVE WorkShape'
  <2>1. /\ work[g].sel \in Gen /\ IsWork(work[g]) /\ Usable([nodes |-> work[g].nodes])
        /\ work[g].up = Len(work[g].nodes) /\ work[g].up \in Nat
    BY <1>14 DEF NodesStarted, IsWork
  <2>2. Begun(work[g]) \in Seq(Controller)
    BY <2>1, BegunType
  <2> QED BY <1>14, <2>2 DEF NodesStarted, ProcShape
<1>15. ASSUME NEW c, Usable(c), RunServer(c) PROVE WorkShape'
  BY <1>15 DEF RunServer
<1>16. CASE UNCHANGED vars
  BY <1>16 DEF vars
<1> HIDE DEF WorkShape, Shape
<1> QED
  BY <1>1, <1>2, <1>3, <1>4, <1>5, <1>6, <1>7, <1>8, <1>9, <1>10, <1>11, <1>12, <1>13,
     <1>14, <1>15, <1>16
  DEF ProcessNext, Running, Step

\* A step keeps the shapes.
LEMMA ShapeStep ==
  ASSUME Shape, [ProcessNext]_vars
  PROVE  Shape'
BY ProcStep, SelectorStep, WorkStep DEF Shape

\* If no reload overlaps with the one that loads the file, nobody else is under way.
LEMMA LoadAlone ==
  ASSUME ProcShape, NEW g \in Gen, Load(g), ~overlapped'
  PROVE  ~overlapped /\ \A h \in Gen \ {g} : pc[h] \in {"none", "done", "failed"}
<1>1. ~overlapped /\ Active = {g}
  BY Zenon DEF Load
<1> QED BY <1>1 DEF Active, ProcShape

\* A goroutine that loads the file while another is under way is recorded.
LEMMA SoleStep ==
  ASSUME Shape, Sole, [ProcessNext]_vars
  PROVE  Sole'
<1> USE DEF Shape, Sole
<1>1. ASSUME NEW c \in Config \cup {NoConf}, NEW b \in BOOLEAN, Write(c, b) PROVE Sole'
  BY <1>1 DEF Write, Notify, Ignored, ProcShape, Busy
<1>2. ASSUME WindowOver PROVE Sole'
  BY <1>2 DEF WindowOver, ProcShape, Busy
<1>3. ASSUME Signal PROVE Sole'
  BY <1>3 DEF Signal, ProcShape, Busy
<1>4. ASSUME EditAssets PROVE Sole'
  BY <1>4 DEF EditAssets, Notify, OneMoreFails, ProcShape, Busy
<1>5. ASSUME NEW g \in Gen, Load(g) PROVE Sole'
  BY <1>5, LoadAlone DEF Load, ProcShape, Busy
<1>6. ASSUME NEW g \in Gen, NodesClose(g) PROVE Sole'
  BY <1>6 DEF NodesClose, CloseController, Crash, ProcShape, Busy
<1>7. ASSUME NEW g \in Gen, NodesClosed(g) PROVE Sole'
  BY <1>7 DEF NodesClosed, ProcShape, Busy
<1>8. ASSUME NEW g \in Gen, CloseCore(g) PROVE Sole'
  BY <1>8 DEF CloseCore, Crash, Fails, OneMoreFails, ProcShape, Busy
<1>9. ASSUME NEW g \in Gen, NewCore(g) PROVE Sole'
  BY <1>9 DEF NewCore, Fails, ProcShape, Busy
<1>10. ASSUME NEW g \in Gen, StartCore(g) PROVE Sole'
  BY <1>10, StartCoreEffect DEF Crash, Fails, ProcShape, Busy
<1>11. ASSUME NEW g \in Gen, StartController(g) PROVE Sole'
  <2>1. pc' = [pc EXCEPT ![g] = "undo"] \/ UNCHANGED pc
    BY <1>11 DEF StartController, Crash
  <2> QED BY <1>11, <2>1 DEF StartController, ProcShape, Busy
<1>12. ASSUME NEW g \in Gen, UndoStart(g) PROVE Sole'
  BY <1>12 DEF UndoStart, CloseController, Crash, ProcShape, Busy
<1>13. ASSUME NEW g \in Gen, StartUndone(g) PROVE Sole'
  BY <1>13 DEF StartUndone, Fails, ProcShape, Busy
<1>14. ASSUME NEW g \in Gen, NodesStarted(g) PROVE Sole'
  BY <1>14 DEF NodesStarted, ProcShape, Busy
<1>15. ASSUME NEW c, Usable(c), RunServer(c) PROVE Sole'
  BY <1>15 DEF RunServer, ProcShape, Busy
<1>16. CASE UNCHANGED vars
  BY <1>16 DEF vars, Busy
<1> HIDE DEF Sole, Shape
<1> QED
  BY <1>1, <1>2, <1>3, <1>4, <1>5, <1>6, <1>7, <1>8, <1>9, <1>10, <1>11, <1>12, <1>13,
     <1>14, <1>15, <1>16
  DEF ProcessNext, Running, Step

\* The others are idle while one is under way.
LEMMA OthersIdle ==
  ASSUME Sole, ~overlapped, NEW g \in Gen, Busy(g)
  PROVE  \A h \in Gen \ {g} : pc[h] \in {"none", "delay", "done", "failed"}
BY DEF Sole, Busy

\* Only the Selector in use starts cores, and it was closed when another is made.
LEMMA RunningStep ==
  ASSUME Shape, Sole, RunningInUse, [ProcessNext]_vars
  PROVE  RunningInUse'
<1> USE DEF Shape, RunningInUse
<1>1. ASSUME NEW c \in Config \cup {NoConf}, NEW b \in BOOLEAN, Write(c, b) PROVE RunningInUse'
  BY <1>1 DEF Write, Notify, Ignored, ProcShape
<1>2. ASSUME WindowOver PROVE RunningInUse'
  BY <1>2 DEF WindowOver, ProcShape
<1>3. ASSUME Signal PROVE RunningInUse'
  BY <1>3 DEF Signal, ProcShape
<1>4. ASSUME EditAssets PROVE RunningInUse'
  BY <1>4 DEF EditAssets, Notify, OneMoreFails, ProcShape
<1>5. ASSUME NEW g \in Gen, Load(g) PROVE RunningInUse'
  <2>1. ~overlapped' => ~overlapped
    BY <1>5, LoadAlone
  <2> QED BY <1>5, <2>1 DEF Load, ProcShape
<1>6. ASSUME NEW g \in Gen, NodesClose(g) PROVE RunningInUse'
  <2> DEFINE c == Head(todo[g])
  <2>1. c \in Controller
    BY <1>6 DEF NodesClose, CloseController, Crash, WorkShape
  <2>2. Deleted(sel[c.sel], c.tag).running = sel[c.sel].running
    BY <2>1, DeletedEffect DEF Controller, SelectorShape
  <2>3. UNCHANGED sel \/ sel' = [sel EXCEPT ![c.sel] = Deleted(@, c.tag)]
    BY <1>6 DEF NodesClose, CloseController, Crash
  <2> HIDE DEF c
  <2>4. \A s \in Gen : sel'[s].running = sel[s].running
    BY <2>1, <2>2, <2>3 DEF SelectorShape, Controller
  <2> QED BY <1>6, <2>4 DEF NodesClose, CloseController, Crash
<1>7. ASSUME NEW g \in Gen, NodesClosed(g) PROVE RunningInUse'
  BY <1>7 DEF NodesClosed, ProcShape
<1>8. ASSUME NEW g \in Gen, CloseCore(g) PROVE RunningInUse'
  <2> HAVE ~overlapped'
  <2>1. ~overlapped /\ Busy(g)
    BY <1>8 DEF CloseCore, Busy
  <2>2. \A h \in Gen \ {g} : pc[h] \notin {"newCore", "startNodes"}
    BY <2>1, OthersIdle
  <2>3. CASE vc = Nil
    BY <1>8, <2>1, <2>3 DEF CloseCore, Crash
  <2>4. CASE vc # Nil
    <3>1. SelectorClosed(sel[vc]).running = {}
      BY <2>4, ClosedEffect DEF ProcShape, SelectorShape
    <3>2. \A s \in Gen : sel'[s].running = {}
      BY <1>8, <2>1, <2>4, <3>1 DEF CloseCore, ProcShape, SelectorShape
    <3> QED BY <1>8, <2>2, <2>4, <3>2 DEF CloseCore, Fails, ProcShape
  <2> QED BY <2>3, <2>4
<1>9. ASSUME NEW g \in Gen, NewCore(g) PROVE RunningInUse'
  <2> HAVE ~overlapped'
  <2>1. ~overlapped /\ Busy(g) /\ \A s \in Gen : sel[s].running = {}
    BY <1>9 DEF NewCore, Busy
  <2>2. \A h \in Gen \ {g} : pc[h] \notin {"newCore", "startNodes"}
    BY <2>1, OthersIdle
  <2>3. UNCHANGED sel \/ sel' = [sel EXCEPT ![g] = Fresh(conf.cores)]
    BY <1>9 DEF NewCore, Fresh
  <2>4. \A s \in Gen : sel'[s].running = {}
    BY <2>1, <2>3, FreshEffect DEF SelectorShape
  <2> QED BY <1>9, <2>2, <2>4 DEF NewCore, Fails, ProcShape
<1>10. ASSUME NEW g \in Gen, StartCore(g) PROVE RunningInUse'
  <2> HAVE ~overlapped'
  <2>1. ~overlapped /\ Busy(g) /\ pc[g] = "startCore"
    BY <1>10 DEF StartCore, Busy
  <2>2. \A h \in Gen \ {g} : pc[h] \notin {"newCore", "startNodes"}
    BY <2>1, OthersIdle
  <2>3. \A s \in Gen \ {vc} : sel'[s] = sel[s]
    BY <1>10, StartCoreEffect DEF SelectorShape
  <2>4. /\ UNCHANGED vc /\ \A h \in Gen : pc'[h] # "newCore"
        /\ \A h \in Gen : pc'[h] = "startNodes" => work'[h].sel = vc'
    <3>1. CASE UNCHANGED work /\ (Fails(g) \/ UNCHANGED pc)
      BY <1>10, <2>1, <2>2, <3>1 DEF StartCore, Fails, ProcShape
    <3>2. CASE /\ work' = [work EXCEPT ![g] = [nodes |-> conf.nodes, sel |-> vc, up |-> 0]]
               /\ pc' = [pc EXCEPT ![g] = "startNodes"]
      BY <1>10, <2>1, <2>2, <3>2 DEF StartCore, ProcShape, WorkShape
    <3> QED BY <1>10, <3>1, <3>2, StartCoreEffect DEF Crash
  <2> QED BY <2>1, <2>3, <2>4
<1>11. ASSUME NEW g \in Gen, StartController(g) PROVE RunningInUse'
  <2> HAVE ~overlapped'
  <2>1. ~overlapped /\ Busy(g) /\ pc[g] = "startNodes" /\ UNCHANGED vc
    BY <1>11 DEF StartController, Busy
  <2>2. \A h \in Gen \ {g} : pc[h] \notin {"newCore", "startNodes"}
    BY <2>1, OthersIdle
  <2>3. work[g].sel = vc /\ vc \in Gen
    BY <2>1 DEF WorkShape
  <2>4. \A s \in Gen \ {vc} : sel'[s] = sel[s]
    BY <1>11, <2>3, StartControllerEffect DEF SelectorShape
  <2>5. pc' \in {pc, [pc EXCEPT ![g] = "undo"]} /\ work'[g].sel = work[g].sel
    <3>1. CASE UNCHANGED work
      BY <1>11, <2>3, <3>1, StartControllerEffect DEF Crash
    <3>2. CASE work' = [work EXCEPT ![g].up = @ + 1] /\ UNCHANGED pc
      BY <3>2 DEF WorkShape, IsWork
    <3> QED BY <1>11, <2>3, <3>1, <3>2, StartControllerEffect DEF Crash
  <2>6. \A h \in Gen : pc'[h] # "newCore" /\ (pc'[h] = "startNodes" => h = g)
    BY <2>1, <2>2, <2>5 DEF ProcShape
  <2> QED BY <2>1, <2>3, <2>4, <2>5, <2>6
<1>12. ASSUME NEW g \in Gen, UndoStart(g) PROVE RunningInUse'
  <2> DEFINE c == Head(todo[g])
  <2>1. c \in Controller
    BY <1>12 DEF UndoStart, CloseController, Crash, WorkShape
  <2>2. Deleted(sel[c.sel], c.tag).running = sel[c.sel].running
    BY <2>1, DeletedEffect DEF Controller, SelectorShape
  <2>3. UNCHANGED sel \/ sel' = [sel EXCEPT ![c.sel] = Deleted(@, c.tag)]
    BY <1>12 DEF UndoStart, CloseController, Crash
  <2> HIDE DEF c
  <2>4. \A s \in Gen : sel'[s].running = sel[s].running
    BY <2>1, <2>2, <2>3 DEF SelectorShape, Controller
  <2> QED BY <1>12, <2>4 DEF UndoStart, CloseController, Crash
<1>13. ASSUME NEW g \in Gen, StartUndone(g) PROVE RunningInUse'
  BY <1>13 DEF StartUndone, Fails, ProcShape
<1>14. ASSUME NEW g \in Gen, NodesStarted(g) PROVE RunningInUse'
  BY <1>14 DEF NodesStarted, ProcShape
<1>15. ASSUME NEW c, Usable(c), RunServer(c) PROVE RunningInUse'
  BY <1>15 DEF RunServer, ProcShape
<1>16. CASE UNCHANGED vars
  BY <1>16 DEF vars
<1> HIDE DEF RunningInUse, Shape, Sole
<1> QED
  BY <1>1, <1>2, <1>3, <1>4, <1>5, <1>6, <1>7, <1>8, <1>9, <1>10, <1>11, <1>12, <1>13,
     <1>14, <1>15, <1>16
  DEF ProcessNext, Running, Step

\* What is left of a list after its first element
LEMMA TailEntries ==
  ASSUME NEW S, NEW list \in Seq(S), list # <<>>
  PROVE  /\ Head(list) \in S /\ Head(list) = list[1] /\ Tail(list) \in Seq(S)
         /\ 1 \in 1..Len(list) /\ Len(Tail(list)) = Len(list) - 1 /\ Len(list) \in Nat \ {0}
         /\ \A i \in 1..Len(Tail(list)) : Tail(list)[i] = list[i + 1] /\ i + 1 \in 1..Len(list)
         /\ \A i \in 2..Len(list) : list[i] = Tail(list)[i - 1] /\ i - 1 \in 1..Len(Tail(list))
OBVIOUS

\* A node is closed: it was one of the Selector in use, which stays as it is.
LEMMA CloseInUse ==
  ASSUME Shape, NEW g \in Gen, CloseController(g), InUse(todo[g])
  PROVE  /\ vc \in Gen /\ sel[vc].dead = {} /\ sel'[vc].dead = {}
         /\ Head(todo[g]).sel = vc /\ InUse(todo[g])' /\ UNCHANGED <<proc, cause, pc, vc>>
         /\ \/ UNCHANGED sel /\ stuck'
            \/ sel' = [sel EXCEPT ![vc] = Deleted(@, Head(todo[g]).tag)] /\ UNCHANGED stuck
<1> DEFINE c == Head(todo[g])
<1> USE DEF Shape
<1>1. /\ todo[g] \in Seq(Controller) /\ todo[g] # <<>> /\ todo'[g] = Tail(todo[g]) /\ UNCHANGED vc
      /\ DelPanics(sel[c.sel], c.tag) \/ UNCHANGED <<proc, cause, pc>>
  BY DEF CloseController, Crash, WorkShape
<1>2. c.sel = vc /\ vc \in Gen /\ sel[vc].dead = {}
  BY <1>1, TailEntries DEF InUse, ProcShape
<1>3. ~DelPanics(sel[c.sel], c.tag)
  BY <1>2 DEF DelPanics
<1>4. \/ UNCHANGED sel /\ stuck'
      \/ sel' = [sel EXCEPT ![vc] = Deleted(@, c.tag)] /\ UNCHANGED stuck
  BY <1>2, <1>3 DEF CloseController, Crash
<1>5. Deleted(sel[vc], c.tag).dead = {}
  BY <1>2, DeletedEffect DEF SelectorShape
<1> HIDE DEF c
<1>6. sel'[vc].dead = {}
  BY <1>2, <1>4, <1>5 DEF SelectorShape
<1>7. \A i \in 1..Len(todo'[g]) : todo'[g][i].sel = vc
  BY <1>1, TailEntries DEF InUse
<1> QED BY <1>1, <1>2, <1>3, <1>4, <1>6, <1>7 DEF InUse, c

\* Controllers are of the Selector in use, and closed before it is.
LEMMA ControllersStep ==
  ASSUME Shape, Sole, RunningInUse, ControllersInUse, [ProcessNext]_vars
  PROVE  ControllersInUse'
<1> USE DEF Shape, ControllersInUse
<1>1. ASSUME NEW c \in Config \cup {NoConf}, NEW b \in BOOLEAN, Write(c, b) PROVE ControllersInUse'
  BY <1>1 DEF Write, Notify, Ignored, ProcShape, InUse
<1>2. ASSUME WindowOver PROVE ControllersInUse'
  BY <1>2 DEF WindowOver, ProcShape, InUse
<1>3. ASSUME Signal PROVE ControllersInUse'
  BY <1>3 DEF Signal, ProcShape, InUse
<1>4. ASSUME EditAssets PROVE ControllersInUse'
  BY <1>4 DEF EditAssets, Notify, OneMoreFails, ProcShape, InUse
<1>5. ASSUME NEW g \in Gen, Load(g) PROVE ControllersInUse'
  <2> HAVE ~overlapped'
  <2>1. ~overlapped /\ \A h \in Gen \ {g} : pc[h] \in {"none", "done", "failed"}
    BY <1>5, LoadAlone
  <2>2. UNCHANGED <<nodes, vc, sel>> /\ todo'[g] = nodes /\ pc' = [pc EXCEPT ![g] = "closeNodes"]
    BY <1>5 DEF Load, WorkShape
  <2>3. InUse(nodes)' /\ InUse(todo[g])'
    BY <2>1, <2>2 DEF InUse
  <2> QED BY <2>1, <2>2, <2>3 DEF ProcShape
<1>6. ASSUME NEW g \in Gen, NodesClose(g) PROVE ControllersInUse'
  <2> HAVE ~overlapped'
  <2>1. ~overlapped /\ Busy(g) /\ InUse(todo[g]) /\ CloseController(g)
    BY <1>6 DEF NodesClose, CloseController, Crash, Busy
  <2>2. \A h \in Gen \ {g} : pc[h] \in {"none", "delay", "done", "failed"}
    BY <2>1, OthersIdle
  <2>3. vc \in Gen /\ sel'[vc].dead = {} /\ InUse(todo[g])' /\ UNCHANGED vc
    BY <2>1, CloseInUse
  <2>4. UNCHANGED <<nodes, pc>>
    BY <2>1 DEF CloseController, Crash
  <2>5. InUse(nodes)'
    BY <2>1, <2>3, <2>4 DEF InUse, Nil, Gen
  <2> QED BY <1>6, <2>1, <2>2, <2>3, <2>4, <2>5 DEF NodesClose
<1>7. ASSUME NEW g \in Gen, NodesClosed(g) PROVE ControllersInUse'
  <2> HAVE ~overlapped'
  <2>1. ~overlapped /\ Busy(g) /\ pc[g] = "closeNodes"
    BY <1>7 DEF NodesClosed, Busy
  <2>2. \A h \in Gen \ {g} : pc[h] \in {"none", "delay", "done", "failed"}
    BY <2>1, OthersIdle
  <2>3. InUse(nodes)'
    BY <1>7 DEF NodesClosed, InUse
  <2> QED BY <1>7, <2>1, <2>2, <2>3 DEF NodesClosed, ProcShape
<1>8. ASSUME NEW g \in Gen, CloseCore(g) PROVE ControllersInUse'
  <2> HAVE ~overlapped'
  <2>1. ~overlapped /\ Busy(g) /\ pc[g] = "closeCore"
    BY <1>8 DEF CloseCore, Busy
  <2>2. \A h \in Gen \ {g} : pc[h] \in {"none", "delay", "done", "failed"}
    BY <2>1, OthersIdle
  <2>3. /\ nodes = <<>> /\ UNCHANGED nodes
        /\ pc' \in {pc, [pc EXCEPT ![g] = "newCore"], [pc EXCEPT ![g] = "failed"]}
    BY <1>8, <2>1 DEF CloseCore, Crash, Fails
  <2>4. InUse(nodes)'
    BY <2>3 DEF InUse
  <2> QED BY <2>1, <2>2, <2>3, <2>4 DEF ProcShape
<1>9. ASSUME NEW g \in Gen, NewCore(g) PROVE ControllersInUse'
  <2> HAVE ~overlapped'
  <2>1. ~overlapped /\ Busy(g) /\ pc[g] = "newCore"
    BY <1>9 DEF NewCore, Busy
  <2>2. \A h \in Gen \ {g} : pc[h] \in {"none", "delay", "done", "failed"}
    BY <2>1, OthersIdle
  <2>3. nodes = <<>> /\ UNCHANGED nodes
    BY <1>9, <2>1 DEF NewCore
  <2>4. InUse(nodes)'
    BY <2>3 DEF InUse
  <2>5. CASE /\ pc' = [pc EXCEPT ![g] = "startCore"]
             /\ vc' = g
             /\ sel' = [sel EXCEPT ![g] = Fresh(conf.cores)]
    <3>1. vc' # Nil /\ sel'[vc'].dead = {}
      BY <2>5, FreshEffect DEF SelectorShape, Gen, Nil
    <3> QED BY <2>1, <2>2, <2>3, <2>4, <2>5, <3>1 DEF ProcShape
  <2>6. CASE pc' = [pc EXCEPT ![g] = "failed"]
    BY <2>1, <2>2, <2>3, <2>4, <2>6 DEF ProcShape
  <2> QED BY <1>9, <2>5, <2>6 DEF NewCore, Fails, Fresh
<1>10. ASSUME NEW g \in Gen, StartCore(g) PROVE ControllersInUse'
  <2> HAVE ~overlapped'
  <2>1. ~overlapped /\ Busy(g) /\ pc[g] = "startCore"
    BY <1>10 DEF StartCore, Busy
  <2>2. \A h \in Gen \ {g} : pc[h] \in {"none", "delay", "done", "failed"}
    BY <2>1, OthersIdle
  <2>3. nodes = <<>> /\ UNCHANGED <<nodes, vc>> /\ vc \in Gen /\ sel[vc].dead = {}
    BY <1>10, <2>1 DEF StartCore, ProcShape
  <2>4. InUse(nodes)'
    BY <2>3 DEF InUse
  <2>5. sel'[vc].dead = {}
    <3>1. PICK own : sel' = [sel EXCEPT ![vc] = Run(@, own)]
      BY <1>10, <2>3, StartCoreEffect DEF Nil, Gen
    <3>2. Run(sel[vc], own).dead = {}
      BY <2>3, RunEffect DEF SelectorShape
    <3> QED BY <2>3, <3>1, <3>2 DEF SelectorShape
  <2>6. pc' \in {pc, [pc EXCEPT ![g] = "startNodes"], [pc EXCEPT ![g] = "failed"]}
    BY <1>10, StartCoreEffect DEF Crash, Fails
  <2> QED BY <2>1, <2>2, <2>3, <2>4, <2>5, <2>6 DEF ProcShape
<1>11. ASSUME NEW g \in Gen, StartController(g) PROVE ControllersInUse'
  <2> HAVE ~overlapped'
  <2>1. ~overlapped /\ Busy(g) /\ pc[g] = "startNodes"
    BY <1>11 DEF StartController, Busy
  <2>2. \A h \in Gen \ {g} : pc[h] \in {"none", "delay", "done", "failed"}
    BY <2>1, OthersIdle
  <2> DEFINE w == work[g]
             n == w.nodes[w.up + 1]
             c == [sel |-> w.sel, tag |-> n.tag]
             s == sel[vc]
  <2>3. /\ nodes = <<>> /\ UNCHANGED <<nodes, vc>> /\ sel[vc].dead = {}
        /\ w.sel = vc /\ vc \in Gen
    BY <1>11, <2>1 DEF StartController, ProcShape, RunningInUse, WorkShape
  <2>4. InUse(nodes)'
    BY <2>3 DEF InUse
  <2>5. Started(s, n).dead = {} /\ Added(s, n).dead = {} /\ s.dead = {}
    <3>1. IsSelector(s) /\ s.dead = {}
      BY <2>3 DEF SelectorShape
    <3> HIDE DEF s, n
    <3>2. Started(s, n).dead = s.dead /\ Added(s, n).dead = s.dead \ {n.tag}
      BY <3>1, AddedEffect, Zenon
    <3> QED BY <3>1, <3>2
  <2>6. UNCHANGED sel \/ \E t \in {s, Started(s, n), Added(s, n)} : sel' = [sel EXCEPT ![vc] = t]
    BY <1>11, <2>3, StartControllerEffect
  <2>7. sel'[vc].dead = {}
    <3> HIDE DEF s, n
    <3> QED BY <2>3, <2>5, <2>6 DEF SelectorShape
  <2>8. CASE UNCHANGED pc
    BY <2>1, <2>2, <2>3, <2>4, <2>7, <2>8
  <2>9. CASE /\ pc' = [pc EXCEPT ![g] = "undo"]
             /\ \E l \in {Begun(w), Append(Begun(w), c)} : todo' = [todo EXCEPT ![g] = l]
    <3>1. /\ Begun(w) \in Seq(Controller) /\ Len(Begun(w)) = w.up /\ w.up \in Nat
          /\ \A i \in 1..w.up : Begun(w)[i].sel = vc
      <4>1. /\ IsWork(w) /\ Usable([nodes |-> w.nodes]) /\ w.up < Len(w.nodes)
        BY <1>11, <2>1 DEF StartController, WorkShape
      <4>2. w.up \in Nat /\ Len(w.nodes) \in Nat
        BY <4>1 DEF IsWork, Usable, IsList
      <4>3. w.up <= Len(w.nodes)
        BY <4>1, <4>2
      <4> QED BY <2>3, <4>1, <4>2, <4>3, BegunType
    <3>2. \A l \in {Begun(w), Append(Begun(w), c)} : \A i \in 1..Len(l) : l[i].sel = vc
      BY <2>3, <3>1
    <3>3. \E l \in {Begun(w), Append(Begun(w), c)} : todo'[g] = l
      BY <2>9 DEF WorkShape
    <3>4. InUse(todo[g])'
      BY <2>3, <2>7, <3>2, <3>3 DEF InUse, Gen, Nil
    <3> QED BY <2>1, <2>2, <2>3, <2>4, <2>9, <3>4 DEF ProcShape
  <2> QED BY <1>11, <2>3, <2>8, <2>9, StartControllerEffect DEF Crash
<1>12. ASSUME NEW g \in Gen, UndoStart(g) PROVE ControllersInUse'
  <2> HAVE ~overlapped'
  <2>1. ~overlapped /\ Busy(g) /\ InUse(todo[g]) /\ CloseController(g)
    BY <1>12 DEF UndoStart, CloseController, Crash, Busy
  <2>2. \A h \in Gen \ {g} : pc[h] \in {"none", "delay", "done", "failed"}
    BY <2>1, OthersIdle
  <2>3. vc \in Gen /\ sel'[vc].dead = {} /\ InUse(todo[g])' /\ UNCHANGED vc
    BY <2>1, CloseInUse
  <2>4. UNCHANGED <<nodes, pc>>
    BY <2>1 DEF CloseController, Crash
  <2>5. InUse(nodes)'
    BY <2>1, <2>3, <2>4 DEF InUse, Nil, Gen
  <2> QED BY <1>12, <2>1, <2>2, <2>3, <2>4, <2>5 DEF UndoStart
<1>13. ASSUME NEW g \in Gen, StartUndone(g) PROVE ControllersInUse'
  <2> HAVE ~overlapped'
  <2>1. ~overlapped /\ Busy(g) /\ pc[g] = "undo"
    BY <1>13 DEF StartUndone, Busy
  <2>2. \A h \in Gen \ {g} : pc[h] \in {"none", "delay", "done", "failed"}
    BY <2>1, OthersIdle
  <2>3. nodes = <<>> /\ UNCHANGED nodes
    BY <1>13, <2>1 DEF StartUndone
  <2>4. InUse(nodes)'
    BY <2>3 DEF InUse
  <2> QED BY <1>13, <2>1, <2>2, <2>3, <2>4 DEF StartUndone, Fails, ProcShape
<1>14. ASSUME NEW g \in Gen, NodesStarted(g) PROVE ControllersInUse'
  <2> HAVE ~overlapped'
  <2>1. ~overlapped /\ Busy(g) /\ pc[g] = "startNodes"
    BY <1>14 DEF NodesStarted, Busy
  <2>2. \A h \in Gen \ {g} : pc[h] \in {"none", "delay", "done", "failed"}
    BY <2>1, OthersIdle
  <2> DEFINE w == work[g]
  <2>3. /\ UNCHANGED <<vc, sel>> /\ sel[vc].dead = {} /\ vc # Nil
        /\ w.sel = vc /\ vc \in Gen /\ IsWork(w) /\ Usable([nodes |-> w.nodes])
        /\ w.up = Len(w.nodes) /\ w.up \in Nat /\ nodes' = Begun(w)
    BY <1>14, <2>1 DEF NodesStarted, ProcShape, RunningInUse, WorkShape, IsWork
  <2>4. Len(Begun(w)) = w.up /\ \A i \in 1..w.up : Begun(w)[i].sel = vc
    BY <2>3, BegunType
  <2>5. InUse(nodes)'
    <3> HIDE DEF w
    <3> QED BY <2>3, <2>4 DEF InUse
  <2> QED BY <1>14, <2>1, <2>2, <2>5 DEF NodesStarted, ProcShape
<1>15. ASSUME NEW c, Usable(c), RunServer(c) PROVE ControllersInUse'
  BY <1>15 DEF RunServer, ProcShape, InUse
<1>16. CASE UNCHANGED vars
  BY <1>16 DEF vars, InUse
<1> HIDE DEF RunningInUse, Shape, Sole, ControllersInUse
<1> QED
  BY <1>1, <1>2, <1>3, <1>4, <1>5, <1>6, <1>7, <1>8, <1>9, <1>10, <1>11, <1>12, <1>13,
     <1>14, <1>15, <1>16
  DEF ProcessNext, Running, Step

-----------------------------------------------------------------------------
(* What is registered *)

\* The tags in the lists that a failing start hands over to be closed
LEMMA BegunTags ==
  ASSUME NEW w, IsWork(w), Usable([nodes |-> w.nodes]), w.sel \in Gen, w.up <= Len(w.nodes)
  PROVE  /\ TagsIn(Begun(w)) = UpTags(w)
         /\ \A c \in Controller : TagsIn(Append(Begun(w), c)) = UpTags(w) \cup {c.tag}
<1>1. /\ Begun(w) \in Seq(Controller) /\ Len(Begun(w)) = w.up /\ w.up \in Nat
      /\ \A i \in 1..w.up : Begun(w)[i].tag = w.nodes[i].tag
  BY BegunType DEF IsWork
<1>2. TagsIn(Begun(w)) = UpTags(w)
  BY <1>1 DEF TagsIn, UpTags
<1>3. ASSUME NEW c \in Controller
      PROVE  TagsIn(Append(Begun(w), c)) = UpTags(w) \cup {c.tag}
  <2> DEFINE b == Begun(w)
             l == Append(b, c)
  <2>1. /\ Len(l) = w.up + 1 /\ l[w.up + 1] = c /\ \A i \in 1..w.up : l[i].tag = w.nodes[i].tag
    BY <1>1
  <2>2. 1..(w.up + 1) = (1..w.up) \cup {w.up + 1}
    BY <1>1
  <2> HIDE DEF l
  <2>3. \A x : x \in TagsIn(l) <=> (\E i \in 1..w.up : x = w.nodes[i].tag) \/ x = c.tag
    <3>1. TagsIn(l) = {l[i].tag : i \in 1..(w.up + 1)}
      BY <2>1 DEF TagsIn
    <3> QED BY <2>1, <2>2, <3>1
  <2> QED BY <2>3 DEF UpTags, l
<1> QED BY <1>2, <1>3

\* One more node is up.
LEMMA NextUpTags ==
  ASSUME NEW w, IsWork(w), NEW v, v.nodes = w.nodes, v.up = w.up + 1
  PROVE  UpTags(v) = UpTags(w) \cup {w.nodes[w.up + 1].tag}
<1>1. w.up \in Nat
  BY DEF IsWork
<1>2. 1..(w.up + 1) = (1..w.up) \cup {w.up + 1}
  BY <1>1
<1> QED BY <1>2 DEF UpTags

\* All but the tag of the first are the tags of the rest.
LEMMA TailTags ==
  ASSUME NEW list \in Seq(Controller), list # <<>>
  PROVE  TagsIn(list) \ {Head(list).tag} \subseteq TagsIn(Tail(list))
<1> SUFFICES ASSUME NEW i \in 1..Len(list), list[i].tag # Head(list).tag
             PROVE  list[i].tag \in TagsIn(Tail(list))
  BY DEF TagsIn
<1>1. i \in 2..Len(list)
  BY TailEntries
<1> QED BY <1>1, TailEntries, SMTT(30) DEF TagsIn

\* A step that is not about the nodes
LEMMA RegisteredSame ==
  ASSUME RegisteredByStage, proc' # "crashed" => proc # "crashed",
         UNCHANGED <<vc, lims, nodes, conf, sel, stuck, work, todo, overlapped>>,
         \A g \in Gen : pc'[g] = pc[g] \/ (pc[g] = "none" /\ pc'[g] = "delay")
  PROVE  RegisteredByStage'
<1>1. /\ Complete' = Complete /\ Nothing' = Nothing
      /\ \A g \in Gen : TagsIn(todo[g])' = TagsIn(todo[g]) /\ UpTags(work[g])' = UpTags(work[g])
  BY DEF Complete, Nothing, TagsIn, UpTags, Serving
<1>2. Known(vc)' = Known(vc) /\ \A g \in Gen : Busy(g)' <=> Busy(g)
  BY DEF Known, Busy
<1> QED BY <1>1, <1>2 DEF RegisteredByStage

\* Each stage of a reload leaves registered what the next one expects.
LEMMA RegisteredStep ==
  ASSUME Shape, Sole, RunningInUse, ControllersInUse, RegisteredByStage, [ProcessNext]_vars
  PROVE  RegisteredByStage'
<1> USE DEF Shape
<1>1. ASSUME NEW c \in Config \cup {NoConf}, NEW b \in BOOLEAN, Write(c, b) PROVE RegisteredByStage'
  <2>1. /\ UNCHANGED <<vc, lims, nodes, conf, sel, stuck, work, todo, overlapped>>
        /\ proc' # "crashed" => proc # "crashed"
        /\ \A g \in Gen : pc'[g] = pc[g] \/ (pc[g] = "none" /\ pc'[g] = "delay")
    BY <1>1 DEF Write, Notify, Ignored, Alive, ProcShape
  <2> HIDE DEF Shape
  <2> QED BY <2>1, RegisteredSame
<1>2. ASSUME WindowOver PROVE RegisteredByStage'
  <2>1. /\ UNCHANGED <<vc, lims, nodes, conf, sel, stuck, work, todo, overlapped>>
        /\ proc' # "crashed" => proc # "crashed"
        /\ \A g \in Gen : pc'[g] = pc[g] \/ (pc[g] = "none" /\ pc'[g] = "delay")
    BY <1>2 DEF WindowOver, Alive
  <2> HIDE DEF Shape
  <2> QED BY <2>1, RegisteredSame
<1>3. ASSUME Signal PROVE RegisteredByStage'
  <2>1. /\ UNCHANGED <<vc, lims, nodes, conf, sel, stuck, work, todo, overlapped>>
        /\ proc' # "crashed" => proc # "crashed"
        /\ \A g \in Gen : pc'[g] = pc[g] \/ (pc[g] = "none" /\ pc'[g] = "delay")
    BY <1>3 DEF Signal, Alive
  <2> HIDE DEF Shape
  <2> QED BY <2>1, RegisteredSame
<1>4. ASSUME EditAssets PROVE RegisteredByStage'
  <2>1. /\ UNCHANGED <<vc, lims, nodes, conf, sel, stuck, work, todo, overlapped>>
        /\ proc' # "crashed" => proc # "crashed"
        /\ \A g \in Gen : pc'[g] = pc[g] \/ (pc[g] = "none" /\ pc'[g] = "delay")
    BY <1>4 DEF EditAssets, Notify, Alive, ProcShape
  <2> HIDE DEF Shape
  <2> QED BY <2>1, RegisteredSame
<1>5. ASSUME NEW g \in Gen, Load(g) PROVE RegisteredByStage'
  <2> SUFFICES ASSUME ~overlapped', proc' # "crashed" PROVE RegisteredByStage'
    BY DEF RegisteredByStage
  <2>1. ~overlapped /\ \A h \in Gen \ {g} : pc[h] \in {"none", "done", "failed"}
    BY <1>5, LoadAlone
  <2>2. /\ UNCHANGED <<nodes, lims, vc, sel>>
        /\ todo'[g] = nodes
        /\ pc' = [pc EXCEPT ![g] = "closeNodes"]
        /\ proc # "crashed" /\ pc[g] = "delay"
    BY <1>5 DEF Load, WorkShape, Alive
  <2>3. Complete \/ Nothing
    BY <2>1, <2>2 DEF RegisteredByStage, Busy
  <2>4. lims' \subseteq TagsIn(todo[g])'
    BY <2>2, <2>3 DEF Complete, Nothing, TagsIn
  <2>5. ~ \A h \in Gen : ~Busy(h)'
    BY <2>2 DEF Busy, ProcShape
  <2> QED BY <2>1, <2>2, <2>4, <2>5 DEF RegisteredByStage, ProcShape
<1>6. ASSUME NEW g \in Gen, NodesClose(g) PROVE RegisteredByStage'
  <2> SUFFICES ASSUME ~overlapped', proc' # "crashed" PROVE RegisteredByStage'
    BY DEF RegisteredByStage
  <2>1. ~overlapped /\ proc # "crashed" /\ Busy(g) /\ pc[g] = "closeNodes"
    BY <1>6 DEF NodesClose, CloseController, Crash, Busy, Alive
  <2>2. \A h \in Gen \ {g} : pc[h] \in {"none", "delay", "done", "failed"}
    BY <2>1, OthersIdle
  <2>3. /\ InUse(todo[g]) /\ CloseController(g) /\ todo[g] \in Seq(Controller) /\ todo[g] # <<>>
        /\ lims' = lims \ {Head(todo[g]).tag} /\ todo'[g] = Tail(todo[g]) /\ UNCHANGED <<pc, vc>>
    BY <1>6, <2>1 DEF NodesClose, CloseController, Crash, ControllersInUse, WorkShape
  <2>4. lims' \subseteq TagsIn(todo[g])'
    BY <2>1, <2>3, TailTags DEF RegisteredByStage
  <2>5. ~ \A h \in Gen : ~Busy(h)'
    BY <2>1, <2>3 DEF Busy
  <2> QED BY <2>1, <2>2, <2>3, <2>4, <2>5 DEF RegisteredByStage
<1>7. ASSUME NEW g \in Gen, NodesClosed(g) PROVE RegisteredByStage'
  <2> SUFFICES ASSUME ~overlapped', proc' # "crashed" PROVE RegisteredByStage'
    BY DEF RegisteredByStage
  <2>1. ~overlapped /\ proc # "crashed" /\ Busy(g) /\ pc[g] = "closeNodes"
    BY <1>7 DEF NodesClosed, Busy, Alive
  <2>2. \A h \in Gen \ {g} : pc[h] \in {"none", "delay", "done", "failed"}
    BY <2>1, OthersIdle
  <2>3. lims = {} /\ UNCHANGED lims /\ pc' = [pc EXCEPT ![g] = "closeCore"]
    BY <1>7, <2>1 DEF NodesClosed, RegisteredByStage, TagsIn
  <2>4. ~ \A h \in Gen : ~Busy(h)'
    BY <2>3 DEF Busy, ProcShape
  <2> QED BY <2>1, <2>2, <2>3, <2>4 DEF RegisteredByStage, ProcShape
<1>8. ASSUME NEW g \in Gen, CloseCore(g) PROVE RegisteredByStage'
  <2> SUFFICES ASSUME ~overlapped', proc' # "crashed" PROVE RegisteredByStage'
    BY DEF RegisteredByStage
  <2>1. ~overlapped /\ proc # "crashed" /\ Busy(g) /\ pc[g] = "closeCore"
    BY <1>8 DEF CloseCore, Busy, Alive
  <2>2. \A h \in Gen \ {g} : pc[h] \in {"none", "delay", "done", "failed"}
    BY <2>1, OthersIdle
  <2>3. nodes = <<>> /\ lims = {} /\ UNCHANGED <<nodes, lims, vc>> /\ vc \in Gen
    BY <1>8, <2>1 DEF CloseCore, Crash, RegisteredByStage, ControllersInUse, ProcShape
  <2>4. CASE pc' = [pc EXCEPT ![g] = "newCore"]
    <3>1. ~ \A h \in Gen : ~Busy(h)'
      BY <2>4 DEF Busy, ProcShape
    <3> QED BY <2>1, <2>2, <2>3, <2>4, <3>1 DEF RegisteredByStage, ProcShape
  <2>5. CASE pc' = [pc EXCEPT ![g] = "failed"]
    <3>1. sel' = [sel EXCEPT ![vc] = SelectorClosed(@)]
      BY <1>8, <2>3 DEF CloseCore, Gen, Nil
    <3>2. \A t \in Tag : SelectorClosed(sel[vc]).at[t] # 0 => t \in SelectorClosed(sel[vc]).dead
      BY <2>3, ClosedEffect DEF SelectorShape
    <3>3. sel'[vc] = SelectorClosed(sel[vc])
      BY <2>3, <3>1 DEF SelectorShape
    <3>4. Serving(vc)' = {}
      BY <2>3, <3>2, <3>3 DEF Serving
    <3>5. Nothing'
      BY <2>3, <3>4 DEF Nothing
    <3> QED BY <2>1, <2>2, <2>5, <3>5 DEF RegisteredByStage, ProcShape
  <2> QED BY <1>8, <2>3, <2>4, <2>5 DEF CloseCore, Fails, Gen, Nil
<1>9. ASSUME NEW g \in Gen, NewCore(g) PROVE RegisteredByStage'
  <2> SUFFICES ASSUME ~overlapped', proc' # "crashed" PROVE RegisteredByStage'
    BY DEF RegisteredByStage
  <2>1. ~overlapped /\ proc # "crashed" /\ Busy(g) /\ pc[g] = "newCore"
    BY <1>9 DEF NewCore, Busy, Alive
  <2>2. \A h \in Gen \ {g} : pc[h] \in {"none", "delay", "done", "failed"}
    BY <2>1, OthersIdle
  <2>3. nodes = <<>> /\ lims = {} /\ UNCHANGED <<nodes, lims>>
    BY <1>9, <2>1 DEF NewCore, RegisteredByStage, ControllersInUse
  <2>4. CASE /\ pc' = [pc EXCEPT ![g] = "startCore"]
             /\ vc' = g
             /\ sel' = [sel EXCEPT ![g] = Fresh(conf.cores)]
    <3>1. Known(vc)' = {}
      BY <2>4, FreshEffect DEF Known, SelectorShape
    <3>2. ~ \A h \in Gen : ~Busy(h)'
      BY <2>4 DEF Busy, ProcShape
    <3> QED BY <2>1, <2>2, <2>3, <2>4, <3>1, <3>2 DEF RegisteredByStage, ProcShape
  <2>5. CASE pc' = [pc EXCEPT ![g] = "failed"] /\ vc' = Nil
    <3>1. Nothing'
      BY <2>3, <2>5 DEF Nothing
    <3> QED BY <2>1, <2>2, <2>5, <3>1 DEF RegisteredByStage, ProcShape
  <2> QED BY <1>9, <2>4, <2>5 DEF NewCore, Fails, Fresh
<1>10. ASSUME NEW g \in Gen, StartCore(g) PROVE RegisteredByStage'
  <2> SUFFICES ASSUME ~overlapped', proc' # "crashed" PROVE RegisteredByStage'
    BY DEF RegisteredByStage
  <2>1. ~overlapped /\ proc # "crashed" /\ Busy(g) /\ pc[g] = "startCore"
    BY <1>10 DEF StartCore, Busy, Alive
  <2>2. \A h \in Gen \ {g} : pc[h] \in {"none", "delay", "done", "failed"}
    BY <2>1, OthersIdle
  <2>3. /\ nodes = <<>> /\ lims = {} /\ UNCHANGED <<nodes, lims, vc, conf>> /\ vc \in Gen
        /\ Known(vc) = {}
    BY <1>10, <2>1 DEF StartCore, Crash, RegisteredByStage, ControllersInUse, ProcShape
  <2>4. Known(vc)' = {}
    <3>1. PICK own : sel' = [sel EXCEPT ![vc] = Run(@, own)]
      BY <1>10, <2>3, StartCoreEffect DEF Nil, Gen
    <3>2. Run(sel[vc], own).at = sel[vc].at
      BY <2>3, RunEffect DEF SelectorShape
    <3>3. sel'[vc].at = sel[vc].at
      BY <2>3, <3>1, <3>2 DEF SelectorShape
    <3> QED BY <2>3, <3>3 DEF Known
  <2>5. CASE /\ pc' = [pc EXCEPT ![g] = "startNodes"]
             /\ work' = [work EXCEPT ![g] = [nodes |-> conf.nodes, sel |-> vc, up |-> 0]]
    <3>1. work'[g].nodes = conf.nodes /\ work'[g].up = 0
      BY <2>5 DEF WorkShape
    <3>2. UpTags(work[g])' = {}
      BY <3>1 DEF UpTags
    <3>3. ~ \A h \in Gen : ~Busy(h)'
      BY <2>5 DEF Busy, ProcShape
    <3> QED BY <2>1, <2>2, <2>3, <2>4, <2>5, <3>1, <3>2, <3>3 DEF RegisteredByStage, ProcShape
  <2>6. CASE pc' = [pc EXCEPT ![g] = "failed"]
    <3>1. Nothing'
      BY <2>3, <2>4 DEF Nothing, Known, Serving
    <3> QED BY <2>1, <2>2, <2>6, <3>1 DEF RegisteredByStage, ProcShape
  <2> QED BY <1>10, <2>3, <2>5, <2>6, StartCoreEffect DEF Crash, Fails, Gen, Nil
<1>11. ASSUME NEW g \in Gen, StartController(g) PROVE RegisteredByStage'
  <2> SUFFICES ASSUME ~overlapped', proc' # "crashed" PROVE RegisteredByStage'
    BY DEF RegisteredByStage
  <2>1. ~overlapped /\ proc # "crashed" /\ Busy(g) /\ pc[g] = "startNodes"
    BY <1>11 DEF StartController, Busy, Alive
  <2>2. \A h \in Gen \ {g} : pc[h] \in {"none", "delay", "done", "failed"}
    BY <2>1, OthersIdle
  <2> DEFINE w == work[g]
             n == w.nodes[w.up + 1]
             c == [sel |-> w.sel, tag |-> n.tag]
             s == sel[vc]
  <2>3. /\ UNCHANGED <<vc, conf>> /\ w.sel = vc /\ vc \in Gen /\ w.nodes = conf.nodes
        /\ lims = UpTags(w) /\ Known(vc) = UpTags(w)
        /\ IsWork(w) /\ Usable([nodes |-> w.nodes]) /\ w.up < Len(w.nodes)
    BY <1>11, <2>1 DEF StartController, ProcShape, RunningInUse, RegisteredByStage, WorkShape
  <2>4. w.up \in Nat /\ Len(w.nodes) \in Nat
    BY <2>3 DEF IsWork, Usable, IsList
  <2>5. n.tag \in Tag /\ c \in Controller /\ w.up <= Len(w.nodes)
    BY <2>3, <2>4, BegunType DEF Controller
  <2>6. /\ Started(s, n).at = s.at
        /\ \A t \in Tag : Added(s, n).at[t] = IF t = n.tag THEN Pick(s, n) ELSE s.at[t]
    <3>1. IsSelector(s)
      BY <2>3 DEF SelectorShape
    <3> QED BY <3>1, AddedEffect, Zenon
  <2>7. CASE /\ Pick(s, n) # 0 /\ sel' = [sel EXCEPT ![vc] = Added(s, n)]
             /\ lims' = lims \cup {n.tag} /\ work' = [work EXCEPT ![g].up = @ + 1]
             /\ UNCHANGED pc
    <3>1. work'[g].nodes = w.nodes /\ work'[g].up = w.up + 1
      BY <2>3, <2>7 DEF IsWork, WorkShape
    <3>2. UpTags(work[g])' = UpTags(w) \cup {n.tag}
      BY <2>3, <3>1, NextUpTags
    <3>3. sel'[vc] = Added(s, n)
      BY <2>3, <2>7 DEF SelectorShape
    <3>4. Known(vc)' = Known(vc) \cup {n.tag}
      <4> HIDE DEF n
      <4> QED BY <2>3, <2>5, <2>6, <2>7, <3>3 DEF Known
    <3>5. ~ \A h \in Gen : ~Busy(h)'
      BY <2>1, <2>7 DEF Busy
    <3> QED BY <2>1, <2>2, <2>3, <2>7, <3>1, <3>2, <3>4, <3>5 DEF RegisteredByStage
  <2>8. CASE /\ pc' = [pc EXCEPT ![g] = "undo"] /\ todo' = [todo EXCEPT ![g] = Begun(w)]
             /\ UNCHANGED <<sel, lims>>
    <3>1. TagsIn(todo[g])' = UpTags(w)
      BY <2>3, <2>5, <2>8, BegunTags DEF WorkShape
    <3>2. Known(vc)' = Known(vc)
      BY <2>3, <2>8 DEF Known
    <3>3. ~ \A h \in Gen : ~Busy(h)'
      BY <2>8 DEF Busy, ProcShape
    <3> QED BY <2>1, <2>2, <2>3, <2>8, <3>1, <3>2, <3>3 DEF RegisteredByStage, ProcShape
  <2>9. ASSUME pc' = [pc EXCEPT ![g] = "undo"], lims' = lims \cup {n.tag},
               todo' = [todo EXCEPT ![g] = Append(Begun(w), c)],
               NEW t \in {s, Started(s, n), Added(s, n)}, sel' = [sel EXCEPT ![vc] = t]
        PROVE  RegisteredByStage'
    <3>1. TagsIn(todo[g])' = UpTags(w) \cup {n.tag}
      <4>1. todo'[g] = Append(Begun(w), c) /\ c.tag = n.tag
        BY <2>9 DEF WorkShape
      <4> QED BY <2>3, <2>5, <4>1, BegunTags
    <3>2. sel'[vc] = t
      BY <2>3, <2>9 DEF SelectorShape
    <3>3. \A x \in Tag : t.at[x] # 0 => s.at[x] # 0 \/ x = n.tag
      <4> HIDE DEF s, n
      <4> QED BY <2>6, <2>9
    <3>4. Known(vc)' \subseteq Known(vc) \cup {n.tag}
      BY <2>3, <3>2, <3>3 DEF Known
    <3>5. ~ \A h \in Gen : ~Busy(h)'
      BY <2>9 DEF Busy, ProcShape
    <3> QED BY <2>1, <2>2, <2>3, <2>9, <3>1, <3>4, <3>5 DEF RegisteredByStage, ProcShape
  <2> QED BY <1>11, <2>3, <2>7, <2>8, <2>9, StartControllerEffect DEF Crash
<1>12. ASSUME NEW g \in Gen, UndoStart(g) PROVE RegisteredByStage'
  <2> SUFFICES ASSUME ~overlapped', proc' # "crashed" PROVE RegisteredByStage'
    BY DEF RegisteredByStage
  <2>1. ~overlapped /\ proc # "crashed" /\ Busy(g) /\ pc[g] = "undo"
    BY <1>12 DEF UndoStart, CloseController, Crash, Busy, Alive
  <2>2. \A h \in Gen \ {g} : pc[h] \in {"none", "delay", "done", "failed"}
    BY <2>1, OthersIdle
  <2>3. /\ InUse(todo[g]) /\ CloseController(g) /\ todo[g] \in Seq(Controller) /\ todo[g] # <<>>
        /\ lims' = lims \ {Head(todo[g]).tag} /\ todo'[g] = Tail(todo[g]) /\ UNCHANGED <<pc, vc>>
    BY <1>12, <2>1 DEF UndoStart, CloseController, Crash, ControllersInUse, WorkShape
  <2>4. lims' \subseteq TagsIn(todo[g])'
    BY <2>1, <2>3, TailTags DEF RegisteredByStage
  <2>5. ~ \A h \in Gen : ~Busy(h)'
    BY <2>1, <2>3 DEF Busy
  <2>6. ASSUME ~stuck', vc' # Nil PROVE Known(vc)' \subseteq TagsIn(todo[g])'
    <3> DEFINE c == Head(todo[g])
    <3>1. /\ vc \in Gen /\ c.sel = vc /\ sel' = [sel EXCEPT ![vc] = Deleted(@, c.tag)]
          /\ UNCHANGED stuck
      BY <2>3, <2>6, CloseInUse
    <3>2. \A t \in Tag : Deleted(sel[vc], c.tag).at[t] = IF t = c.tag THEN 0 ELSE sel[vc].at[t]
      BY <3>1, DeletedEffect DEF SelectorShape
    <3> HIDE DEF c
    <3>3. Known(vc)' \subseteq Known(vc) \ {c.tag}
      BY <2>3, <3>1, <3>2 DEF Known, SelectorShape
    <3>4. Known(vc) \subseteq TagsIn(todo[g])
      BY <2>1, <2>6, <2>3, <3>1 DEF RegisteredByStage
    <3> QED BY <2>3, <3>3, <3>4, TailTags DEF c
  <2> QED BY <2>1, <2>2, <2>3, <2>4, <2>5, <2>6 DEF RegisteredByStage
<1>13. ASSUME NEW g \in Gen, StartUndone(g) PROVE RegisteredByStage'
  <2> SUFFICES ASSUME ~overlapped', proc' # "crashed" PROVE RegisteredByStage'
    BY DEF RegisteredByStage
  <2>1. ~overlapped /\ proc # "crashed" /\ Busy(g) /\ pc[g] = "undo"
    BY <1>13 DEF StartUndone, Busy, Alive
  <2>2. \A h \in Gen \ {g} : pc[h] \in {"none", "delay", "done", "failed"}
    BY <2>1, OthersIdle
  <2>3. /\ nodes = <<>> /\ todo[g] = <<>> /\ UNCHANGED <<nodes, lims, vc, sel, stuck>>
        /\ pc' = [pc EXCEPT ![g] = "failed"]
    BY <1>13, <2>1 DEF StartUndone, Fails, ControllersInUse
  <2>4. lims = {} /\ (~stuck /\ vc # Nil => Known(vc) = {})
    BY <2>1, <2>3 DEF RegisteredByStage, TagsIn
  <2>5. Nothing'
    BY <2>3, <2>4 DEF Nothing, Known, Serving
  <2> QED BY <2>1, <2>2, <2>3, <2>5 DEF RegisteredByStage, ProcShape
<1>14. ASSUME NEW g \in Gen, NodesStarted(g) PROVE RegisteredByStage'
  <2> SUFFICES ASSUME ~overlapped', proc' # "crashed" PROVE RegisteredByStage'
    BY DEF RegisteredByStage
  <2>1. ~overlapped /\ proc # "crashed" /\ Busy(g) /\ pc[g] = "startNodes"
    BY <1>14 DEF NodesStarted, Busy, Alive
  <2>2. \A h \in Gen \ {g} : pc[h] \in {"none", "delay", "done", "failed"}
    BY <2>1, OthersIdle
  <2> DEFINE w == work[g]
  <2>3. /\ UNCHANGED <<vc, sel, lims, conf>> /\ sel[vc].dead = {} /\ vc # Nil
        /\ w.sel = vc /\ vc \in Gen /\ IsWork(w) /\ Usable([nodes |-> w.nodes])
        /\ w.up = Len(w.nodes) /\ w.up \in Nat /\ nodes' = Begun(w)
        /\ w.nodes = conf.nodes /\ lims = UpTags(w) /\ Known(vc) = UpTags(w)
    BY <1>14, <2>1 DEF NodesStarted, ProcShape, RunningInUse, ControllersInUse,
         RegisteredByStage, WorkShape, IsWork
  <2>4. TagsIn(nodes)' = UpTags(w)
    BY <2>3, BegunTags
  <2>5. UpTags(w) = TagsOf(conf)'
    BY <2>3 DEF UpTags, TagsOf
  <2>6. Serving(vc)' = Known(vc)
    BY <2>3 DEF Serving, Known
  <2>7. Complete'
    <3> HIDE DEF w
    <3> QED BY <2>3, <2>4, <2>5, <2>6 DEF Complete
  <2> QED BY <1>14, <2>1, <2>2, <2>7 DEF NodesStarted, RegisteredByStage, ProcShape
<1>15. ASSUME NEW c, Usable(c), RunServer(c) PROVE RegisteredByStage'
  <2> SUFFICES ASSUME ~overlapped', proc' # "crashed" PROVE RegisteredByStage'
    BY DEF RegisteredByStage
  <2>1. /\ ~overlapped /\ 1 \in Gen /\ pc[1] = "newCore" /\ Busy(1) /\ proc # "crashed"
        /\ UNCHANGED <<pc, lims>>
    BY <1>15, ServerAssumption DEF RunServer, ProcShape, Busy, Gen, ServerAssumption
  <2>2. \A h \in Gen \ {1} : pc[h] \in {"none", "delay", "done", "failed"}
    BY <2>1, OthersIdle
  <2>3. ~ \A h \in Gen : ~Busy(h)'
    BY <2>1 DEF Busy
  <2> QED BY <2>1, <2>2, <2>3 DEF RegisteredByStage
<1>16. CASE UNCHANGED vars
  <2>1. /\ UNCHANGED <<vc, lims, nodes, conf, sel, stuck, work, todo, overlapped>>
        /\ proc' # "crashed" => proc # "crashed"
        /\ \A g \in Gen : pc'[g] = pc[g] \/ (pc[g] = "none" /\ pc'[g] = "delay")
    BY <1>16 DEF vars
  <2> HIDE DEF Shape
  <2> QED BY <2>1, RegisteredSame
<1> HIDE DEF Shape
<1> QED
  BY <1>1, <1>2, <1>3, <1>4, <1>5, <1>6, <1>7, <1>8, <1>9, <1>10, <1>11, <1>12, <1>13,
     <1>14, <1>15, <1>16
  DEF ProcessNext, Running, Step

-----------------------------------------------------------------------------
(* Which core a node is put on *)

\* The first of a set of entries is one of them, and before the others.
LEMMA FirstIn ==
  ASSUME NEW T \in SUBSET Nat, T # {}
  PROVE  First(T) \in T /\ \A y \in T : First(T) <= y
<1> DEFINE R == OpToRel(<, Nat)
<1>1. \A p : p \in R <=> p \in Nat \X Nat /\ p[1] < p[2]
  BY DEF OpToRel
<1>2. PICK x \in T : \A y \in T : ~(<<y, x>> \in R)
  <2> HIDE DEF R
  <2>1. IsWellFoundedOn(R, Nat)
    BY NatLessThanWellFounded DEF R
  <2> QED BY <2>1, WFMin
<1> HIDE DEF R
<1>3. ASSUME NEW y \in T PROVE ~(y < x)
  <2>1. <<y, x>> \in Nat \X Nat /\ <<y, x>>[1] = y /\ <<y, x>>[2] = x
    OBVIOUS
  <2>2. <<y, x>> \notin R
    BY <1>2
  <2>3. <<y, x>> \in R <=> <<y, x>> \in Nat \X Nat /\ <<y, x>>[1] < <<y, x>>[2]
    BY <1>1, Zenon
  <2> QED BY <2>1, <2>2, <2>3
<1>4. \A y \in T : x <= y
  <2> TAKE y \in T
  <2>1. ~(y < x) /\ x \in Nat /\ y \in Nat
    BY <1>3
  <2> QED BY <2>1
<1> QED BY <1>4 DEF First

\* Places in a list are natural numbers.
LEMMA CountsAreNat ==
  ASSUME NEW x
  PROVE  1..x \subseteq Nat
OBVIOUS

\* pickLocked: a node that names no core goes to one that runs if it can.
LEMMA PickIsLazy ==
  ASSUME NEW s, NEW n, n.coreName = "", Pick(s, n) \notin s.running
  PROVE  Candidates(s, n) \cap s.running = {}
<1> DEFINE able == Candidates(s, n) \cap s.running
<1> SUFFICES ASSUME able # {} PROVE FALSE
  OBVIOUS
<1>1. able \in SUBSET Nat
  <2>1. Candidates(s, n) \subseteq 1..Len(s.entries)
    BY Zenon DEF Candidates
  <2>2. 1..Len(s.entries) \subseteq Nat
    BY CountsAreNat
  <2> QED BY <2>1, <2>2, Zenon
<1>2. First(able) \in able
  BY <1>1, FirstIn
<1>3. Pick(s, n) = First(able)
  BY DEF Pick
<1> QED BY <1>2, <1>3

\* One more node is up, and still every one went to a core that ran if it could.
LEMMA LazyNext ==
  ASSUME NEW w, IsWork(w), Usable([nodes |-> w.nodes]), w.up < Len(w.nodes),
         NEW s, IsSelector(s), LazySoFar(w, s), s.running = Before(w, s, w.up + 1),
         NEW v, v.nodes = w.nodes, v.up = w.up + 1
  PROVE  LET t == Added(s, w.nodes[w.up + 1])
         IN  LazySoFar(v, t) /\ t.running = Before(v, t, v.up + 1)
<1> DEFINE n == w.nodes[w.up + 1]
           t == Added(s, n)
<1>1. w.up \in Nat /\ Len(w.nodes) \in Nat
  BY DEF IsWork, Usable, IsList
<1>2. /\ \A i \in 1..w.up : w.nodes[i].tag # n.tag
      /\ \A i \in 1..Len(w.nodes) : w.nodes[i].tag \in Tag
      /\ w.up + 1 \in 1..Len(w.nodes)
  BY <1>1 DEF Usable, DistinctTags, TagsOf
<1>3. /\ t.entries = s.entries /\ t.running = s.running \cup {Pick(s, n)}
      /\ \A x \in Tag : t.at[x] = IF x = n.tag THEN Pick(s, n) ELSE s.at[x]
  <2> HIDE DEF n
  <2> QED BY AddedEffect
<1>4. t.at[n.tag] = Pick(s, n) /\ \A i \in 1..w.up : t.at[w.nodes[i].tag] = s.at[w.nodes[i].tag]
  BY <1>1, <1>2, <1>3
<1>5. Owning(t) = Owning(s) /\ \A m : Candidates(t, m) = Candidates(s, m)
  BY <1>3 DEF Owning, Candidates
<1> HIDE DEF t
<1>6. ASSUME NEW j \in 1..(w.up + 1) PROVE Before(v, t, j) = Before(w, s, j)
  <2>1. \A i \in 1..j - 1 : i \in 1..w.up
    BY <1>1
  <2>2. \A i \in 1..j - 1 : t.at[v.nodes[i].tag] = s.at[w.nodes[i].tag]
    BY <1>4, <2>1
  <2>3. {t.at[v.nodes[i].tag] : i \in 1..j - 1} = {s.at[w.nodes[i].tag] : i \in 1..j - 1}
    BY <2>2
  <2> QED BY <1>5, <2>3 DEF Before
<1>7. t.running = Before(v, t, v.up + 1)
  <2>1. (v.up + 1) - 1 = w.up + 1 /\ (w.up + 1) - 1 = w.up
    BY <1>1
  <2>2. 1..(w.up + 1) = (1..w.up) \cup {w.up + 1}
    BY <1>1
  <2>3. {t.at[v.nodes[i].tag] : i \in 1..(w.up + 1)} =
           {t.at[v.nodes[i].tag] : i \in 1..w.up} \cup {t.at[v.nodes[w.up + 1].tag]}
    BY <2>2
  <2>4. Before(v, t, v.up + 1) = Before(v, t, w.up + 1) \cup {t.at[n.tag]}
    <3> DEFINE A(k) == {t.at[v.nodes[i].tag] : i \in 1..k}
    <3>1. /\ Before(v, t, v.up + 1) = Owning(t) \cup A((v.up + 1) - 1)
          /\ Before(v, t, w.up + 1) = Owning(t) \cup A((w.up + 1) - 1)
      BY Zenon DEF Before
    <3>2. A((v.up + 1) - 1) = A(w.up + 1) /\ A((w.up + 1) - 1) = A(w.up)
      <4> HIDE DEF A
      <4> QED BY <2>1, Zenon
    <3>3. A(w.up + 1) = A(w.up) \cup {t.at[n.tag]}
      BY <2>3
    <3> HIDE DEF A, n
    <3> QED BY <3>1, <3>2, <3>3
  <2> HIDE DEF n
  <2> QED BY <1>1, <1>3, <1>4, <1>6, <2>4
<1>8. ASSUME NEW j \in 1..v.up, v.nodes[j].coreName = "",
             t.at[v.nodes[j].tag] \notin Before(v, t, j)
      PROVE  Candidates(t, v.nodes[j]) \cap Before(v, t, j) = {}
  <2>1. CASE j = w.up + 1
    <3>1. Before(v, t, j) = s.running /\ v.nodes[j] = n
      BY <1>1, <1>6, <2>1
    <3>2. Pick(s, n) \notin s.running /\ n.coreName = ""
      BY <1>4, <1>8, <3>1
    <3> QED BY <1>5, <3>1, <3>2, PickIsLazy
  <2>2. CASE j \in 1..w.up
    <3>1. Before(v, t, j) = Before(w, s, j)
      BY <1>1, <1>6, <2>2
    <3>2. t.at[v.nodes[j].tag] = s.at[w.nodes[j].tag]
      BY <1>4, <2>2
    <3> QED BY <1>5, <1>8, <2>2, <3>1, <3>2 DEF LazySoFar
  <2> QED BY <1>1, <2>1, <2>2
<1> QED BY <1>7, <1>8 DEF LazySoFar, t

\* A step that is not about the cores
LEMMA LazySame ==
  ASSUME LazyByStage, proc' # "crashed" => proc # "crashed",
         UNCHANGED <<vc, nodes, sel, work, overlapped>>,
         \A g \in Gen : pc'[g] = pc[g] \/ (pc[g] = "none" /\ pc'[g] = "delay")
  PROVE  LazyByStage'
<1>1. \A g \in Gen : Busy(g)' <=> Busy(g)
  BY DEF Busy
<1> QED BY <1>1 DEF LazyByStage

\* Nothing is claimed of the stages in which nodes are closed.
LEMMA LazyElsewhere ==
  ASSUME \A h \in Gen : pc'[h] \notin {"startCore", "startNodes"},
         nodes' = <<>> \/ \E h \in Gen : Busy(h)'
  PROVE  LazyByStage'
BY DEF LazyByStage

\* What runs is what was needed, at every stage of a start.
LEMMA LazyStep ==
  ASSUME Shape, Sole, RunningInUse, ControllersInUse, LazyByStage, [ProcessNext]_vars
  PROVE  LazyByStage'
<1> USE DEF Shape
<1>1. ASSUME NEW c \in Config \cup {NoConf}, NEW b \in BOOLEAN, Write(c, b) PROVE LazyByStage'
  <2>1. /\ UNCHANGED <<vc, nodes, sel, work, overlapped>>
        /\ proc' # "crashed" => proc # "crashed"
        /\ \A g \in Gen : pc'[g] = pc[g] \/ (pc[g] = "none" /\ pc'[g] = "delay")
    BY <1>1 DEF Write, Notify, Ignored, Alive, ProcShape
  <2> HIDE DEF Shape
  <2> QED BY <2>1, LazySame
<1>2. ASSUME WindowOver PROVE LazyByStage'
  <2>1. /\ UNCHANGED <<vc, nodes, sel, work, overlapped>>
        /\ proc' # "crashed" => proc # "crashed"
        /\ \A g \in Gen : pc'[g] = pc[g] \/ (pc[g] = "none" /\ pc'[g] = "delay")
    BY <1>2 DEF WindowOver, Alive
  <2> HIDE DEF Shape
  <2> QED BY <2>1, LazySame
<1>3. ASSUME Signal PROVE LazyByStage'
  <2>1. /\ UNCHANGED <<vc, nodes, sel, work, overlapped>>
        /\ proc' # "crashed" => proc # "crashed"
        /\ \A g \in Gen : pc'[g] = pc[g] \/ (pc[g] = "none" /\ pc'[g] = "delay")
    BY <1>3 DEF Signal
  <2> HIDE DEF Shape
  <2> QED BY <2>1, LazySame
<1>4. ASSUME EditAssets PROVE LazyByStage'
  <2>1. /\ UNCHANGED <<vc, nodes, sel, work, overlapped>>
        /\ proc' # "crashed" => proc # "crashed"
        /\ \A g \in Gen : pc'[g] = pc[g] \/ (pc[g] = "none" /\ pc'[g] = "delay")
    BY <1>4 DEF EditAssets, Notify, ProcShape
  <2> HIDE DEF Shape
  <2> QED BY <2>1, LazySame
<1>5. ASSUME NEW g \in Gen, Load(g) PROVE LazyByStage'
  <2> SUFFICES ASSUME ~overlapped', proc' # "crashed" PROVE LazyByStage'
    BY DEF LazyByStage
  <2>1. \A h \in Gen \ {g} : pc[h] \in {"none", "done", "failed"}
    BY <1>5, LoadAlone
  <2>2. /\ \A h \in Gen : pc'[h] \notin {"startCore", "startNodes"}
        /\ Busy(g)'
    BY <1>5, <2>1 DEF Load, ProcShape, Busy
  <2> QED BY <2>2, LazyElsewhere
<1>6. ASSUME NEW g \in Gen, NodesClose(g) PROVE LazyByStage'
  <2> SUFFICES ASSUME ~overlapped', proc' # "crashed" PROVE LazyByStage'
    BY DEF LazyByStage
  <2>1. ~overlapped /\ proc # "crashed" /\ Busy(g) /\ pc[g] = "closeNodes"
    BY <1>6 DEF NodesClose, CloseController, Crash, Busy, Alive
  <2>2. \A h \in Gen \ {g} : pc[h] \in {"none", "delay", "done", "failed"}
    BY <2>1, OthersIdle
  <2>3. /\ \A h \in Gen : pc'[h] \notin {"startCore", "startNodes"}
        /\ nodes' = <<>> \/ Busy(g)'
    BY <1>6, <2>1, <2>2 DEF NodesClose, CloseController, Crash, ControllersInUse, ProcShape, Busy
  <2> QED BY <2>3, LazyElsewhere
<1>7. ASSUME NEW g \in Gen, NodesClosed(g) PROVE LazyByStage'
  <2> SUFFICES ASSUME ~overlapped', proc' # "crashed" PROVE LazyByStage'
    BY DEF LazyByStage
  <2>1. ~overlapped /\ proc # "crashed" /\ Busy(g) /\ pc[g] = "closeNodes"
    BY <1>7 DEF NodesClosed, Busy, Alive
  <2>2. \A h \in Gen \ {g} : pc[h] \in {"none", "delay", "done", "failed"}
    BY <2>1, OthersIdle
  <2>3. /\ \A h \in Gen : pc'[h] \notin {"startCore", "startNodes"}
        /\ nodes' = <<>> \/ Busy(g)'
    BY <1>7, <2>1, <2>2 DEF NodesClosed, ControllersInUse, ProcShape, Busy
  <2> QED BY <2>3, LazyElsewhere
<1>8. ASSUME NEW g \in Gen, CloseCore(g) PROVE LazyByStage'
  <2> SUFFICES ASSUME ~overlapped', proc' # "crashed" PROVE LazyByStage'
    BY DEF LazyByStage
  <2>1. ~overlapped /\ proc # "crashed" /\ Busy(g) /\ pc[g] = "closeCore"
    BY <1>8 DEF CloseCore, Busy, Alive
  <2>2. \A h \in Gen \ {g} : pc[h] \in {"none", "delay", "done", "failed"}
    BY <2>1, OthersIdle
  <2>3. /\ \A h \in Gen : pc'[h] \notin {"startCore", "startNodes"}
        /\ nodes' = <<>> \/ Busy(g)'
    BY <1>8, <2>1, <2>2 DEF CloseCore, Fails, Crash, ControllersInUse, ProcShape, Busy
  <2> QED BY <2>3, LazyElsewhere
<1>9. ASSUME NEW g \in Gen, NewCore(g) PROVE LazyByStage'
  <2> SUFFICES ASSUME ~overlapped', proc' # "crashed" PROVE LazyByStage'
    BY DEF LazyByStage
  <2>1. ~overlapped /\ proc # "crashed" /\ Busy(g) /\ pc[g] = "newCore"
    BY <1>9 DEF NewCore, Busy, Alive
  <2>2. \A h \in Gen \ {g} : pc[h] \in {"none", "delay", "done", "failed"}
    BY <2>1, OthersIdle
  <2>3. CASE /\ pc' = [pc EXCEPT ![g] = "startCore"] /\ vc' = g
             /\ sel' = [sel EXCEPT ![g] = Fresh(conf.cores)]
    <3>1. sel'[g].running = {} /\ Busy(g)'
      BY <2>3, FreshEffect DEF SelectorShape, Busy, ProcShape
    <3> QED BY <2>1, <2>2, <2>3, <3>1 DEF LazyByStage, ProcShape
  <2>4. CASE pc' = [pc EXCEPT ![g] = "failed"]
    <3>1. \A h \in Gen : pc'[h] \notin {"startCore", "startNodes"}
      BY <2>2, <2>4 DEF ProcShape
    <3>2. nodes' = <<>>
      BY <1>9, <2>1 DEF NewCore, ControllersInUse
    <3> QED BY <3>1, <3>2, LazyElsewhere
  <2> QED BY <1>9, <2>3, <2>4 DEF NewCore, Fails, Fresh
<1>10. ASSUME NEW g \in Gen, StartCore(g) PROVE LazyByStage'
  <2> SUFFICES ASSUME ~overlapped', proc' # "crashed" PROVE LazyByStage'
    BY DEF LazyByStage
  <2>1. ~overlapped /\ proc # "crashed" /\ Busy(g) /\ pc[g] = "startCore"
    BY <1>10 DEF StartCore, Busy, Alive
  <2>2. \A h \in Gen \ {g} : pc[h] \in {"none", "delay", "done", "failed"}
    BY <2>1, OthersIdle
  <2>3. vc = g /\ sel[g].running = {} /\ UNCHANGED <<vc, nodes>> /\ nodes = <<>> /\ g # Nil
    BY <1>10, <2>1 DEF StartCore, LazyByStage, ControllersInUse, Gen, Nil
  <2>4. CASE /\ pc' = [pc EXCEPT ![g] = "startNodes"]
             /\ sel' = [sel EXCEPT ![vc] = Run(@, Owning(sel[vc]))]
             /\ work' = [work EXCEPT ![g] = [nodes |-> conf.nodes, sel |-> vc, up |-> 0]]
    <3> DEFINE t == Run(sel[g], Owning(sel[g]))
    <3>1. /\ t.entries = sel[g].entries /\ t.running = Owning(sel[g])
      <4>1. IsSelector(sel[g])
        BY DEF SelectorShape
      <4>2. t.entries = sel[g].entries /\ t.running = sel[g].running \cup Owning(sel[g])
        BY <4>1, RunEffect
      <4> HIDE DEF t
      <4> QED BY <2>3, <4>2
    <3>2. Owning(t) = Owning(sel[g])
      BY <3>1 DEF Owning
    <3> HIDE DEF t
    <3>3. work'[g].up = 0 /\ sel'[g] = t
      BY <2>3, <2>4 DEF WorkShape, SelectorShape, t
    <3>4. 1..(0 + 1) - 1 = {} /\ 1..0 = {}
      OBVIOUS
    <3>5. LazySoFar(work'[g], sel'[g])
      BY <3>3, <3>4 DEF LazySoFar
    <3>6. sel'[g].running = Before(work'[g], sel'[g], work'[g].up + 1)
      BY <3>1, <3>2, <3>3, <3>4 DEF Before
    <3>7. Busy(g)'
      BY <2>4 DEF Busy, ProcShape
    <3> QED BY <2>2, <2>3, <2>4, <3>5, <3>6, <3>7 DEF LazyByStage, ProcShape
  <2>5. CASE pc' = [pc EXCEPT ![g] = "failed"]
    <3>1. \A h \in Gen : pc'[h] \notin {"startCore", "startNodes"}
      BY <2>2, <2>5 DEF ProcShape
    <3> QED BY <2>3, <3>1, LazyElsewhere
  <2> QED BY <1>10, <2>3, <2>4, <2>5, StartCoreEffect DEF Crash, Fails
<1>11. ASSUME NEW g \in Gen, StartController(g) PROVE LazyByStage'
  <2> SUFFICES ASSUME ~overlapped', proc' # "crashed" PROVE LazyByStage'
    BY DEF LazyByStage
  <2>1. ~overlapped /\ proc # "crashed" /\ Busy(g) /\ pc[g] = "startNodes"
    BY <1>11 DEF StartController, Busy, Alive
  <2>2. \A h \in Gen \ {g} : pc[h] \in {"none", "delay", "done", "failed"}
    BY <2>1, OthersIdle
  <2> DEFINE w == work[g]
             n == w.nodes[w.up + 1]
             s == sel[g]
  <2>3. /\ vc = g /\ UNCHANGED vc /\ w.sel = g /\ IsWork(w) /\ Usable([nodes |-> w.nodes])
        /\ w.up < Len(w.nodes) /\ IsSelector(s)
        /\ LazySoFar(w, s) /\ s.running = Before(w, s, w.up + 1)
    BY <1>11, <2>1 DEF StartController, RunningInUse, LazyByStage, WorkShape, SelectorShape
  <2>4. CASE /\ sel' = [sel EXCEPT ![g] = Added(s, n)]
             /\ work' = [work EXCEPT ![g].up = @ + 1]
             /\ UNCHANGED pc
    <3>1. work'[g].nodes = w.nodes /\ work'[g].up = w.up + 1
      BY <2>3, <2>4 DEF IsWork, WorkShape
    <3>2. sel'[g] = Added(s, n)
      BY <2>4 DEF SelectorShape
    <3>3. /\ LazySoFar(work'[g], sel'[g])
          /\ sel'[g].running = Before(work'[g], sel'[g], work'[g].up + 1)
      <4> HIDE DEF w, s
      <4> QED BY <2>3, <3>1, <3>2, LazyNext
    <3>4. Busy(g)'
      BY <2>1, <2>4 DEF Busy
    <3> QED BY <2>1, <2>2, <2>3, <2>4, <3>3, <3>4 DEF LazyByStage
  <2>5. CASE pc' = [pc EXCEPT ![g] = "undo"]
    <3>1. /\ \A h \in Gen : pc'[h] \notin {"startCore", "startNodes"}
          /\ Busy(g)'
      BY <2>2, <2>5 DEF ProcShape, Busy
    <3> QED BY <3>1, LazyElsewhere
  <2> QED BY <1>11, <2>3, <2>4, <2>5, StartControllerEffect DEF Crash, Gen
<1>12. ASSUME NEW g \in Gen, UndoStart(g) PROVE LazyByStage'
  <2> SUFFICES ASSUME ~overlapped', proc' # "crashed" PROVE LazyByStage'
    BY DEF LazyByStage
  <2>1. ~overlapped /\ proc # "crashed" /\ Busy(g) /\ pc[g] = "undo"
    BY <1>12 DEF UndoStart, CloseController, Crash, Busy, Alive
  <2>2. \A h \in Gen \ {g} : pc[h] \in {"none", "delay", "done", "failed"}
    BY <2>1, OthersIdle
  <2>3. /\ \A h \in Gen : pc'[h] \notin {"startCore", "startNodes"}
        /\ nodes' = <<>> \/ Busy(g)'
    BY <1>12, <2>1, <2>2 DEF UndoStart, CloseController, Crash, ControllersInUse, ProcShape, Busy
  <2> QED BY <2>3, LazyElsewhere
<1>13. ASSUME NEW g \in Gen, StartUndone(g) PROVE LazyByStage'
  <2> SUFFICES ASSUME ~overlapped', proc' # "crashed" PROVE LazyByStage'
    BY DEF LazyByStage
  <2>1. ~overlapped /\ proc # "crashed" /\ Busy(g) /\ pc[g] = "undo"
    BY <1>13 DEF StartUndone, Busy, Alive
  <2>2. \A h \in Gen \ {g} : pc[h] \in {"none", "delay", "done", "failed"}
    BY <2>1, OthersIdle
  <2>3. /\ \A h \in Gen : pc'[h] \notin {"startCore", "startNodes"}
        /\ nodes' = <<>> \/ Busy(g)'
    BY <1>13, <2>1, <2>2 DEF StartUndone, Fails, ControllersInUse, ProcShape, Busy
  <2> QED BY <2>3, LazyElsewhere
<1>14. ASSUME NEW g \in Gen, NodesStarted(g) PROVE LazyByStage'
  <2> SUFFICES ASSUME ~overlapped', proc' # "crashed" PROVE LazyByStage'
    BY DEF LazyByStage
  <2>1. ~overlapped /\ proc # "crashed" /\ Busy(g) /\ pc[g] = "startNodes"
    BY <1>14 DEF NodesStarted, Busy, Alive
  <2>2. \A h \in Gen \ {g} : pc[h] \in {"none", "delay", "done", "failed"}
    BY <2>1, OthersIdle
  <2>3. vc = g /\ LazySoFar(work[g], sel[g]) /\ UNCHANGED <<vc, work, sel>>
    BY <1>14, <2>1 DEF NodesStarted, LazyByStage
  <2>4. \A h \in Gen : pc'[h] \notin {"startCore", "startNodes"}
    BY <1>14, <2>2 DEF NodesStarted, ProcShape
  <2> QED BY <2>3, <2>4 DEF LazyByStage
<1>15. ASSUME NEW c, Usable(c), RunServer(c) PROVE LazyByStage'
  <2>1. /\ UNCHANGED <<vc, nodes, sel, work, overlapped>>
        /\ proc' # "crashed" => proc # "crashed"
        /\ \A g \in Gen : pc'[g] = pc[g] \/ (pc[g] = "none" /\ pc'[g] = "delay")
    BY <1>15 DEF RunServer
  <2> HIDE DEF Shape
  <2> QED BY <2>1, LazySame
<1>16. CASE UNCHANGED vars
  <2>1. /\ UNCHANGED <<vc, nodes, sel, work, overlapped>>
        /\ proc' # "crashed" => proc # "crashed"
        /\ \A g \in Gen : pc'[g] = pc[g] \/ (pc[g] = "none" /\ pc'[g] = "delay")
    BY <1>16 DEF vars
  <2> HIDE DEF Shape
  <2> QED BY <2>1, LazySame
<1> HIDE DEF Shape
<1> QED
  BY <1>1, <1>2, <1>3, <1>4, <1>5, <1>6, <1>7, <1>8, <1>9, <1>10, <1>11, <1>12, <1>13,
     <1>14, <1>15, <1>16
  DEF ProcessNext, Running, Step

\* What a reload closes was not closed before.
LEMMA CrashStep ==
  ASSUME Shape, ControllersInUse, ClosingIsSafe, [ProcessNext]_vars
  PROVE  ClosingIsSafe'
<1> USE DEF ClosingIsSafe
<1>1. ASSUME NEW c \in Config \cup {NoConf}, NEW b \in BOOLEAN, Write(c, b) PROVE ClosingIsSafe'
  BY <1>1 DEF Write, Notify, Ignored, Alive
<1>2. ASSUME WindowOver PROVE ClosingIsSafe'
  BY <1>2 DEF WindowOver, Alive
<1>3. ASSUME Signal PROVE ClosingIsSafe'
  BY <1>3 DEF Signal, Alive
<1>4. ASSUME EditAssets PROVE ClosingIsSafe'
  BY <1>4 DEF EditAssets, Notify, OneMoreFails, Alive
<1>5. ASSUME NEW g \in Gen, Load(g) PROVE ClosingIsSafe'
  BY <1>5 DEF Load, Alive
<1>6. ASSUME NEW g \in Gen, NodesClose(g) PROVE ClosingIsSafe'
  <2>1. CASE overlapped
    BY <1>6, <2>1 DEF NodesClose, CloseController, Crash
  <2>2. CASE ~overlapped
    <3>1. CloseController(g) /\ InUse(todo[g])
      BY <1>6, <2>2 DEF NodesClose, CloseController, ControllersInUse
    <3>2. UNCHANGED cause
      BY <3>1, CloseInUse
    <3> QED BY <2>2, <3>2
  <2> QED BY <2>1, <2>2
<1>7. ASSUME NEW g \in Gen, NodesClosed(g) PROVE ClosingIsSafe'
  BY <1>7 DEF NodesClosed, Alive
<1>8. ASSUME NEW g \in Gen, CloseCore(g) PROVE ClosingIsSafe'
  BY <1>8 DEF CloseCore, Crash, Fails, OneMoreFails, Alive
<1>9. ASSUME NEW g \in Gen, NewCore(g) PROVE ClosingIsSafe'
  BY <1>9 DEF NewCore, Fails, Alive
<1>10. ASSUME NEW g \in Gen, StartCore(g) PROVE ClosingIsSafe'
  BY <1>10, StartCoreEffect DEF Alive, Fails, Crash
<1>11. ASSUME NEW g \in Gen, StartController(g) PROVE ClosingIsSafe'
  <2>1. cause' \in {cause, "create", "addNode"}
    BY <1>11 DEF StartController, Crash
  <2> QED BY <1>11, <2>1 DEF StartController
<1>12. ASSUME NEW g \in Gen, UndoStart(g) PROVE ClosingIsSafe'
  <2>1. CASE overlapped
    BY <1>12, <2>1 DEF UndoStart, CloseController, Crash
  <2>2. CASE ~overlapped
    <3>1. CloseController(g) /\ InUse(todo[g])
      BY <1>12, <2>2 DEF UndoStart, CloseController, ControllersInUse
    <3>2. UNCHANGED cause
      BY <3>1, CloseInUse
    <3> QED BY <2>2, <3>2
  <2> QED BY <2>1, <2>2
<1>13. ASSUME NEW g \in Gen, StartUndone(g) PROVE ClosingIsSafe'
  BY <1>13 DEF StartUndone, Fails, Alive
<1>14. ASSUME NEW g \in Gen, NodesStarted(g) PROVE ClosingIsSafe'
  BY <1>14 DEF NodesStarted, Alive
<1>15. ASSUME NEW c, Usable(c), RunServer(c) PROVE ClosingIsSafe'
  BY <1>15 DEF RunServer, Alive
<1>16. CASE UNCHANGED vars
  BY <1>16 DEF vars
<1> QED
  BY <1>1, <1>2, <1>3, <1>4, <1>5, <1>6, <1>7, <1>8, <1>9, <1>10, <1>11, <1>12, <1>13,
     <1>14, <1>15, <1>16
  DEF ProcessNext, Running, Step

\* A step of the process keeps everything it relies on.
LEMMA ServerStep ==
  ASSUME ServerInv, [ProcessNext]_vars
  PROVE  ServerInv'
BY ShapeStep, SoleStep, RunningStep, ControllersStep, RegisteredStep, LazyStep,
   CrashStep
DEF ServerInv

\* Where it starts
LEMMA ServerInit ==
  ASSUME Init
  PROVE  ServerInv
<1>1. 1 \in Gen /\ Usable(NoConf)
  BY ConfigUsable, ServerAssumption DEF ServerAssumption, Gen
<1>2. ProcShape
  BY <1>1 DEF Init, ProcShape
<1>3. SelectorShape
  BY DEF Init, SelectorShape, IsSelector, NoSelector
<1>4. WorkShape
  <2>1. <<>> \in Seq(Controller)
    OBVIOUS
  <2>2. todo \in [Gen -> Seq(Controller)] /\ nodes \in Seq(Controller)
    BY <2>1 DEF Init
  <2>3. \A g \in Gen : IsWork(work[g]) /\ pc[g] # "startNodes"
    BY DEF Init, IsWork
  <2> QED BY <2>2, <2>3 DEF Init, WorkShape
<1>5. Sole
  BY DEF Init, Sole, Busy
<1>6. RunningInUse
  BY DEF Init, RunningInUse, NoSelector
<1>7. ControllersInUse
  <2>1. nodes = <<>> /\ \A g \in Gen : pc[g] \in {"newCore", "none"}
    BY DEF Init
  <2>2. InUse(nodes)
    BY <2>1 DEF InUse
  <2> QED BY <2>1, <2>2 DEF ControllersInUse
<1>8. RegisteredByStage
  BY <1>1 DEF Init, RegisteredByStage, Busy
<1>9. ClosingIsSafe /\ LazyByStage
  BY <1>1 DEF Init, ClosingIsSafe, LazyByStage, Busy
<1> QED BY <1>2, <1>3, <1>4, <1>5, <1>6, <1>7, <1>8, <1>9 DEF ServerInv, Shape

-----------------------------------------------------------------------------
(* With the split command *)

\* The configuration of one node can be used if the whole one can.
LEMMA FileUsable ==
  ASSUME Usable(source), run.at \in 1..Len(source.nodes)
  PROVE  Usable(File.conf)
<1>1. File.conf.nodes = <<source.nodes[run.at]>>
  BY DEF File, BuildSplitConfig
<1>2. source.nodes[run.at].tag \in Tag
  BY DEF Usable, TagsOf
<1> QED BY <1>1, <1>2 DEF Usable, TagsOf, IsList, DistinctTags

\* The split command writes what can be used.
LEMMA SplitStep ==
  ASSUME SplitUsable, SplitNext
  PROVE  SplitUsable'
<1>1. ASSUME NEW force \in BOOLEAN, RunSplit(force) PROVE SplitUsable'
  <2>1. source.nodes # <<>> => 1 \in 1..Len(source.nodes)
    BY DEF SplitUsable, Usable, IsList
  <2>2. IsRun(run') /\ run'.at = 1 /\ (run'.state = "running" => source.nodes # <<>>)
    BY <1>1 DEF RunSplit, NoRun, IsRun
  <2> QED BY <1>1, <2>1, <2>2 DEF RunSplit, SplitUsable
<1>2. CASE CheckSplitFile
  BY <1>2 DEF CheckSplitFile, SplitUsable, Ends, IsRun
<1>3. CASE CopySplitFile
  BY <1>3 DEF CopySplitFile, SplitUsable, IsRun
<1>4. CASE WriteSplitFile
  <2> DEFINE f == [path |-> File.path, conf |-> File.conf]
  <2>1. Usable(f.conf) /\ configs' = Put(configs, f) /\ UNCHANGED source
    BY <1>4, FileUsable DEF WriteSplitFile, SplitUsable
  <2> HIDE DEF f
  <2>2. \A e \in configs' : Usable(e.conf)
    BY <2>1 DEF Put, SplitUsable
  <2>3. /\ IsRun(run')
        /\ (run'.state = "running" => run'.at = run.at + 1 /\ run.at # Len(source.nodes))
    BY <1>4 DEF WriteSplitFile, SplitUsable, Ends, IsRun
  <2>4. run'.state = "running" => run'.at \in 1..Len(source.nodes)
    <3>1. Len(source.nodes) \in Nat /\ run.at \in 1..Len(source.nodes)
      BY <1>4 DEF WriteSplitFile, SplitUsable, Usable, IsList
    <3> QED BY <2>3, <3>1
  <2> QED BY <2>1, <2>2, <2>3, <2>4 DEF SplitUsable
<1>5. CASE SplitFails
  <2> DEFINE f == [path |-> File.path, conf |-> NoConf]
  <2>1. Usable(f.conf) /\ configs' \in {configs, Put(configs, f)} /\ UNCHANGED source
    BY <1>5, ConfigUsable DEF SplitFails
  <2> HIDE DEF f
  <2>2. \A e \in configs' : Usable(e.conf)
    BY <2>1 DEF Put, SplitUsable
  <2>3. IsRun(run') /\ run'.state = "failed"
    BY <1>5 DEF SplitFails, SplitUsable, IsRun
  <2> QED BY <2>1, <2>2, <2>3 DEF SplitUsable
<1> QED BY <1>1, <1>2, <1>3, <1>4, <1>5 DEF SplitNext

\* SystemInv is inductive.
LEMMA SystemInvariant == SystemSpec => []SystemInv
<1>1. SystemInit => SystemInv
  <2> SUFFICES ASSUME SystemInit PROVE SystemInv
    OBVIOUS
  <2>1. ServerInv
    BY ServerInit DEF SystemInit
  <2>2. SplitUsable
    BY SourceAssumption DEF SourceAssumption, SystemInit, SplitInit, SplitUsable, Usable,
         NoRun, IsRun
  <2> QED BY <2>1, <2>2 DEF SystemInv
<1>2. SystemInv /\ [System]_systemVars => SystemInv'
  <2> SUFFICES ASSUME SystemInv, [System]_systemVars PROVE SystemInv'
    OBVIOUS
  <2>1. CASE Split
    <3>1. [ProcessNext]_vars
      BY <2>1 DEF Split
    <3>2. SplitUsable'
      BY <2>1, SplitStep DEF Split, SystemInv
    <3> QED BY <3>1, <3>2, ServerStep DEF SystemInv
  <2>2. CASE Boot
    <3>1. Usable(NoConf)
      BY ConfigUsable
    <3>2. ProcessNext
      BY <2>2, <3>1 DEF Boot, ProcessNext, SystemInv, SplitUsable
    <3>3. SplitUsable'
      BY <2>2, <3>1 DEF Boot, SplitUsable, NoRun, IsRun
    <3> QED BY <3>2, <3>3, ServerStep DEF SystemInv
  <2>3. CASE Running /\ UNCHANGED splitVars
    <3>1. ProcessNext
      BY <2>3 DEF ProcessNext
    <3>2. SplitUsable'
      BY <2>3 DEF splitVars, SplitUsable, SystemInv
    <3> QED BY <3>1, <3>2, ServerStep DEF SystemInv
  <2>4. CASE UNCHANGED systemVars
    <3>1. UNCHANGED vars /\ UNCHANGED splitVars
      BY <2>4 DEF systemVars
    <3>2. SplitUsable'
      BY <3>1 DEF splitVars, SplitUsable, SystemInv
    <3> QED BY <3>1, <3>2, ServerStep DEF SystemInv
  <2> QED BY <2>1, <2>2, <2>3, <2>4 DEF System
<1> QED BY <1>1, <1>2, PTL DEF SystemSpec

\* No core of a Selector that was replaced runs on: reload closes vc before NewCore
\* makes another, whichever step of it fails (cmd/server.go, selector.go).
THEOREM OldCoresAlwaysClosed == SystemSpec => []OneSelectorRuns
<1>1. SystemInv => OneSelectorRuns
  BY DEF SystemInv, ServerInv, RunningInUse, OneSelectorRuns
<1> QED BY <1>1, SystemInvariant, PTL

\* Node.Close never deletes a node of a core that is closed, so that closing does not
\* take the process down (node.go, cmd/server.go): the other crashes come from making a
\* core or adding a node.
THEOREM ClosingAlwaysSafe == SystemSpec => []ClosingIsSafe
<1>1. SystemInv => ClosingIsSafe
  BY DEF SystemInv, ServerInv
<1> QED BY <1>1, SystemInvariant, PTL

\* A reload that is over has left every node of the file served, limited and known to
\* Node.Close, or none of anything, whichever step failed (node.go, Node.Start).
THEOREM AlwaysAllOrNothing == SystemSpec => []AllOrNothing
<1>1. SystemInv => AllOrNothing
  <2> SUFFICES ASSUME SystemInv, Quiet, ~overlapped PROVE AllOrNothing
    BY DEF AllOrNothing
  <2>1. proc # "crashed" /\ \A g \in Gen : ~Busy(g)
    BY DEF Quiet, Active, Busy
  <2>2. Complete \/ Nothing
    BY <2>1 DEF SystemInv, ServerInv, RegisteredByStage
  <2>3. \A i \in 1..Len(nodes) : nodes[i].sel = vc
    BY DEF SystemInv, ServerInv, ControllersInUse, InUse
  <2> QED BY <2>2, <2>3 DEF AllOrNothing, Complete, Nothing, TagsIn
<1> QED BY <1>1, SystemInvariant, PTL

\* A node that names no core never brings up a second one: it is put on a core that runs,
\* for its own inbounds or for an earlier node, if it can be (selector.go, pickLocked).
THEOREM CoresAlwaysLazy == SystemSpec => []LazyCores
<1>1. SystemInv => LazyCores
  <2> SUFFICES ASSUME SystemInv, Quiet, ~overlapped, nodes # <<>> PROVE LazyCores
    BY DEF LazyCores
  <2> DEFINE w == work[vc]
             s == sel[vc]
             on == [i \in 1..w.up |-> s.at[w.nodes[i].tag]]
  <2>1. proc # "crashed" /\ \A g \in Gen : ~Busy(g)
    BY DEF Quiet, Active, Busy
  <2>2. LazySoFar(w, s)
    BY <2>1 DEF SystemInv, ServerInv, LazyByStage
  <2>3. w.up \in Nat
    BY DEF SystemInv, ServerInv, Shape, WorkShape, ProcShape, ControllersInUse, InUse, IsWork
  <2> HIDE DEF w, s
  <2>4. ASSUME NEW j \in DOMAIN on
        PROVE  LET before == Owning(s) \cup {on[i] : i \in 1..j - 1}
               IN  w.nodes[j].coreName = "" /\ on[j] \notin before =>
                       Candidates(s, w.nodes[j]) \cap before = {}
    <3>1. j \in 1..w.up /\ \A i \in 1..j - 1 : i \in 1..w.up
      BY <2>3
    <3>2. on[j] = s.at[w.nodes[j].tag] /\ \A i \in 1..j - 1 : on[i] = s.at[w.nodes[i].tag]
      BY <3>1
    <3>3. {on[i] : i \in 1..j - 1} = {s.at[w.nodes[i].tag] : i \in 1..j - 1}
      BY <3>2
    <3>4. Owning(s) \cup {on[i] : i \in 1..j - 1} = Before(w, s, j)
      BY <3>3 DEF Before
    <3> QED BY <2>2, <3>1, <3>2, <3>4 DEF LazySoFar
  <2> QED BY <2>4 DEF LazyCores, w, s
<1> QED BY <1>1, SystemInvariant, PTL

-----------------------------------------------------------------------------
(* Lists and the places in them *)

\* How many of the places are not after i
Rank(places, i) == Cardinality({j \in places : j <= i})

\* The ranks of the places are 1, 2, ... in their order.
LEMMA RankGrows ==
  ASSUME NEW n \in Nat, NEW places \in SUBSET (1..n)
  PROVE  /\ IsFiniteSet(places) /\ Cardinality(places) \in Nat
         /\ \A i \in places : Rank(places, i) \in 1..i /\ Rank(places, i) <= Cardinality(places)
         /\ \A i, j \in places : i < j => Rank(places, i) < Rank(places, j)
<1> DEFINE Below(i) == {j \in places : j <= i}
<1>0. \A i \in places : i \in Nat /\ 1 <= i
  OBVIOUS
<1>1. IsFiniteSet(places) /\ Cardinality(places) \in Nat
  <2>1. IsFiniteSet(1..n)
    BY FS_Interval
  <2>2. IsFiniteSet(places)
    BY <2>1, FS_Subset
  <2> QED BY <2>2, FS_CardinalityType
<1>2. ASSUME NEW i \in places
      PROVE  /\ Below(i) \in SUBSET places /\ IsFiniteSet(Below(i)) /\ Rank(places, i) \in Nat
             /\ Rank(places, i) = Cardinality(Below(i))
  BY <1>1, FS_Subset, FS_CardinalityType DEF Rank
<1>3. ASSUME NEW i \in places
      PROVE  Rank(places, i) \in 1..i /\ Rank(places, i) <= Cardinality(places)
  <2>1. Rank(places, i) <= Cardinality(places)
    BY <1>1, <1>2, FS_Subset
  <2>2. Rank(places, i) # 0
    <3>1. i \in Below(i)
      OBVIOUS
    <3> HIDE DEF Below
    <3> QED BY <1>2, <3>1, FS_EmptySet
  <2>3. Rank(places, i) <= i
    <3>1. Below(i) \in SUBSET (1..i) /\ i \in Nat
      <4>1. i \in Nat /\ \A j \in Below(i) : j \in Nat /\ 1 <= j /\ j <= i
        BY <1>0
      <4>2. \A j \in Below(i) : j \in 1..i
        BY <4>1
      <4> HIDE DEF Below
      <4> QED BY <4>1, <4>2
    <3>2. IsFiniteSet(1..i) /\ Cardinality(1..i) = i
      BY <3>1, FS_Interval
    <3> HIDE DEF Below
    <3>3. Cardinality(Below(i)) <= Cardinality(1..i)
      BY <3>1, <3>2, FS_Subset
    <3> QED BY <1>2, <3>2, <3>3
  <2>4. Rank(places, i) \in Nat /\ i \in Nat
    BY <1>0, <1>2
  <2> QED BY <2>1, <2>2, <2>3, <2>4
<1>4. ASSUME NEW i \in places, NEW j \in places, i < j
      PROVE  Rank(places, i) < Rank(places, j)
  <2>1. Below(i) \cup {j} \in SUBSET Below(j) /\ j \notin Below(i)
    <3>1. i \in Nat /\ j \in Nat /\ i < j
      BY <1>0, <1>4
    <3>2. \A k \in Below(i) : k \in Nat /\ k <= j
      BY <1>0, <3>1
    <3>3. j \in Below(j) /\ j \notin Below(i) /\ \A k \in Below(i) : k \in Below(j)
      BY <3>1, <3>2
    <3> HIDE DEF Below
    <3> QED BY <3>3
  <2> HIDE DEF Below
  <2>2. Cardinality(Below(i) \cup {j}) = Cardinality(Below(i)) + 1
    BY <1>2, <2>1, FS_AddElement
  <2>3. Cardinality(Below(i) \cup {j}) <= Cardinality(Below(j))
    BY <1>2, <2>1, FS_Subset
  <2> QED BY <1>2, <2>2, <2>3
<1> QED BY <1>1, <1>3, <1>4

\* The place that each entry of a Sublist is from: every one once, the first one first
Takes(p, list, places) ==
    LET c == Cardinality(places)
    IN  /\ c \in Nat /\ (c = 0 <=> places = {})
        /\ p \in [1..c -> places]
        /\ Sublist(list, places) = [k \in 1..c |-> list[p[k]]]
        /\ \A k, l \in 1..c : p[k] = p[l] => k = l
        /\ c # 0 => \A i \in places : p[1] <= i

\* A list of some entries of a list has each of them once.
LEMMA SublistPlaces ==
  ASSUME NEW n \in Nat, NEW places \in SUBSET (1..n), NEW list
  PROVE  \E p : Takes(p, list, places)
<1> DEFINE c == Cardinality(places)
           Place(k) == CHOOSE i \in places : Rank(places, i) = k
           p == [k \in 1..c |-> Place(k)]
           r == [i \in places |-> Rank(places, i)]
<1>0. /\ IsFiniteSet(places) /\ c \in Nat
      /\ \A i \in places : Rank(places, i) \in 1..i /\ Rank(places, i) <= c
      /\ \A i, j \in places : i < j => Rank(places, i) < Rank(places, j)
  BY RankGrows
<1>1. c \in Nat /\ IsFiniteSet(places) /\ IsFiniteSet(1..c) /\ Cardinality(1..c) = c
  <2> HIDE DEF c
  <2> QED BY <1>0, FS_Interval
<1>a. \A i \in places : i \in Nat
  OBVIOUS
<1>2. c = 0 <=> places = {}
  BY <1>1, FS_EmptySet
<1>3. r \in Injection(places, 1..c)
  <2>1. \A i \in places : Rank(places, i) \in 1..c
    <3> HIDE DEF c
    <3> QED BY <1>0, <1>a
  <2>2. \A i, j \in places : Rank(places, i) = Rank(places, j) => i = j
    <3> SUFFICES ASSUME NEW i \in places, NEW j \in places, i # j
                 PROVE  Rank(places, i) # Rank(places, j)
      OBVIOUS
    <3>1. (i < j \/ j < i) /\ i \in Nat /\ j \in Nat
      OBVIOUS
    <3>2. Rank(places, i) \in Nat /\ Rank(places, j) \in Nat
      BY <2>1
    <3> HIDE DEF c
    <3> QED BY <1>0, <3>1, <3>2
  <2> QED BY <2>1, <2>2 DEF Injection, IsInjective
<1>4. r \in Surjection(places, 1..c)
  BY <1>1, <1>3, FS_Injection
<1>5. \A k \in 1..c : Place(k) \in places /\ Rank(places, Place(k)) = k
  <2>1. \A k \in 1..c : \E i \in places : Rank(places, i) = k
    BY <1>4 DEF Surjection
  <2> QED BY <2>1
<1>6. Sublist(list, places) = [k \in 1..c |-> list[p[k]]]
  BY DEF Sublist, Rank
<1> HIDE DEF Place
<1>7. p \in [1..c -> places] /\ \A k, l \in 1..c : p[k] = p[l] => k = l
  BY <1>5
<1>8. c # 0 => \A i \in places : p[1] <= i
  <2> SUFFICES ASSUME c # 0, NEW i \in places PROVE p[1] <= i
    OBVIOUS
  <2>1. 1 \in 1..c
    BY <1>1
  <2>2. p[1] \in places /\ Rank(places, p[1]) = 1
    BY <1>5, <2>1
  <2>3. p[1] \in Nat /\ i \in Nat /\ Rank(places, i) \in Nat \ {0}
    <3> HIDE DEF p, c
    <3>1. i \in Nat /\ p[1] \in Nat /\ Rank(places, i) \in 1..i
      BY <1>0, <1>a, <2>2
    <3> QED BY <3>1
  <2> HIDE DEF p, c
  <2>4. ~(i < p[1])
    BY <1>0, <2>2, <2>3
  <2> QED BY <2>3, <2>4
<1> HIDE DEF p, c
<1>9. Takes(p, list, places)
  BY <1>1, <1>2, <1>6, <1>7, <1>8 DEF c, Takes
<1> QED BY <1>9

-----------------------------------------------------------------------------
(* The core of a node, before and after a split *)

\* The places of the cores a node may be put on when none runs
Fitting(cores, n) ==
    IF n.coreName # "" THEN {e \in 1..Len(cores) : cores[e].key = n.coreName}
    ELSE {e \in 1..Len(cores) : IF n.core = "" THEN n.type \in Protocols(ToLower(cores[e].typ))
                                ELSE n.core = ToLower(cores[e].typ)}

\* pickLocked of a new Selector: the first of them.
LEMMA KeyIsFirst ==
  ASSUME NEW cores, NEW n
  PROVE  KeyOf(cores, n) =
            IF Fitting(cores, n) = {} THEN "none" ELSE cores[First(Fitting(cores, n))].key
<1> DEFINE s == [NoSelector EXCEPT !.entries = cores]
           S == Fitting(cores, n)
<1>1. s.entries = cores /\ s.running = {}
  BY DEF NoSelector
<1>2. KeyOf(cores, n) = IF Pick(s, n) = 0 THEN "none" ELSE cores[Pick(s, n)].key
  BY DEF KeyOf
<1> HIDE DEF s
<1>3. Pick(s, n) = IF S = {} THEN 0 ELSE First(S)
  <2>1. CASE n.coreName # ""
    BY <1>1, <2>1 DEF Pick, Fitting
  <2>2. CASE n.coreName = ""
    <3>1. Candidates(s, n) = S
      BY <1>1, <2>2 DEF Candidates, Fitting
    <3>2. Candidates(s, n) \cap s.running = {}
      BY <1>1
    <3> QED BY <2>2, <3>1, <3>2 DEF Pick
  <2> QED BY <2>1, <2>2
<1>4. S # {} => First(S) # 0
  <2>1. S \subseteq 1..Len(cores)
    BY Zenon DEF Fitting
  <2>2. 1..Len(cores) \subseteq Nat /\ 0 \notin 1..Len(cores)
    OBVIOUS
  <2> HIDE DEF S
  <2>3. S \in SUBSET Nat /\ 0 \notin S
    BY <2>1, <2>2, Zenon
  <2> QED BY <2>3, FirstIn
<1> HIDE DEF S
<1> QED BY <1>2, <1>3, <1>4 DEF S

\* The DNS file of a core does not matter.
LEMMA KeyOfSame ==
  ASSUME NEW cores \in Seq(CoreConfig), NEW copies,
         Len(copies) = Len(cores),
         \A e \in 1..Len(cores) : copies[e].key = cores[e].key /\ copies[e].typ = cores[e].typ,
         NEW n
  PROVE  KeyOf(copies, n) = KeyOf(cores, n)
<1>1. Fitting(copies, n) = Fitting(cores, n)
  BY DEF Fitting
<1>2. ASSUME Fitting(cores, n) # {}
      PROVE  First(Fitting(cores, n)) \in 1..Len(cores)
  <2>1. Fitting(cores, n) \subseteq 1..Len(cores)
    BY Zenon DEF Fitting
  <2>2. 1..Len(cores) \subseteq Nat
    OBVIOUS
  <2>3. Fitting(cores, n) \in SUBSET Nat
    BY <2>1, <2>2, Zenon
  <2> QED BY <1>2, <2>1, <2>3, FirstIn
<1> QED BY <1>1, <1>2, KeyIsFirst

\* A type in lower case stays as it is.
LEMMA LowerOnce ==
  ASSUME NEW s
  PROVE  ToLower(ToLower(s)) = ToLower(s)
BY DEF ToLower, MixedCase

\* splitNodeCores keeps the core that the Selector picks, and the first in its place.
LEMMA SplitKeepsFirst ==
  ASSUME NEW cores \in Seq(CoreConfig), NEW n, Picked(n, cores) # {}
  PROVE  /\ MatchingCores(n, cores) \in Seq(CoreConfig)
         /\ KeyOf(MatchingCores(n, cores), n) = KeyOf(cores, n)
<1> DEFINE P == Picked(n, cores)
           c == Cardinality(P)
           M == MatchingCores(n, cores)
<1>1. Len(cores) \in Nat /\ DOMAIN cores = 1..Len(cores)
  OBVIOUS
<1>2. P \in SUBSET (1..Len(cores))
  BY <1>1 DEF Picked
<1>3. PICK p : Takes(p, cores, P)
  BY <1>1, <1>2, SublistPlaces
<1>4. /\ c \in Nat /\ c # 0 /\ p \in [1..c -> P]
      /\ M = [k \in 1..c |-> cores[p[k]]] /\ \A i \in P : p[1] <= i
  <2>1. M = Sublist(cores, P) /\ P # {}
    BY DEF MatchingCores
  <2> HIDE DEF P, M
  <2> QED BY <1>3, <2>1 DEF Takes
<1> HIDE DEF c, M
<1>5. M \in Seq(CoreConfig) /\ Len(M) = c /\ \A k \in 1..c : M[k] = cores[p[k]] /\ p[k] \in P
  <2>1. \A k \in 1..c : p[k] \in P /\ cores[p[k]] \in CoreConfig
    BY <1>1, <1>2, <1>4
  <2> HIDE DEF P
  <2> QED BY <1>4, <2>1
<1>6. 1 \in 1..c
  BY <1>4
<1>7. \/ Fitting(cores, n) = P /\ Fitting(M, n) = 1..c
      \/ Fitting(cores, n) = {} /\ Fitting(M, n) = {}
  <2>1. \A e \in P : IF n.coreName # "" THEN cores[e].key = n.coreName
                     ELSE n.core # "" /\ ToLower(cores[e].typ) = ToLower(n.core)
    BY DEF Picked, EqualFold
  <2>2. n.coreName # "" \/ n.core # ""
    BY <1>5, <1>6, <2>1
  <2>3. \A k \in 1..c : IF n.coreName # "" THEN M[k].key = n.coreName
                        ELSE n.core # "" /\ ToLower(M[k].typ) = ToLower(n.core)
    <3> TAKE k \in 1..c
    <3> HIDE DEF P
    <3>1. M[k] = cores[p[k]] /\ p[k] \in P
      BY <1>5
    <3> QED BY <2>1, <3>1
  <2>4. CASE n.coreName # "" \/ ToLower(n.core) = n.core
    <3>1. Fitting(cores, n) = P
      BY <1>1, <2>2, <2>4 DEF Fitting, Picked, EqualFold
    <3>2. Fitting(M, n) = 1..c
      <4> HIDE DEF P
      <4> QED BY <1>5, <2>2, <2>3, <2>4 DEF Fitting
    <3> QED BY <3>1, <3>2
  <2>5. CASE n.coreName = "" /\ ToLower(n.core) # n.core
    <3>1. \A t : ToLower(t) # n.core
      BY <2>5, LowerOnce
    <3> HIDE DEF P
    <3> QED BY <2>2, <2>5, <3>1 DEF Fitting
  <2> QED BY <2>4, <2>5
<1>8. First(1..c) = 1
  <2>1. 1..c \in SUBSET Nat
    OBVIOUS
  <2>2. First(1..c) \in 1..c /\ First(1..c) <= 1
    BY <1>6, <2>1, FirstIn
  <2> QED BY <1>4, <2>2
<1> HIDE DEF P
<1>9. First(P) = p[1]
  <2>1. P \in SUBSET Nat /\ P # {}
    <3>1. \A i \in 1..Len(cores) : i \in Nat
      OBVIOUS
    <3> QED BY <1>2, <3>1 DEF P
  <2>2. First(P) \in P /\ First(P) <= p[1] /\ p[1] <= First(P) /\ p[1] \in P
    BY <1>4, <1>5, <1>6, <2>1, FirstIn
  <2>3. First(P) \in Nat /\ p[1] \in Nat
    BY <2>1, <2>2, Zenon
  <2> QED BY <2>2, <2>3
<1>10. CASE Fitting(cores, n) = P /\ Fitting(M, n) = 1..c
  <2>1. KeyOf(M, n) = M[1].key
    BY <1>6, <1>8, <1>10, KeyIsFirst
  <2>2. KeyOf(cores, n) = cores[p[1]].key
    BY <1>9, <1>10, KeyIsFirst DEF P
  <2> QED BY <1>5, <1>6, <2>1, <2>2 DEF M
<1>11. CASE Fitting(cores, n) = {} /\ Fitting(M, n) = {}
  BY <1>5, <1>11, KeyIsFirst DEF M
<1> QED BY <1>7, <1>10, <1>11

\* A file of the split has the core of its node.
LEMMA FileKeepsCore ==
  ASSUME NEW m, m.cores \in Seq(CoreConfig), NEW i
  PROVE  LET f == BuildSplitConfig(m, i)
         IN  /\ f.conf.nodes = <<m.nodes[i]>>
             /\ KeyOf(f.conf.cores, m.nodes[i]) = KeyOf(m.cores, m.nodes[i])
<1> DEFINE n == m.nodes[i]
           cores == SplitNodeCores(n, m.cores)
           target(core) == <<"dns">> \o SplitDnsFileName(SplitNames(m)[i], core)
           copies == [e \in DOMAIN cores |->
                         IF cores[e].dns = <<>> THEN cores[e]
                         ELSE [cores[e] EXCEPT !.dns = target(cores[e])]]
           f == BuildSplitConfig(m, i)
<1>1. f.conf.cores = copies /\ f.conf.nodes = <<n>>
  BY DEF BuildSplitConfig
<1>2. cores \in Seq(CoreConfig) /\ KeyOf(cores, n) = KeyOf(m.cores, n)
  <2> HIDE DEF n
  <2> QED BY SplitKeepsFirst DEF SplitNodeCores
<1> HIDE DEF cores, f, target, n
<1>3. /\ Len(copies) = Len(cores)
      /\ \A e \in 1..Len(cores) : copies[e].key = cores[e].key /\ copies[e].typ = cores[e].typ
  <2>1. \A e \in 1..Len(cores) : cores[e] \in CoreConfig
    BY <1>2
  <2>2. \A e \in 1..Len(cores) : copies[e].key = cores[e].key /\ copies[e].typ = cores[e].typ
    BY <1>2, <2>1 DEF CoreConfig
  <2>3. DOMAIN copies = 1..Len(cores) /\ Len(cores) \in Nat
    BY <1>2
  <2> QED BY <2>2, <2>3
<1>4. KeyOf(copies, n) = KeyOf(cores, n)
  <2> HIDE DEF copies
  <2> QED BY <1>2, <1>3, KeyOfSame
<1> QED BY <1>1, <1>2, <1>4 DEF f, n

-----------------------------------------------------------------------------
(* The names of the files *)

\* A list of one
LEMMA SingleSeq ==
  ASSUME NEW S, NEW x \in S
  PROVE  <<x>> \in Seq(S)
OBVIOUS

\* The numbers uniqueSplitName gives to the nodes of a name differ.
LEMMA NamesNumbered ==
  ASSUME NEW m \in Sources, NEW i \in DOMAIN m.nodes, NEW j \in DOMAIN m.nodes
  PROVE  LET Nth(k) == Cardinality({l \in 1..k : m.nodes[l].name = m.nodes[k].name})
         IN  /\ Nth(i) \in Nat \ {0} /\ Nth(i) \in DOMAIN Suffix
             /\ m.nodes[i].name = m.nodes[j].name /\ Nth(i) = Nth(j) => i = j
<1> DEFINE N == Len(m.nodes)
           Same(k) == {l \in 1..N : m.nodes[l].name = m.nodes[k].name}
           Nth(k) == Cardinality({l \in 1..k : m.nodes[l].name = m.nodes[k].name})
<1>1. N \in Nat /\ DOMAIN m.nodes = 1..N
  BY SourceAssumption DEF SourceAssumption, IsList
<1>2. 1..N \subseteq DOMAIN Suffix
  BY <1>1, SplitAssumption DEF SplitAssumption
<1> HIDE DEF N
<1>3. ASSUME NEW k \in 1..N
      PROVE  Nth(k) = Rank(Same(k), k) /\ k \in Same(k) /\ Same(k) \in SUBSET (1..N)
  <2>1. {l \in 1..k : m.nodes[l].name = m.nodes[k].name} = {l \in Same(k) : l <= k}
    BY <1>1
  <2> QED BY <2>1 DEF Rank
<1>4. ASSUME NEW k \in 1..N PROVE Nth(k) \in 1..k
  <2> HIDE DEF Nth, Same
  <2> QED BY <1>1, <1>3, RankGrows
<1>5. ASSUME m.nodes[i].name = m.nodes[j].name, i # j PROVE Nth(i) # Nth(j)
  <2>1. Same(i) = Same(j)
    BY <1>5
  <2>2. i \in Same(i) /\ j \in Same(i) /\ Same(i) \in SUBSET (1..N)
    BY <1>1, <1>3, <2>1
  <2>3. i \in Nat /\ j \in Nat /\ (i < j \/ j < i)
    BY <1>1, <1>5
  <2>4. Nth(i) = Rank(Same(i), i) /\ Nth(j) = Rank(Same(i), j)
    BY <1>1, <1>3, <2>1, Zenon
  <2>5. Nth(i) \in Nat /\ Nth(j) \in Nat
    BY <1>1, <1>4
  <2> HIDE DEF Nth, Same
  <2>6. \A k, l \in Same(i) : k < l => Rank(Same(i), k) < Rank(Same(i), l)
    BY <1>1, <2>2, RankGrows
  <2> QED BY <2>2, <2>3, <2>4, <2>5, <2>6
<1>6. Nth(i) \in Nat \ {0} /\ Nth(i) \in DOMAIN Suffix
  <2> HIDE DEF Nth
  <2>1. Nth(i) \in 1..i /\ i \in 1..N
    BY <1>1, <1>4
  <2>2. Nth(i) \in 1..N
    BY <1>1, <2>1
  <2> QED BY <1>1, <1>2, <2>1, <2>2
<1> HIDE DEF Same
<1> QED BY <1>5, <1>6

\* split.go:327-328: no two nodes have the same name.
LEMMA NamesDiffer ==
  ASSUME NEW m \in Sources, PlainNames(m), NEW i \in DOMAIN m.nodes, NEW j \in DOMAIN m.nodes
  PROVE  /\ SplitNames(m)[i] \in Seq(STRING)
         /\ SplitNames(m)[i] = SplitNames(m)[j] => i = j
<1> DEFINE Name(k) == m.nodes[k].name
           Nth(k) == Cardinality({l \in 1..k : m.nodes[l].name = m.nodes[k].name})
<1>1. ASSUME NEW k \in DOMAIN m.nodes
      PROVE  SplitNames(m)[k] = IF Nth(k) > 1 THEN Append(Name(k), Suffix[Nth(k)]) ELSE Name(k)
  BY DEF SplitNames
<1>2. ASSUME NEW k \in DOMAIN m.nodes
      PROVE  /\ Nth(k) \in Nat \ {0} /\ Nth(k) \in DOMAIN Suffix
             /\ Name(k) \in Seq(STRING) /\ Suffix[Nth(k)] \in STRING
  <2>1. Nth(k) \in Nat \ {0} /\ Nth(k) \in DOMAIN Suffix
    BY NamesNumbered
  <2> HIDE DEF Nth
  <2> QED BY <2>1, SplitAssumption DEF SplitAssumption
<1>3. Name(i) = Name(j) /\ Nth(i) = Nth(j) => i = j
  BY NamesNumbered
<1>4. \A a, b \in DOMAIN Suffix : Suffix[a] = Suffix[b] => a = b
  BY SplitAssumption DEF SplitAssumption
<1>5. \A k, l \in DOMAIN m.nodes : Name(k) # Append(Name(l), Suffix[Nth(l)])
  BY <1>2 DEF PlainNames
<1> HIDE DEF Nth, Name
<1>6. SplitNames(m)[i] \in Seq(STRING)
  <2>1. Append(Name(i), Suffix[Nth(i)]) \in Seq(STRING)
    BY <1>2, AppendProperties, Zenon
  <2> QED BY <1>1, <1>2, <2>1, Zenon
<1>7. ASSUME SplitNames(m)[i] = SplitNames(m)[j] PROVE i = j
  <2>1. CASE Nth(i) > 1 /\ Nth(j) > 1
    <3>1. Append(Name(i), Suffix[Nth(i)]) = Append(Name(j), Suffix[Nth(j)])
      BY <1>1, <1>7, <2>1
    <3>2. Name(i) = Name(j) /\ Suffix[Nth(i)] = Suffix[Nth(j)]
      BY <1>2, <3>1, AppendInjective
    <3> QED BY <1>2, <1>3, <1>4, <3>2
  <2>2. CASE ~(Nth(i) > 1) /\ ~(Nth(j) > 1)
    <3>1. Nth(i) = 1 /\ Nth(j) = 1
      BY <1>2, <2>2
    <3> QED BY <1>1, <1>3, <1>7, <2>2, <3>1
  <2>3. CASE Nth(i) > 1 /\ ~(Nth(j) > 1)
    BY <1>1, <1>5, <1>7, <2>3, Zenon
  <2>4. CASE ~(Nth(i) > 1) /\ Nth(j) > 1
    BY <1>1, <1>5, <1>7, <2>4, Zenon
  <2> QED BY <2>1, <2>2, <2>3, <2>4
<1> QED BY <1>6, <1>7

\* The copy of the DNS file of the core e that the node i gets
DnsCopy(m, i, e) ==
    [of |-> m.cores[e].dns,
     path |-> <<"dns">> \o SplitDnsFileName(SplitNames(m)[i], m.cores[e])]

\* The cores of a configuration that have DNS files
WithDns(m) == {e \in DOMAIN m.cores : m.cores[e].dns # <<>>}

\* split.go:265-268: no two cores, of a node or of two, have the same.
LEMMA CopiesDiffer ==
  ASSUME NEW m \in Sources, PlainNames(m), PlainCores(m),
         NEW i \in DOMAIN m.nodes, NEW j \in DOMAIN m.nodes,
         NEW d \in WithDns(m), NEW e \in WithDns(m),
         DnsCopy(m, i, d).path = DnsCopy(m, j, e).path
  PROVE  i = j /\ d = e
<1> DEFINE Core(c) == m.cores[c]
           Name(k) == SplitNames(m)[k]
           Piece(c) == IF Core(c).named THEN <<Core(c).key>> ELSE <<>>
<1>1. \A k, l \in DOMAIN m.nodes : Name(k) \in Seq(STRING) /\ (Name(k) = Name(l) => k = l)
  BY NamesDiffer
<1>2. \A c \in WithDns(m) : Core(c).key \in STRING /\ Core(c).named \in BOOLEAN
  <2>1. \A c \in DOMAIN m.cores : m.cores[c] \in CoreConfig
    BY SplitAssumption DEF SplitAssumption
  <2>2. \A c \in CoreConfig : c.key \in STRING /\ c.named \in BOOLEAN
    BY DEF CoreConfig
  <2> QED BY <2>1, <2>2, Zenon DEF WithDns
<1>3. /\ \A k, l \in DOMAIN m.nodes : \A c \in WithDns(m) :
            Core(c).named => Name(k) # Append(Name(l), Core(c).key)
      /\ \A c, f \in WithDns(m) : c # f /\ Core(c).named = Core(f).named =>
            Core(c).named /\ Core(c).key # Core(f).key
  BY DEF PlainNames, PlainCores, WithDns
<1>4. <<"dns">> \o (Name(i) \o Piece(d)) = <<"dns">> \o (Name(j) \o Piece(e))
  BY DEF DnsCopy, SplitDnsFileName
<1> HIDE DEF Core, Name
<1>5. \A c \in WithDns(m) : Piece(c) \in Seq(STRING)
  BY <1>2, SingleSeq, EmptySeq, Zenon
<1>6. \A k \in DOMAIN m.nodes : \A c \in WithDns(m) :
         Name(k) \o Piece(c) =
            IF Core(c).named THEN Append(Name(k), Core(c).key) ELSE Name(k)
  <2> TAKE k \in DOMAIN m.nodes
  <2> TAKE c \in WithDns(m)
  <2>1. Name(k) \in Seq(STRING) /\ Core(c).key \in STRING
    BY <1>1, <1>2
  <2>2. CASE Core(c).named
    BY <2>1, <2>2, AppendIsConcat
  <2>3. CASE ~Core(c).named
    BY <2>1, <2>3, ConcatEmptySeq
  <2> QED BY <2>2, <2>3
<1>7. Name(i) \o Piece(d) = Name(j) \o Piece(e)
  <2>1. Name(i) \o Piece(d) \in Seq(STRING) /\ Name(j) \o Piece(e) \in Seq(STRING)
    <3> HIDE DEF Piece
    <3> QED BY <1>1, <1>5, ConcatProperties
  <2> DEFINE S == STRING \cup {"dns"}
  <2> HIDE DEF Piece
  <2>2. Name(i) \o Piece(d) \in Seq(S) /\ Name(j) \o Piece(e) \in Seq(S)
    <3>1. STRING \subseteq S
      OBVIOUS
    <3> HIDE DEF S
    <3> QED BY <2>1, <3>1, SeqMonotonic
  <2>3. <<"dns">> \in Seq(S)
    BY SingleSeq
  <2> HIDE DEF S
  <2> QED BY <1>4, <2>2, <2>3, ConcatSimplifications
<1> HIDE DEF Piece
<1>8. CASE Core(d).named /\ Core(e).named
  <2>1. Append(Name(i), Core(d).key) = Append(Name(j), Core(e).key)
    BY <1>6, <1>7, <1>8
  <2>2. Name(i) = Name(j) /\ Core(d).key = Core(e).key
    BY <1>1, <1>2, <2>1, AppendInjective
  <2> QED BY <1>1, <1>3, <1>8, <2>2
<1>9. CASE ~Core(d).named /\ ~Core(e).named
  <2>1. Name(i) = Name(j)
    BY <1>6, <1>7, <1>9
  <2>2. Core(d).named = Core(e).named
    BY <1>2, <1>9
  <2> QED BY <1>1, <1>3, <1>9, <2>1, <2>2
<1>10. CASE Core(d).named /\ ~Core(e).named
  <2>1. Append(Name(i), Core(d).key) = Name(j)
    BY <1>6, <1>7, <1>10, Zenon
  <2> QED BY <1>3, <1>10, <2>1, Zenon
<1>11. CASE ~Core(d).named /\ Core(e).named
  <2>1. Append(Name(j), Core(e).key) = Name(i)
    BY <1>6, <1>7, <1>11, Zenon
  <2> QED BY <1>3, <1>11, <2>1, Zenon
<1> QED BY <1>8, <1>9, <1>10, <1>11

\* Every core that is left in the file of a node is one of the configuration's.
LEMMA CoresFrom ==
  ASSUME NEW cores \in Seq(CoreConfig), NEW n
  PROVE  LET left == SplitNodeCores(n, cores)
         IN  /\ left \in Seq(CoreConfig)
             /\ \E p \in [DOMAIN left -> DOMAIN cores] :
                   /\ \A k \in DOMAIN left : left[k] = cores[p[k]]
                   /\ \A k, l \in DOMAIN left : p[k] = p[l] => k = l
<1> DEFINE left == SplitNodeCores(n, cores)
           P == Picked(n, cores)
<1>1. CASE left = cores
  <2> DEFINE p == [k \in DOMAIN cores |-> k]
  <2>1. /\ p \in [DOMAIN cores -> DOMAIN cores]
        /\ \A k \in DOMAIN cores : cores[k] = cores[p[k]]
        /\ \A k, l \in DOMAIN cores : p[k] = p[l] => k = l
    OBVIOUS
  <2> HIDE DEF left, p
  <2> QED BY <1>1, <2>1 DEF left
<1>2. CASE left # cores
  <2>1. P # {} /\ left = Sublist(cores, P) /\ left = MatchingCores(n, cores)
    BY <1>2 DEF SplitNodeCores, MatchingCores
  <2>2. Len(cores) \in Nat /\ DOMAIN cores = 1..Len(cores) /\ P \in SUBSET DOMAIN cores
    <3>1. P \in SUBSET DOMAIN cores
      BY Zenon DEF Picked
    <3> QED BY <3>1
  <2>3. left \in Seq(CoreConfig)
    BY <2>1, SplitKeepsFirst
  <2> HIDE DEF P, left
  <2>4. PICK p : Takes(p, cores, P)
    BY <2>2, SublistPlaces
  <2>5. /\ p \in [1..Cardinality(P) -> P]
        /\ left = [k \in 1..Cardinality(P) |-> cores[p[k]]]
        /\ \A k, l \in 1..Cardinality(P) : p[k] = p[l] => k = l
    BY <2>1, <2>4 DEF Takes
  <2>6. DOMAIN left = 1..Cardinality(P)
    BY <2>5
  <2>7. /\ p \in [DOMAIN left -> DOMAIN cores]
        /\ \A k \in DOMAIN left : left[k] = cores[p[k]]
        /\ \A k, l \in DOMAIN left : p[k] = p[l] => k = l
    BY <2>2, <2>5, <2>6
  <2> QED BY <2>3, <2>7 DEF left
<1> QED BY <1>1, <1>2

\* The core that each of the DNS files of a node is for
Owners(q, m, i) ==
    LET dns == BuildSplitConfig(m, i).dns
    IN  /\ Len(dns) \in Nat /\ DOMAIN dns = 1..Len(dns)
        /\ q \in [1..Len(dns) -> WithDns(m)]
        /\ \A k \in 1..Len(dns) : dns[k] = DnsCopy(m, i, q[k])
        /\ \A k, l \in 1..Len(dns) : q[k] = q[l] => k = l

\* buildSplitConfigs: each DNS file of a node is for another core of the configuration.
LEMMA DnsOwners ==
  ASSUME NEW m \in Sources, NEW i
  PROVE  \E q : Owners(q, m, i)
<1> DEFINE left == SplitNodeCores(m.nodes[i], m.cores)
           S == {e \in DOMAIN left : left[e].dns # <<>>}
           own == Sublist(left, S)
           name == SplitNames(m)[i]
           target(core) == <<"dns">> \o SplitDnsFileName(name, core)
           dns == BuildSplitConfig(m, i).dns
           c == Cardinality(S)
<1>1. m.cores \in Seq(CoreConfig)
  BY SplitAssumption DEF SplitAssumption
<1>2. PICK p \in [DOMAIN left -> DOMAIN m.cores] :
         /\ \A k \in DOMAIN left : left[k] = m.cores[p[k]]
         /\ \A k, l \in DOMAIN left : p[k] = p[l] => k = l
  BY <1>1, CoresFrom
<1>3. left \in Seq(CoreConfig)
  BY <1>1, CoresFrom
<1>4. dns = [e \in DOMAIN own |-> [of |-> own[e].dns, path |-> target(own[e])]]
  BY DEF BuildSplitConfig
<1> HIDE DEF left
<1>5. Len(left) \in Nat /\ DOMAIN left = 1..Len(left) /\ S \in SUBSET (1..Len(left))
  BY <1>3
<1> HIDE DEF S
<1>6. PICK r : Takes(r, left, S)
  BY <1>5, SublistPlaces
<1>7. /\ c \in Nat /\ r \in [1..c -> S]
      /\ own = [k \in 1..c |-> left[r[k]]]
      /\ \A k, l \in 1..c : r[k] = r[l] => k = l
  BY <1>6 DEF Takes
<1> HIDE DEF own, c, dns, name
<1> DEFINE q == [k \in 1..c |-> p[r[k]]]
<1>8. ASSUME NEW k \in 1..c
      PROVE  /\ r[k] \in DOMAIN left /\ own[k] = m.cores[p[r[k]]]
             /\ p[r[k]] \in WithDns(m) /\ q[k] = p[r[k]]
  <2>1. r[k] \in S
    BY <1>7
  <2>2. r[k] \in DOMAIN left /\ left[r[k]].dns # <<>>
    BY <2>1 DEF S
  <2>3. left[r[k]] = m.cores[p[r[k]]] /\ p[r[k]] \in DOMAIN m.cores /\ own[k] = left[r[k]]
    BY <1>2, <1>7, <2>2
  <2> QED BY <2>2, <2>3 DEF WithDns
<1>9. DOMAIN dns = 1..c /\ \A k \in 1..c : dns[k] = [of |-> own[k].dns, path |-> target(own[k])]
  <2> HIDE DEF target
  <2>1. DOMAIN own = 1..c
    BY <1>7
  <2> QED BY <1>4, <2>1
<1>10. Len(dns) = c
  <2> HIDE DEF target
  <2>1. dns = [e \in 1..c |-> dns[e]]
    BY <1>4, <1>9
  <2> QED BY <1>7, <2>1
<1>11. \A k \in 1..c : dns[k] = DnsCopy(m, i, q[k])
  BY <1>8, <1>9 DEF DnsCopy, name
<1>12. q \in [1..c -> WithDns(m)]
  BY <1>8
<1>13. \A k, l \in 1..c : q[k] = q[l] => k = l
  <2> TAKE k, l \in 1..c
  <2>1. /\ r[k] \in DOMAIN left /\ r[l] \in DOMAIN left
        /\ q[k] = p[r[k]] /\ q[l] = p[r[l]]
    BY <1>8
  <2> HIDE DEF q
  <2> QED BY <1>2, <1>7, <2>1
<1>14. Owners(q, m, i)
  <2> HIDE DEF q
  <2> QED BY <1>7, <1>9, <1>10, <1>11, <1>12, <1>13 DEF Owners, dns
<1> QED BY <1>14

\* The files that a split writes have names of their own.
LEMMA FilesApart ==
  ASSUME NEW m \in Sources, PlainNames(m), NEW i \in DOMAIN m.nodes, NEW j \in DOMAIN m.nodes,
         BuildSplitConfig(m, i).path = BuildSplitConfig(m, j).path
  PROVE  i = j
<1>1. SplitNames(m)[i] = SplitNames(m)[j]
  BY DEF BuildSplitConfig
<1> QED BY <1>1, NamesDiffer

\* So have the copies of the DNS files.
LEMMA DnsApart ==
  ASSUME NEW m \in Sources, PlainNames(m), PlainCores(m),
         NEW i \in DOMAIN m.nodes, NEW j \in DOMAIN m.nodes,
         NEW k \in 1..Len(BuildSplitConfig(m, i).dns),
         NEW l \in 1..Len(BuildSplitConfig(m, j).dns),
         BuildSplitConfig(m, i).dns[k].path = BuildSplitConfig(m, j).dns[l].path
  PROVE  i = j /\ k = l
<1>1. PICK p : Owners(p, m, i)
  BY DnsOwners
<1>2. PICK q : Owners(q, m, j)
  BY DnsOwners
<1>3. /\ p[k] \in WithDns(m) /\ q[l] \in WithDns(m)
      /\ BuildSplitConfig(m, i).dns[k] = DnsCopy(m, i, p[k])
      /\ BuildSplitConfig(m, j).dns[l] = DnsCopy(m, j, q[l])
  BY <1>1, <1>2 DEF Owners
<1>4. i = j
  <2>1. DnsCopy(m, i, p[k]).path = DnsCopy(m, j, q[l]).path
    BY <1>3
  <2> QED BY <1>3, <2>1, CopiesDiffer
<1>5. /\ p[l] \in WithDns(m) /\ BuildSplitConfig(m, i).dns[l] = DnsCopy(m, i, p[l])
      /\ p[k] = p[l] => k = l
  BY <1>1, <1>4 DEF Owners
<1>6. p[k] = p[l]
  <2>1. DnsCopy(m, i, p[k]).path = DnsCopy(m, i, p[l]).path
    BY <1>3, <1>4, <1>5
  <2> QED BY <1>3, <1>5, <2>1, CopiesDiffer
<1> QED BY <1>4, <1>5, <1>6

-----------------------------------------------------------------------------
(* The runs of the split command *)

\* The files that a split of m writes for the node i, and for all of them
SplitFile(m, i) ==
    [path |-> BuildSplitConfig(m, i).path, conf |-> BuildSplitConfig(m, i).conf]
DnsFiles(m, i) ==
    {BuildSplitConfig(m, i).dns[k] : k \in 1..Len(BuildSplitConfig(m, i).dns)}
AllFiles(m) == {SplitFile(m, i) : i \in DOMAIN m.nodes}
AllDnsFiles(m) == UNION {DnsFiles(m, i) : i \in DOMAIN m.nodes}

\* What a write of a configuration that fails may leave of it
HalfFiles(m) == {[path |-> f.path, conf |-> NoConf] : f \in AllFiles(m)}

\* What the directory holds is from some run, and the run is at one of the nodes.
SplitShape ==
    /\ source \in Sources \cup {NoConf} /\ IsRun(run)
    /\ configs \subseteq AllFiles(source) \cup HalfFiles(source)
    /\ run.fails = 0 => dnsFiles \subseteq AllDnsFiles(source)
    /\ run.fails \in Nat
    /\ run.state = "running" =>
          /\ source \in Sources /\ run.at \in 1..Len(source.nodes)
          /\ run.copied \in 0..Len(File.dns)

Plain(m) == PlainNames(m) /\ PlainCores(m)

Written(i) == SplitFile(source, i) \in configs /\ DnsFiles(source, i) \subseteq dnsFiles

\* What the run is past is there: written by this run or kept from an earlier one.
SplitProgress ==
    Plain(source) /\ (run.force \/ run.fails = 0) =>
        /\ run.state = "ok" => \A i \in DOMAIN source.nodes : Written(i)
        /\ run.state = "running" =>
              /\ \A i \in 1..run.at - 1 : Written(i)
              /\ \A k \in 1..run.copied : File.dns[k] \in dnsFiles

SplitInv == SplitShape /\ SplitProgress

\* The nodes of a configuration are a list.
LEMMA SourceList ==
  ASSUME NEW m \in Sources
  PROVE  /\ Len(m.nodes) \in Nat /\ DOMAIN m.nodes = 1..Len(m.nodes)
         /\ (m.nodes = <<>> <=> Len(m.nodes) = 0)
BY SourceAssumption DEF SourceAssumption, IsList

\* A path belongs to one file.
LEMMA PathsApart ==
  ASSUME NEW m \in Sources, Plain(m)
  PROVE  /\ \A x, y \in AllFiles(m) : x.path = y.path => x = y
         /\ \A x, y \in AllDnsFiles(m) : x.path = y.path => x = y
<1>0. PlainNames(m) /\ PlainCores(m)
  BY DEF Plain
<1>1. ASSUME NEW x \in AllFiles(m), NEW y \in AllFiles(m), x.path = y.path
      PROVE  x = y
  <2>1. PICK i \in DOMAIN m.nodes : x = SplitFile(m, i)
    BY DEF AllFiles
  <2>2. PICK j \in DOMAIN m.nodes : y = SplitFile(m, j)
    BY DEF AllFiles
  <2>3. BuildSplitConfig(m, i).path = BuildSplitConfig(m, j).path
    BY <1>1, <2>1, <2>2 DEF SplitFile
  <2>4. i = j
    BY <1>0, <2>3, FilesApart
  <2> QED BY <2>1, <2>2, <2>4
<1>2. ASSUME NEW x \in AllDnsFiles(m), NEW y \in AllDnsFiles(m), x.path = y.path
      PROVE  x = y
  <2>1. PICK i \in DOMAIN m.nodes : x \in DnsFiles(m, i)
    BY DEF AllDnsFiles
  <2>2. PICK j \in DOMAIN m.nodes : y \in DnsFiles(m, j)
    BY DEF AllDnsFiles
  <2>3. PICK k \in 1..Len(BuildSplitConfig(m, i).dns) : x = BuildSplitConfig(m, i).dns[k]
    BY <2>1 DEF DnsFiles
  <2>4. PICK l \in 1..Len(BuildSplitConfig(m, j).dns) : y = BuildSplitConfig(m, j).dns[l]
    BY <2>2 DEF DnsFiles
  <2>5. BuildSplitConfig(m, i).dns[k].path = BuildSplitConfig(m, j).dns[l].path
    BY <1>2, <2>3, <2>4
  <2>6. i = j /\ k = l
    BY <1>0, <2>5, DnsApart
  <2> QED BY <2>3, <2>4, <2>6
<1> QED BY <1>1, <1>2

\* Writing a file loses no other one, and the one that is there is the one to write.
LEMMA PutKeeps ==
  ASSUME NEW All, \A x, y \in All : x.path = y.path => x = y, NEW files, NEW f \in All
  PROVE  /\ files \cap All \subseteq Put(files, f)
         /\ files \subseteq All /\ Has(files, f.path) => f \in files
BY DEF Put, Has

\* Nothing is written at first.
LEMMA SplitInvFirst == SystemInit => SplitInv
<1> SUFFICES ASSUME SystemInit PROVE SplitInv
  OBVIOUS
<1>1. source \in Sources /\ configs = {} /\ dnsFiles = {} /\ run = NoRun
  BY DEF SystemInit, SplitInit
<1>2. IsRun(run) /\ run.state = "none" /\ run.fails = 0
  BY <1>1 DEF NoRun, IsRun
<1> QED BY <1>1, <1>2 DEF SplitInv, SplitShape, SplitProgress

\* A step of the process
LEMMA SplitInvStays ==
  ASSUME SplitInv, UNCHANGED splitVars
  PROVE  SplitInv'
<1>1. source' = source /\ configs' = configs /\ dnsFiles' = dnsFiles /\ run' = run
  BY DEF splitVars
<1> QED BY <1>1 DEF SplitInv, SplitShape, SplitProgress, Written, File, IsRun

\* The start of the process forgets the command.
LEMMA SplitInvBoot ==
  ASSUME SplitInv, Boot
  PROVE  SplitInv'
<1>1. source' = NoConf /\ configs' = {} /\ dnsFiles' = {} /\ run' = NoRun
  BY DEF Boot
<1>2. IsRun(run') /\ run'.state = "none" /\ run'.fails = 0
  BY <1>1 DEF NoRun, IsRun
<1> QED BY <1>1, <1>2 DEF SplitInv, SplitShape, SplitProgress, IsRun

\* runSplit begins with the first node, and fails without one.
LEMMA SplitInvRun ==
  ASSUME SplitInv, NEW force \in BOOLEAN, RunSplit(force)
  PROVE  SplitInv'
<1>1. source' = source /\ configs' = configs /\ dnsFiles' = dnsFiles
  BY DEF RunSplit
<1>2. /\ run'.state = IF source.nodes = <<>> THEN "failed" ELSE "running"
      /\ run'.at = 1 /\ run'.copied = 0 /\ run'.fails = run.fails /\ IsRun(run)'
  BY DEF RunSplit, NoRun, IsRun
<1>3. source.nodes # <<>> => source \in Sources /\ 1 \in 1..Len(source.nodes)
  <2> SUFFICES ASSUME source.nodes # <<>>
               PROVE  source \in Sources /\ 1 \in 1..Len(source.nodes)
    OBVIOUS
  <2>1. source \in Sources
    BY DEF SplitInv, SplitShape, NoConf
  <2>2. Len(source.nodes) \in Nat /\ Len(source.nodes) # 0
    BY <2>1, SourceList
  <2> QED BY <2>1, <2>2
<1>4. source \in Sources => Len(BuildSplitConfig(source, 1).dns) \in Nat
  BY DnsOwners DEF Owners
<1>5. SplitShape'
  <2>1. File' = BuildSplitConfig(source, run'.at)
    BY <1>1 DEF File
  <2>2. run'.state = "running" =>
          /\ source \in Sources /\ run'.at \in 1..Len(source.nodes)
          /\ run'.copied \in 0..Len(File'.dns)
    BY <1>2, <1>3, <1>4, <2>1
  <2> QED BY <1>1, <1>2, <2>2 DEF SplitInv, SplitShape
<1>6. SplitProgress'
  <2>1. 1..run'.at - 1 = {} /\ 1..run'.copied = {}
    BY <1>2
  <2>2. run'.state # "ok"
    BY <1>2
  <2> QED BY <2>1, <2>2 DEF SplitProgress
<1> QED BY <1>5, <1>6 DEF SplitInv

\* A file that is there ends the run, or nothing is written yet.
LEMMA SplitInvCheck ==
  ASSUME SplitInv, CheckSplitFile
  PROVE  SplitInv'
<1>1. source' = source /\ configs' = configs /\ dnsFiles' = dnsFiles
  BY DEF CheckSplitFile
<1>2. /\ run.state = "running" /\ run'.state \in {"failed", "running"}
      /\ run'.at = run.at /\ run'.copied = run.copied /\ IsRun(run)'
      /\ run'.force = run.force /\ run'.fails = run.fails
  BY DEF CheckSplitFile, Ends, SplitInv, SplitShape, IsRun
<1>3. File' = File
  BY <1>1, <1>2 DEF File
<1>4. SplitShape'
  BY <1>1, <1>2, <1>3 DEF SplitInv, SplitShape
<1>5. SplitProgress'
  BY <1>1, <1>2, <1>3 DEF SplitInv, SplitProgress, Written
<1> QED BY <1>4, <1>5 DEF SplitInv

\* A run that failed has promised nothing, and may leave one file half written.
LEMMA SplitInvFails ==
  ASSUME SplitInv, SplitFails
  PROVE  SplitInv'
<1> DEFINE f == [path |-> File.path, conf |-> NoConf]
<1>1. source' = source /\ configs' \in {configs, Put(configs, f)}
  BY DEF SplitFails
<1>2. /\ run'.state = "failed" /\ IsRun(run)' /\ run'.fails = run.fails + 1
      /\ run.state = "running"
  BY DEF SplitFails, SplitInv, SplitShape, IsRun
<1>3. f \in HalfFiles(source)
  <2>1. /\ source \in Sources /\ run.at \in DOMAIN source.nodes
    BY <1>2, SourceList DEF SplitInv, SplitShape
  <2>2. SplitFile(source, run.at) \in AllFiles(source)
    BY <2>1 DEF AllFiles
  <2>3. SplitFile(source, run.at).path = File.path
    BY DEF SplitFile, File
  <2> HIDE DEF SplitFile
  <2> QED BY <2>2, <2>3 DEF HalfFiles
<1> HIDE DEF f
<1>4. run'.fails \in Nat \ {0}
  BY <1>2 DEF SplitInv, SplitShape
<1>5. configs' \subseteq AllFiles(source) \cup HalfFiles(source)
  BY <1>1, <1>3 DEF Put, SplitInv, SplitShape
<1> QED BY <1>1, <1>2, <1>4, <1>5 DEF SplitInv, SplitShape, SplitProgress

\* copySplitFile: the copy is made, or the one that is there is it.
LEMMA SplitInvCopy ==
  ASSUME SplitInv, CopySplitFile
  PROVE  SplitInv'
<1> DEFINE f == File.dns[run.copied + 1]
<1>1. /\ source' = source /\ configs' = configs
      /\ dnsFiles' = IF ~run.force /\ Has(dnsFiles, f.path) THEN dnsFiles ELSE Put(dnsFiles, f)
  BY DEF CopySplitFile
<1>2. /\ run.state = "running" /\ run'.state = "running"
      /\ run'.at = run.at /\ run'.copied = run.copied + 1 /\ IsRun(run)'
      /\ run'.force = run.force /\ run'.fails = run.fails
  BY DEF CopySplitFile, SplitInv, SplitShape, IsRun
<1>3. /\ source \in Sources /\ run.at \in DOMAIN source.nodes /\ run.at \in 1..Len(source.nodes)
      /\ run.copied \in 0..Len(File.dns) /\ run.copied < Len(File.dns)
  BY <1>2, SourceList DEF SplitInv, SplitShape, CopySplitFile
<1>4. File' = File
  BY <1>1, <1>2 DEF File
<1>5. run.copied \in Nat /\ Len(File.dns) \in Nat /\ run.copied + 1 \in 1..Len(File.dns)
  <2>1. Len(File.dns) \in Nat
    BY <1>3, DnsOwners DEF Owners, File
  <2> QED BY <1>3, <2>1
<1>6. f \in AllDnsFiles(source)
  <2>1. f \in DnsFiles(source, run.at)
    BY <1>5 DEF DnsFiles, File
  <2> HIDE DEF f
  <2> QED BY <1>3, <2>1 DEF AllDnsFiles
<1> HIDE DEF f
<1>7. SplitShape'
  <2>1. run.fails = 0 => dnsFiles' \subseteq AllDnsFiles(source)
    BY <1>1, <1>6 DEF Put, SplitInv, SplitShape
  <2>2. run.copied + 1 \in 0..Len(File.dns)
    BY <1>5
  <2> QED BY <1>1, <1>2, <1>3, <1>4, <2>1, <2>2 DEF SplitInv, SplitShape
<1>8. SplitProgress'
  <2> SUFFICES ASSUME Plain(source), run.force \/ run.fails = 0
               PROVE  /\ \A i \in 1..run.at - 1 : Written(i)'
                      /\ \A k \in 1..run.copied + 1 : File.dns[k] \in dnsFiles'
    BY <1>1, <1>2, <1>4 DEF SplitProgress
  <2>1. dnsFiles \cap AllDnsFiles(source) \subseteq dnsFiles' /\ f \in dnsFiles'
    <3>1. /\ dnsFiles \cap AllDnsFiles(source) \subseteq Put(dnsFiles, f)
          /\ dnsFiles \subseteq AllDnsFiles(source) /\ Has(dnsFiles, f.path) => f \in dnsFiles
      BY <1>3, <1>6, PathsApart, PutKeeps
    <3>2. f \in Put(dnsFiles, f)
      BY DEF Put
    <3>3. ~run.force => dnsFiles \subseteq AllDnsFiles(source)
      BY DEF SplitInv, SplitShape
    <3> QED BY <1>1, <3>1, <3>2, <3>3
  <2>2. /\ \A i \in 1..run.at - 1 : Written(i)
        /\ \A k \in 1..run.copied : File.dns[k] \in dnsFiles
    BY <1>2 DEF SplitInv, SplitProgress
  <2>3. \A i \in 1..run.at - 1 : Written(i)'
    <3> TAKE i \in 1..run.at - 1
    <3>1. i \in DOMAIN source.nodes
      BY <1>3, SourceList
    <3>2. DnsFiles(source, i) \subseteq AllDnsFiles(source)
      BY <3>1 DEF AllDnsFiles
    <3> QED BY <1>1, <2>1, <2>2, <3>2 DEF Written
  <2>4. \A k \in 1..run.copied + 1 : k \in 1..run.copied \/ k = run.copied + 1
    BY <1>5
  <2>5. \A k \in 1..run.copied + 1 : File.dns[k] \in dnsFiles'
    <3>1. \A k \in 1..run.copied : File.dns[k] \in AllDnsFiles(source)
      <4>1. \A k \in 1..run.copied : File.dns[k] \in DnsFiles(source, run.at)
        BY <1>5 DEF DnsFiles, File
      <4> QED BY <1>3, <4>1 DEF AllDnsFiles
    <3> QED BY <2>1, <2>2, <2>4, <3>1 DEF f
  <2> QED BY <2>3, <2>5
<1> QED BY <1>7, <1>8 DEF SplitInv

\* The file of a node is written when its DNS files are there.
LEMMA SplitInvWrite ==
  ASSUME SplitInv, WriteSplitFile
  PROVE  SplitInv'
<1> DEFINE f == SplitFile(source, run.at)
<1>1. source' = source /\ dnsFiles' = dnsFiles /\ configs' = Put(configs, f)
  BY DEF WriteSplitFile, SplitFile, File
<1>2. /\ run.state = "running" /\ IsRun(run)' /\ run.copied = Len(File.dns)
      /\ IF run.at = Len(source.nodes) THEN run'.state = "ok"
         ELSE run'.state = "running" /\ run'.at = run.at + 1 /\ run'.copied = 0
      /\ run'.force = run.force /\ run'.fails = run.fails
  BY DEF WriteSplitFile, Ends, SplitInv, SplitShape, IsRun
<1>3. /\ source \in Sources /\ run.at \in DOMAIN source.nodes /\ run.at \in 1..Len(source.nodes)
      /\ Len(source.nodes) \in Nat /\ DOMAIN source.nodes = 1..Len(source.nodes)
  BY <1>2, SourceList DEF SplitInv, SplitShape
<1>4. f \in AllFiles(source)
  BY <1>3 DEF AllFiles
<1> HIDE DEF f
<1>5. SplitShape'
  <2>1. configs' \subseteq AllFiles(source) \cup HalfFiles(source)
    BY <1>1, <1>4 DEF Put, SplitInv, SplitShape
  <2>2. ASSUME run.at # Len(source.nodes)
        PROVE  run.at + 1 \in 1..Len(source.nodes) /\ 0 \in 0..Len(File'.dns)
    <3>1. run.at + 1 \in 1..Len(source.nodes)
      BY <1>3, <2>2
    <3>2. Len(BuildSplitConfig(source, run.at + 1).dns) \in Nat
      BY <1>3, DnsOwners DEF Owners
    <3>3. File' = BuildSplitConfig(source, run.at + 1)
      BY <1>1, <1>2, <2>2 DEF File
    <3> QED BY <3>1, <3>2, <3>3
  <2> QED BY <1>1, <1>2, <1>3, <2>1, <2>2 DEF SplitInv, SplitShape
<1>6. SplitProgress'
  <2> SUFFICES ASSUME Plain(source), run.force \/ run.fails = 0
               PROVE  /\ run'.state = "ok" => \A i \in DOMAIN source.nodes : Written(i)'
                      /\ run'.state = "running" =>
                            /\ \A i \in 1..run'.at - 1 : Written(i)'
                            /\ \A k \in 1..run'.copied : File'.dns[k] \in dnsFiles'
    BY <1>1, <1>2 DEF SplitProgress
  <2>1. configs \cap AllFiles(source) \subseteq configs' /\ f \in configs'
    <3>1. configs \cap AllFiles(source) \subseteq Put(configs, f)
      BY <1>3, <1>4, PathsApart, PutKeeps
    <3>2. f \in Put(configs, f)
      BY DEF Put
    <3> QED BY <1>1, <3>1, <3>2
  <2>2. /\ \A i \in 1..run.at - 1 : Written(i)
        /\ \A k \in 1..run.copied : File.dns[k] \in dnsFiles
    BY <1>2 DEF SplitInv, SplitProgress
  <2>3. SplitFile(source, run.at) \in configs' /\ DnsFiles(source, run.at) \subseteq dnsFiles'
    <3>1. DnsFiles(source, run.at) \subseteq dnsFiles
      BY <1>2, <2>2 DEF DnsFiles, File
    <3> QED BY <1>1, <2>1, <3>1 DEF f
  <2>4. \A i \in 1..run.at - 1 : Written(i)'
    <3> TAKE i \in 1..run.at - 1
    <3>1. SplitFile(source, i) \in AllFiles(source)
      BY <1>3 DEF AllFiles
    <3> QED BY <1>1, <2>1, <2>2, <3>1 DEF Written
  <2>5. \A i \in 1..run.at : i \in 1..run.at - 1 \/ i = run.at
    BY <1>3
  <2>6. \A i \in 1..run.at : Written(i)'
    BY <1>1, <2>3, <2>4, <2>5 DEF Written
  <2>7. CASE run.at = Len(source.nodes)
    BY <1>2, <1>3, <2>6, <2>7
  <2>8. CASE run.at # Len(source.nodes)
    <3>1. run'.at - 1 = run.at /\ run'.copied = 0 /\ run'.state = "running"
      BY <1>2, <1>3, <2>8
    <3>2. 1..run'.copied = {}
      BY <3>1
    <3> QED BY <2>6, <3>1, <3>2
  <2> QED BY <2>7, <2>8
<1> QED BY <1>5, <1>6 DEF SplitInv

\* SplitInv is inductive.
LEMMA SplitInvAlways == SystemSpec => []SplitInv
<1>1. SplitInv /\ [System]_systemVars => SplitInv'
  <2> SUFFICES ASSUME SplitInv, [System]_systemVars PROVE SplitInv'
    OBVIOUS
  <2>1. CASE Split
    BY <2>1, SplitInvRun, SplitInvCheck, SplitInvCopy, SplitInvWrite, SplitInvFails
       DEF Split, SplitNext
  <2>2. CASE Boot
    BY <2>2, SplitInvBoot
  <2>3. CASE UNCHANGED splitVars
    BY <2>3, SplitInvStays
  <2>4. Split \/ Boot \/ UNCHANGED splitVars
    BY DEF System, systemVars
  <2> QED BY <2>1, <2>2, <2>3, <2>4
<1> QED BY <1>1, SplitInvFirst, PTL DEF SystemSpec

\* split.go:177-182: whatever the configuration, and whatever runs have failed, every whole
\* file has one of its nodes, on the core that the Selector finds for it among all.
THEOREM SplitAlwaysKeepsCore == SystemSpec => []SplitKeepsCore
<1>1. SplitInv => SplitKeepsCore
  <2> SUFFICES ASSUME SplitInv, NEW f \in configs, f.conf.whole
               PROVE  \E i \in DOMAIN source.nodes :
                         /\ f.conf.nodes = <<source.nodes[i]>>
                         /\ KeyOf(f.conf.cores, source.nodes[i]) =
                               KeyOf(source.cores, source.nodes[i])
    BY DEF SplitKeepsCore
  <2>0. f \notin HalfFiles(source)
    BY DEF HalfFiles, NoConf
  <2>1. PICK i \in DOMAIN source.nodes : f = SplitFile(source, i)
    BY <2>0 DEF SplitInv, SplitShape, AllFiles
  <2>2. source.nodes # <<>>
    BY <2>1
  <2>3. source.cores \in Seq(CoreConfig)
    BY <2>2, SplitAssumption DEF SplitAssumption, SplitInv, SplitShape, NoConf
  <2>4. f.conf = BuildSplitConfig(source, i).conf
    BY <2>1 DEF SplitFile
  <2> QED BY <2>3, <2>4, FileKeepsCore
<1> QED BY <1>1, SplitInvAlways, PTL

\* split.go:327-328: for any number of nodes and cores with plain names, after a split that
\* reports success every node has a file of itself, and every core with DNS in it a copy that
\* no other core of any node has, whatever earlier runs wrote, and with -f whatever they left
\* half done.
THEOREM SplitAlwaysIsolates == SystemSpec => []SplitIsolates
<1>1. SplitInv => SplitIsolates
  <2> DEFINE dns(j) == Files[j].dns
  <2> SUFFICES ASSUME SplitInv, run.state = "ok", run.force \/ run.fails = 0,
                      PlainNames(source), PlainCores(source), NEW i \in DOMAIN Files
               PROVE  /\ IsWritten(i) /\ DnsOf(i) \subseteq dnsFiles
                      /\ Cardinality(DnsOf(i)) = Len(dns(i))
                      /\ \A j \in DOMAIN Files \ {i} :
                            {d.path : d \in DnsOf(i)} \cap {d.path : d \in DnsOf(j)} = {}
    BY Zenon DEF SplitIsolates
  <2>0. /\ DOMAIN Files = DOMAIN source.nodes
        /\ \A j \in DOMAIN Files : Files[j] = BuildSplitConfig(source, j)
    BY DEF Files, BuildSplitConfigs
  <2>a. source \in Sources
    <3>1. source = NoConf => DOMAIN source.nodes = {}
      BY DEF NoConf
    <3> QED BY <2>0, <3>1 DEF SplitInv, SplitShape
  <2>1. \A j \in DOMAIN Files : Len(dns(j)) \in Nat /\ DOMAIN dns(j) = 1..Len(dns(j))
    BY <2>0, <2>a, DnsOwners DEF Owners
  <2>2. DnsOf(i) = DnsFiles(source, i)
    BY <2>0, <2>1 DEF DnsFiles, DnsOf
  <2>3. IsWritten(i) /\ DnsOf(i) \subseteq dnsFiles
    <3>1. SplitFile(source, i) \in configs /\ DnsFiles(source, i) \subseteq dnsFiles
      BY <2>0 DEF SplitInv, SplitProgress, Plain, Written
    <3> QED BY <2>0, <2>2, <3>1 DEF SplitFile, IsWritten
  <2>4. ASSUME NEW j \in DOMAIN Files, NEW k \in 1..Len(dns(i)), NEW l \in 1..Len(dns(j)),
               dns(i)[k].path = dns(j)[l].path
        PROVE  i = j /\ k = l
    BY <2>0, <2>a, <2>4, DnsApart
  <2>b. \A j \in DOMAIN Files : DnsOf(j) = {dns(j)[e] : e \in DOMAIN dns(j)}
    BY DEF DnsOf
  <2> HIDE DEF dns
  <2>5. Cardinality(DnsOf(i)) = Len(dns(i))
    <3> DEFINE d == [k \in 1..Len(dns(i)) |-> dns(i)[k]]
    <3>1. d \in Surjection(1..Len(dns(i)), DnsOf(i))
      BY <2>1, <2>b DEF Surjection
    <3>2. d \in Injection(1..Len(dns(i)), DnsOf(i))
      <4>1. \A k, l \in 1..Len(dns(i)) : dns(i)[k] = dns(i)[l] => k = l
        BY <2>4
      <4>2. d \in [1..Len(dns(i)) -> DnsOf(i)]
        BY <2>1, <2>b
      <4> QED BY <4>1, <4>2 DEF Injection, IsInjective
    <3>3. IsFiniteSet(1..Len(dns(i))) /\ Cardinality(1..Len(dns(i))) = Len(dns(i))
      BY <2>1, FS_Interval
    <3> HIDE DEF d
    <3> QED BY <3>1, <3>2, <3>3, FS_Surjection
  <2>6. ASSUME NEW j \in DOMAIN Files \ {i}
        PROVE  {d.path : d \in DnsOf(i)} \cap {d.path : d \in DnsOf(j)} = {}
    <3>1. \A k \in 1..Len(dns(i)), l \in 1..Len(dns(j)) : dns(i)[k].path # dns(j)[l].path
      BY <2>4
    <3> QED BY <2>1, <2>b, <3>1
  <2> QED BY <2>3, <2>5, <2>6 DEF dns
<1> QED BY <1>1, SplitInvAlways, PTL
=============================================================================
