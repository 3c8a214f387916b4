------------------------------- MODULE Server -------------------------------
(***************************************************************************)
(* The process: startup, the reload of the configuration file, shutdown.   *)
(*                                                                         *)
(* runServer (cmd/server.go) builds the Selector of the configured cores   *)
(* (core/selector.go) and starts one controller per node (node/node.go).   *)
(* The watcher (conf/watch.go) runs a reload in a goroutine of its own,    *)
(* five seconds after the event, and ignores events for ten: a reload that *)
(* takes longer than that overlaps with the next one, and they share conf, *)
(* vc and nodes.                                                           *)
(*                                                                         *)
(* A controller is here what it registers when it starts and what it takes *)
(* away when it is closed; its tasks are the subject of NodeController.    *)
(***************************************************************************)
EXTENDS Naturals, Sequences, FiniteSets, Conf

CONSTANTS
    Config,       \* the configurations the file may hold
    MaxWrites,    \* bound on the writes of the file
    MaxReloads,   \* bound on the reloads
    MaxFails      \* bound on the operations that fail

Protocols(typ) ==
    CASE typ = "xray" -> {"vmess", "vless", "shadowsocks", "trojan"}
      [] typ = "sing" -> {"vmess", "vless", "shadowsocks", "trojan", "tuic", "anytls",
                          "naive", "hysteria", "hysteria2"}
      [] OTHER -> {"hysteria2"}

\* A core: key, type as it is spelled and whether it has inbounds of its own.  A
\* node: tag, type, Core and CoreName of its options ("" when not given), and the
\* types of the cores whose AddNode panics over it (NodeInbound).
TagsOf(c) == {c.nodes[i].tag : i \in 1..Len(c.nodes)}
Tag == UNION {TagsOf(c) : c \in Config}

\* The nodes of a file are a list, and no two of them are the same node of the same panel
\* (buildNodeTag) or have the same Name.
IsList(s) == s \in Seq({s[i] : i \in DOMAIN s})
DistinctTags(c) == \A i, j \in 1..Len(c.nodes) : c.nodes[i].tag = c.nodes[j].tag => i = j

ASSUME ServerAssumption ==
    /\ {MaxWrites, MaxReloads, MaxFails} \subseteq Nat
    /\ \A c \in Config : IsList(c.nodes) /\ DistinctTags(c)

Gen == 1..MaxReloads + 1     \* 1 is runServer itself, the others are reload goroutines
Nil == 0

VARIABLES
    proc,        \* "off", "init", "up", "exited", "crashed"
    file,        \* what is in the configuration file
    writes, fails,
    window,      \* of the watcher: "open", then "delay" and "rest" for ten seconds
    missed,      \* the file was written when the watcher would not see it
    conf,        \* the Conf shared by runServer and the reloads
    vc,          \* the Selector in use, by the goroutine that made it, or Nil
    sel,         \* the Selectors: entries, running cores, nodes, those on a closed core
    nodes,       \* Node.controllers: Selector and tag of each
    lims,        \* tags with a limiter
    pc,          \* of the goroutines
    todo,        \* the controllers a goroutine is closing
    work,        \* the nodes a goroutine is starting, their Selector, how many are up
    overlapped,  \* two reloads were under way at once
    assets,      \* the routing, inbound and outbound files of the cores are usable
    cause,       \* why the process crashed
    stuck,       \* a core refused to delete a node
    watched      \* the watcher still gets the events of the file

vars == <<proc, file, writes, fails, window, missed, conf, vc, sel, nodes, lims, pc, todo,
          work, overlapped, cause, stuck, assets, watched>>

Controller == [sel : Gen, tag : Tag]
Active == {g \in Gen : pc[g] \notin {"none", "done", "failed"}}

NoSelector == [entries |-> <<>>, running |-> {}, at |-> [t \in Tag |-> 0], dead |-> {}]

\* Ranges of every variable; a goroutine has done no more than it was given, and a
\* Selector has nodes only on cores it has.
TypeOK ==
    /\ proc \in {"off", "init", "up", "exited", "crashed"}
    /\ TagsOf(file) \subseteq Tag /\ TagsOf(conf) \subseteq Tag
    /\ writes \in 0..MaxWrites /\ fails \in 0..MaxFails
    /\ window \in {"open", "delay", "rest"}
    /\ {missed, overlapped, assets, stuck, watched} \subseteq BOOLEAN
    /\ cause \in {"", "nilCore", "create", "addNode", "closedCore"}
    /\ vc \in Gen \cup {Nil}
    /\ \A g \in Gen : /\ sel[g].running \subseteq 1..Len(sel[g].entries)
                      /\ \A t \in Tag : sel[g].at[t] \in 0..Len(sel[g].entries)
                      /\ sel[g].dead \subseteq {t \in Tag : sel[g].at[t] # 0}
                      /\ pc[g] \in {"none", "delay", "closeNodes", "closeCore", "newCore",
                                    "startCore", "startNodes", "undo", "done", "failed"}
                      /\ work[g].sel \in Gen \cup {Nil}
                      /\ work[g].up \in 0..Len(work[g].nodes)
    /\ nodes \in Seq(Controller) /\ todo \in [Gen -> Seq(Controller)]
    /\ lims \subseteq Tag

Init ==
    /\ file = NoConf /\ conf = NoConf
    /\ proc = "off"
    /\ writes = 0 /\ fails = 0
    /\ window = "open" /\ missed = FALSE
    /\ vc = Nil
    /\ sel = [g \in Gen |-> NoSelector]
    /\ nodes = <<>> /\ lims = {}
    /\ pc = [g \in Gen |-> IF g = 1 THEN "newCore" ELSE "none"]
    /\ todo = [g \in Gen |-> <<>>]
    /\ work = [g \in Gen |-> [nodes |-> <<>>, sel |-> Nil, up |-> 0]]
    /\ overlapped = FALSE /\ cause = "" /\ stuck = FALSE /\ assets = TRUE
    /\ watched = TRUE

Alive == proc \in {"init", "up"}

-----------------------------------------------------------------------------
(* core/selector.go *)

\* pickLocked: the entry of a node, 0 for none.
Candidates(s, n) ==
    {e \in 1..Len(s.entries) :
        IF n.core = "" THEN n.type \in Protocols(ToLower(s.entries[e].typ))
        ELSE n.core = ToLower(s.entries[e].typ)}

First(S) == CHOOSE e \in S : \A d \in S : e <= d

PickFirst(s, n) ==
    LET named == {e \in 1..Len(s.entries) : s.entries[e].key = n.coreName}
    IN  CASE n.coreName # "" -> IF named = {} THEN 0 ELSE First(named)
          [] OTHER -> IF Candidates(s, n) = {} THEN 0 ELSE First(Candidates(s, n))

Pick(s, n) ==
    LET named == {e \in 1..Len(s.entries) : s.entries[e].key = n.coreName}
        can == Candidates(s, n)
    IN  CASE n.coreName # "" -> IF named = {} THEN 0 ELSE First(named)
          [] n.coreName = "" /\ can \cap s.running # {} -> First(can \cap s.running)
          [] OTHER -> IF can = {} THEN 0 ELSE First(can)

\* CoreConfig.UnmarshalJSON: a type in another spelling gets no config of its own, which
\* the cores dereference when they are made, and which has no inbounds.
Configured(core) == core.typ \in CoreTypes
Owning(s) == {e \in 1..Len(s.entries) : s.entries[e].owns /\ Configured(s.entries[e])}

\* cores[typ].new: xray panics over its files (getCore), sing returns an error, and
\* reads a file only if it has inbounds of its own.
Create(s, e) ==
    LET core == s.entries[e]
    IN  CASE e \in s.running -> "ok"
          [] e \notin s.running /\ ~Configured(core) -> "panic"
          [] e \notin s.running /\ ~assets /\ core.typ = "xray" -> "panic"
          [] e \notin s.running /\ ~assets /\ core.typ = "sing" /\ core.owns -> "error"
          [] OTHER -> "ok"

\* AddNode up to core.AddNode: the core of the node runs.
Started(s, n) == [s EXCEPT !.running = @ \cup {Pick(s, n)}]
Added(s, n) ==
    [Started(s, n) EXCEPT !.at[n.tag] = Pick(s, n), !.dead = @ \ {n.tag}]

\* DelNode; xray has set ihm to nil when it was closed, and DelNode uses it.
Deleted(s, tag) == [s EXCEPT !.at[tag] = 0, !.dead = @ \ {tag}]
DelPanics(s, tag) == tag \in s.dead /\ ToLower(s.entries[s.at[tag]].typ) = "xray"

ClosedNothing(s) == s

\* Close: every core is closed and forgotten, the table of nodes is not.
SelectorClosed(s) ==
    [s EXCEPT !.running = {}, !.dead = {t \in Tag : s.at[t] # 0}]

-----------------------------------------------------------------------------
(* conf/watch.go *)

\* An event starts a goroutine, unless another did less than ten seconds ago.
Notify ==
    /\ window = "open" /\ window' = "delay"
    /\ \E g \in Gen : /\ pc[g] = "none" /\ \A h \in 1..g - 1 : pc[h] # "none"
                      /\ pc' = [pc EXCEPT ![g] = "delay"]

Ignored == window # "open" /\ UNCHANGED <<pc, window>>

\* Somebody writes the file, in place or by putting another in its place.  That is an
\* event too, and the last: the watch is on the file that is gone, and is added once,
\* at the end of runServer.
Write(c, inPlace) ==
    /\ Alive /\ writes < MaxWrites
    /\ file' = c /\ writes' = writes + 1
    /\ \/ /\ proc = "up" /\ watched
          /\ watched' = inPlace
          /\ \/ Notify /\ UNCHANGED missed
             \/ Ignored /\ missed' = (missed \/ window # "delay")
       \/ /\ ~(proc = "up" /\ watched)
          /\ missed' = (missed \/ window # "delay")
          /\ UNCHANGED <<pc, window, watched>>
    /\ UNCHANGED <<proc, fails, conf, vc, sel, nodes, lims, todo, work, overlapped, cause, stuck,
                   assets>>

\* pre is ten seconds ago.
WindowOver ==
    /\ Alive /\ window = "rest" /\ window' = "open"
    /\ UNCHANGED <<proc, file, writes, fails, missed, conf, vc, sel, nodes, lims, pc, todo,
                   work, overlapped, cause, stuck, assets, watched>>

LoadOverOld(g) ==
    /\ Alive /\ pc[g] = "delay"
    /\ conf' = IF file.whole THEN file ELSE conf
    /\ window' = "rest" /\ missed' = FALSE
    /\ pc' = [pc EXCEPT ![g] = "closeNodes"]
    /\ todo' = [todo EXCEPT ![g] = nodes]
    /\ overlapped' = (overlapped \/ Active # {g})
    /\ UNCHANGED <<proc, file, writes, fails, vc, sel, nodes, lims, work, cause, stuck, assets, watched>>

LoadClosesCoreFirst(g) ==
    /\ Alive /\ pc[g] = "delay"
    /\ conf' = file
    /\ window' = "rest" /\ missed' = FALSE
    /\ pc' = [pc EXCEPT ![g] = "closeNodes"]
    /\ todo' = [todo EXCEPT ![g] = nodes]
    /\ sel' = IF vc = Nil THEN sel ELSE [sel EXCEPT ![vc] = SelectorClosed(@)]
    /\ overlapped' = (overlapped \/ Active # {g})
    /\ UNCHANGED <<proc, file, writes, fails, vc, nodes, lims, work, cause, stuck, assets, watched>>

\* After reloadDelay: the Conf is emptied and loaded, an error is only logged (with
\* what was decoded before it in place), and reload begins with nodes.Close.
Load(g) ==
    /\ Alive /\ pc[g] = "delay"
    /\ conf' = file
    /\ window' = "rest" /\ missed' = FALSE
    /\ pc' = [pc EXCEPT ![g] = "closeNodes"]
    /\ todo' = [todo EXCEPT ![g] = nodes]
    /\ overlapped' = (overlapped \/ Active # {g})
    /\ UNCHANGED <<proc, file, writes, fails, vc, sel, nodes, lims, work, cause, stuck, assets, watched>>

-----------------------------------------------------------------------------
(* node/node.go, closeControllers: Controller.Close of one after the other, *)
(* errors are logged.                                                       *)

Crash(why) == proc' = "crashed" /\ cause' = why /\ UNCHANGED pc

CloseController(g) ==
    LET c == Head(todo[g])
    IN  /\ Alive /\ todo[g] # <<>>
        /\ todo' = [todo EXCEPT ![g] = Tail(@)]
        /\ lims' = lims \ {c.tag}
        /\ IF DelPanics(sel[c.sel], c.tag)
           THEN Crash("closedCore") /\ UNCHANGED <<sel, fails, stuck>>
           ELSE /\ UNCHANGED <<proc, cause, pc>>
                /\ \/ sel' = [sel EXCEPT ![c.sel] = Deleted(@, c.tag)] /\ UNCHANGED <<fails, stuck>>
                   \/ fails < MaxFails /\ fails' = fails + 1 /\ stuck' = TRUE /\ UNCHANGED sel
        /\ UNCHANGED <<file, writes, window, missed, conf, vc, nodes, work, overlapped, assets,
                       watched>>

NodesClose(g) == pc[g] = "closeNodes" /\ CloseController(g)

NodesClosed(g) ==
    /\ Alive /\ pc[g] = "closeNodes" /\ todo[g] = <<>>
    /\ nodes' = <<>>
    /\ pc' = [pc EXCEPT ![g] = "closeCore"]
    /\ UNCHANGED <<proc, file, writes, fails, window, missed, conf, vc, sel, lims, todo, work,
                   overlapped, cause, stuck, assets, watched>>

-----------------------------------------------------------------------------
(* cmd/server.go *)

\* runServer reads the file it was given.
RunServer(c) ==
    /\ proc = "off"
    /\ file' = c /\ conf' = c
    /\ proc' = IF c.whole THEN "init" ELSE "exited"
    /\ UNCHANGED <<writes, fails, window, missed, vc, sel, nodes, lims, pc, todo, work,
                   overlapped, cause, stuck, assets, watched>>

\* An error ends runServer, and the process with it, or only the reload.
Fails(g) ==
    /\ pc' = [pc EXCEPT ![g] = "failed"]
    /\ proc' = IF g = 1 THEN "exited" ELSE proc
    /\ UNCHANGED cause

OneMoreFails == fails < MaxFails /\ fails' = fails + 1

\* vc.Close.  The entries are cleared even when a core reports an error.
CloseCore(g) ==
    /\ Alive /\ pc[g] = "closeCore"
    /\ \/ vc = Nil /\ Crash("nilCore") /\ UNCHANGED <<sel, fails>>
       \/ /\ vc # Nil
          /\ sel' = [sel EXCEPT ![vc] = SelectorClosed(@)]
          /\ \/ pc' = [pc EXCEPT ![g] = "newCore"] /\ UNCHANGED <<proc, fails, cause>>
             \/ OneMoreFails /\ Fails(g)
    /\ UNCHANGED <<file, writes, window, missed, conf, vc, nodes, lims, todo, work, overlapped,
                   stuck, assets, watched>>

\* NewCore: nothing is started yet.  vc is assigned even when there is an error.
NewCore(g) ==
    /\ Alive /\ pc[g] = "newCore"
    /\ IF conf.cores # <<>> /\ \A e \in 1..Len(conf.cores) : ToLower(conf.cores[e].typ) \in CoreTypes
       THEN /\ vc' = g
            /\ sel' = [sel EXCEPT ![g] = [NoSelector EXCEPT !.entries = conf.cores]]
            /\ pc' = [pc EXCEPT ![g] = "startCore"]
            /\ UNCHANGED <<proc, cause>>
       ELSE vc' = Nil /\ Fails(g) /\ UNCHANGED sel
    /\ UNCHANGED <<file, writes, fails, window, missed, conf, nodes, lims, todo, work, overlapped,
                   stuck, assets, watched>>

\* vc.Start: the cores with inbounds of their own, in order, up to one that fails;
\* then nodes.Start gets the nodes and vc.
StartCore(g) ==
    LET own == Owning(sel[vc])
    IN  /\ Alive /\ pc[g] = "startCore"
        /\ \/ vc = Nil /\ Crash("nilCore") /\ UNCHANGED <<sel, fails, work>>
           \/ /\ vc # Nil /\ \A e \in own : Create(sel[vc], e) = "ok"
              /\ sel' = [sel EXCEPT ![vc].running = @ \cup own]
              /\ pc' = [pc EXCEPT ![g] = "startNodes"]
              /\ work' = [work EXCEPT ![g] = [nodes |-> conf.nodes, sel |-> vc, up |-> 0]]
              /\ UNCHANGED <<proc, cause, fails>>
           \/ /\ vc # Nil
              /\ \E e \in own \ sel[vc].running :
                    /\ \A d \in own : d < e => Create(sel[vc], d) = "ok"
                    /\ sel' = [sel EXCEPT ![vc].running = @ \cup {d \in own : d < e}]
                    /\ CASE Create(sel[vc], e) = "panic" -> Crash("create") /\ UNCHANGED fails
                         [] Create(sel[vc], e) = "error" -> Fails(g) /\ UNCHANGED fails
                         [] OTHER -> Fails(g) /\ OneMoreFails
              /\ UNCHANGED work
        /\ UNCHANGED <<file, writes, window, missed, conf, vc, nodes, lims, todo, overlapped,
                       stuck, assets, watched>>

Begun(w) == [i \in 1..w.up |-> [sel |-> w.sel, tag |-> w.nodes[i].tag]]

\* AddNode of the Selector and of the core: "error" when there is no core for the node
\* or it cannot be made, and where a panic comes from.
AddNode(s, n) ==
    LET made == Create(s, Pick(s, n))
    IN  CASE Pick(s, n) = 0 -> "error"
          [] Pick(s, n) # 0 /\ made = "panic" -> "create"
          [] Pick(s, n) # 0 /\ made = "error" -> "error"
          [] Pick(s, n) # 0 /\ made = "ok" ->
                 IF ToLower(s.entries[Pick(s, n)].typ) \in n.panics THEN "addNode" ELSE "ok"

\* Node.Start, one controller.  Controller.Start registers the limiter, then adds
\* the node.  It fails before either, or after the first with the core started or
\* not, or when the users are added.  Without a tag there is nothing to close.
StartController(g) ==
    LET w == work[g]
        n == w.nodes[w.up + 1]
        s == sel[w.sel]
        c == [sel |-> w.sel, tag |-> n.tag]
        Undo(controllers) == /\ pc' = [pc EXCEPT ![g] = "undo"]
                             /\ todo' = [todo EXCEPT ![g] = controllers]
                             /\ UNCHANGED <<work, proc, cause>>
        added == AddNode(s, n)
    IN  /\ Alive /\ pc[g] = "startNodes" /\ w.up < Len(w.nodes)
        /\ \/ /\ added = "ok"
              /\ sel' = [sel EXCEPT ![w.sel] = Added(s, n)]
              /\ lims' = lims \cup {n.tag}
              /\ work' = [work EXCEPT ![g].up = @ + 1]
              /\ UNCHANGED <<proc, cause, pc, todo, fails>>
           \/ /\ added = "error"
              /\ lims' = lims \cup {n.tag} /\ Undo(Append(Begun(w), c))
              /\ UNCHANGED <<sel, fails>>
           \/ /\ added \in {"create", "addNode"} /\ Crash(added)
              /\ lims' = lims \cup {n.tag}
              /\ UNCHANGED <<sel, fails, todo, work>>
           \/ /\ OneMoreFails
              /\ Undo(Begun(w)) /\ UNCHANGED <<sel, lims>>
           \/ /\ added = "ok" /\ OneMoreFails
              /\ lims' = lims \cup {n.tag} /\ Undo(Append(Begun(w), c))
              /\ \E t \in {s, Started(s, n), Added(s, n)} : sel' = [sel EXCEPT ![w.sel] = t]
        /\ UNCHANGED <<file, writes, window, missed, conf, vc, nodes, overlapped, stuck, assets, watched>>

UndoNothing(g) ==
    /\ Alive /\ pc[g] = "undo" /\ todo[g] # <<>>
    /\ todo' = [todo EXCEPT ![g] = <<>>]
    /\ UNCHANGED <<proc, file, writes, fails, window, missed, conf, vc, sel, nodes, lims, pc,
                   work, overlapped, cause, stuck, assets, watched>>

UndoStart(g) == pc[g] = "undo" /\ CloseController(g)

StartUndone(g) ==
    /\ Alive /\ pc[g] = "undo" /\ todo[g] = <<>>
    /\ Fails(g)
    /\ UNCHANGED <<file, writes, fails, window, missed, conf, vc, sel, nodes, lims, todo, work,
                   overlapped, stuck, assets, watched>>

NodesStarted(g) ==
    /\ Alive /\ pc[g] = "startNodes" /\ work[g].up = Len(work[g].nodes)
    /\ nodes' = Begun(work[g])
    /\ pc' = [pc EXCEPT ![g] = "done"]
    /\ proc' = IF g = 1 THEN "up" ELSE proc
    /\ UNCHANGED <<file, writes, fails, window, missed, conf, vc, sel, lims, todo, work,
                   overlapped, cause, stuck, assets, watched>>

\* A signal ends the process wherever the reloads are.
Signal ==
    /\ proc = "up" /\ proc' = "exited"
    /\ UNCHANGED <<file, writes, fails, window, missed, conf, vc, sel, nodes, lims, pc, todo,
                   work, overlapped, cause, stuck, assets, watched>>

\* A file of a core is made unusable: one that nobody watches (routing, inbounds,
\* outbounds), or a DNS file that is watched and reads well but cannot be built.
EditAssets ==
    /\ Alive /\ assets /\ OneMoreFails /\ assets' = FALSE
    /\ \/ UNCHANGED <<pc, window>>
       \/ proc = "up" /\ Notify
    /\ UNCHANGED <<proc, file, writes, missed, conf, vc, sel, nodes, lims, todo, work, overlapped,
                   cause, stuck, watched>>

Step(g) ==
    \/ Load(g) \/ NodesClose(g) \/ NodesClosed(g) \/ CloseCore(g) \/ NewCore(g) \/ StartCore(g)
    \/ StartController(g) \/ UndoStart(g) \/ StartUndone(g) \/ NodesStarted(g)

Running ==
    \/ \E c \in Config \cup {NoConf}, inPlace \in BOOLEAN : Write(c, inPlace)
    \/ WindowOver \/ Signal \/ EditAssets
    \/ \E g \in Gen : Step(g)

\* A goroutine that can go on does, and ten seconds pass.
Fairness == WF_vars(WindowOver) /\ \A g \in Gen : WF_vars(Step(g))

Next == Running \/ \E c \in Config \cup {NoConf} : RunServer(c)
Spec == Init /\ [][Next]_vars /\ Fairness

-----------------------------------------------------------------------------
(* Properties.  Overlapping reloads are part of the model; most properties *)
(* are about the histories without them (README).                          *)

Quiet == proc = "up" /\ Active = {}
Serving(s) == {t \in Tag : sel[s].at[t] # 0 /\ t \notin sel[s].dead}

\* node.go:22-24, "a broken configuration cannot leak goroutines, timers or limiter
\* entries": once a reload is over every configured node is served, limited and known
\* to Node.Close, or nothing is left of any, whichever step failed (but for a node that
\* its core would not delete).
AllOrNothing ==
    Quiet /\ ~overlapped =>
        \/ /\ vc # Nil /\ lims = TagsOf(conf)
           /\ {nodes[i].tag : i \in 1..Len(nodes)} = TagsOf(conf)
           /\ \A i \in 1..Len(nodes) : nodes[i].sel = vc
           /\ Serving(vc) = TagsOf(conf)
        \/ nodes = <<>> /\ lims = {} /\ (~stuck /\ vc # Nil => Serving(vc) = {})

\* No core of an earlier Selector runs beside the one in use, so a node finds its
\* port free: the cores are closed before new ones are made.
OneSelectorRuns ==
    ~overlapped => \A s \in Gen : sel[s].running # {} => s = vc

\* node.go:56-57, "Closing must never take the whole process down": a reload never
\* closes a node whose core is closed already, whichever of its steps or of those of
\* earlier reloads failed.  (xray would dereference what its Close has set to nil.)
ClosingIsSafe == ~overlapped => cause # "closedCore"

\* The same of reloads that overlap.
ClosingNeverCrashes == cause # "closedCore"

\* selector.go:119-120, "nodes that do not name their core do not start a second
\* one": a core was brought up by such a node only if no core that ran by then, for
\* its own inbounds or for an earlier node, is one the node may use.
LazyCores ==
    LET started == work[vc].nodes
        on == [i \in 1..work[vc].up |-> sel[vc].at[started[i].tag]]
    IN  Quiet /\ ~overlapped /\ nodes # <<>> =>
            \A j \in DOMAIN on :
                LET before == Owning(sel[vc]) \cup {on[i] : i \in 1..j - 1}
                IN  started[j].coreName = "" /\ on[j] \notin before =>
                        Candidates(sel[vc], started[j]) \cap before = {}

\* What the file says in the end is served in the end, however the writes fall into
\* the delay of the watcher, unless the process ends, the last reload fails or the
\* last write falls between a load and the end of the ten seconds or after the watch
\* has ended.
SettlesOnFile ==
    <>[](\/ proc # "up" \/ overlapped \/ missed
         \/ \E g \in Gen : pc[g] = "failed" /\ \A h \in Gen : h > g => pc[h] = "none"
         \/ conf = file /\ vc # Nil /\ Serving(vc) = TagsOf(file))
=============================================================================
