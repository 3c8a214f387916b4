------------------------------ MODULE Dispatch -------------------------------
(***************************************************************************)
(* Connections of one user on their way through a core, while the node     *)
(* controller reloads the node under the same tag: xray's                  *)
(* DefaultDispatcher (core/xray/app/dispatcher/default.go), the hook of    *)
(* sing (core/sing/hook.go), the rules (limiter/rule.go) and the order in  *)
(* which a reload (node/task.go, core/xray/node.go) takes the parts of     *)
(* the node down and puts the new ones up.                                 *)
(*                                                                         *)
(* ConnLimiter is the state of one limiter, the one that outlives the      *)
(* reload: a node with a name keeps its limiter, any other gets a second   *)
(* one under the same tag.  A connection metered by the limiter that was   *)
(* replaced is let through or rejected, and is of no account here.         *)
(*                                                                         *)
(* A reload that fails stops where it is, until the next pull tries again  *)
(* (NodeController); here it may stop after any step.                      *)
(***************************************************************************)
EXTENDS ConnLimiter, Sequences

VARIABLES core,     \* the core of the node, "xray" or "sing"
          named,    \* Options.Name is set: a reload keeps tag and limiter
          reload,   \* steps of the reload taken
          inbound,  \* the inbound of the tag: "old", "gone" or "new"
          outbound, \* xray: the outbound of the tag exists
          users,    \* the users are known to the inbound
          reg,      \* what GetLimiter(tag) returns
          rules,    \* the rules of both limiters
          conn      \* what each connection carries along

nodeVars == <<core, named, reload, inbound, outbound, users, reg, rules>>
limVars == <<user, pc, call, sweep, sweeps, conf, raced>>
dispatchVars == <<limVars, nodeVars, conn>>

Limiters == {"first", "second"}
Closed == [stage |-> "closed", born |-> "old", lim |-> "none",
           saw |-> "none", exit |-> "none"]

\* The limiter of the controller after the reload, the one ConnLimiter stands for.
Lasting == IF named THEN "first" ELSE "second"

DispatchTypeOK ==
    /\ TypeOK
    /\ core \in {"xray", "sing"} /\ named \in BOOLEAN /\ reload \in 0..9
    /\ inbound \in {"old", "gone", "new"} /\ outbound \in BOOLEAN /\ users \in BOOLEAN
    /\ reg \in Limiters \cup {"none"}
    /\ rules \in [Limiters -> {"none", "old", "torn", "new"}]
    /\ conn \in [Conn ->
          [stage : {"closed", "shaken", "metering", "metered", "sniffed", "ruled",
                    "open", "leaving"},
           born : {"old", "new"}, lim : Limiters \cup {"none"},
           saw : {"none", "old", "torn", "new"},
           exit : {"none", "forced", "routed", "own", "default"}]]

DispatchInit ==
    /\ Init
    /\ core \in {"xray", "sing"} /\ named \in BOOLEAN /\ reload = 0
    /\ inbound = "old" /\ outbound = TRUE /\ users = TRUE
    /\ reg = "first" /\ rules = [first |-> "old", second |-> "none"]
    /\ conn = [c \in Conn |-> Closed]

Carry(c, r) == conn' = [conn EXCEPT ![c] = r]
At(c, stage) == conn[c].stage = stage
To(c, stage) == Carry(c, [conn[c] EXCEPT !.stage = stage])

-----------------------------------------------------------------------------
(* The reload *)

RulesLast ==
    <<"delInbound", "delOutbound", "delLimiter", "addLimiter",
      "addInbound", "addOutbound", "addUsers", "makeRules", "setRules">>

UsersBeforeOutbound ==
    <<"delInbound", "delOutbound", "delLimiter", "addLimiter",
      "makeRules", "setRules", "addInbound", "addUsers", "addOutbound">>

\* DelNode, DeleteLimiter, AddLimiter, UpdateRule (a fresh list, filled one by
\* one), AddNode, AddUsers.
ReloadOrder ==
    <<"delInbound", "delOutbound", "delLimiter", "addLimiter",
      "makeRules", "setRules", "addInbound", "addOutbound", "addUsers">>

ReloadStep ==
    /\ reload < Len(ReloadOrder)
    /\ reload' = reload + 1
    /\ LET step == ReloadOrder[reload + 1] IN
       /\ inbound' = CASE step = "delInbound" -> "gone"
                       [] step = "addInbound" -> "new"
                       [] OTHER -> inbound
       /\ users' = CASE step = "delInbound" -> FALSE
                     [] step = "addUsers" -> TRUE
                     [] OTHER -> users
       /\ outbound' = CASE step = "delOutbound" -> FALSE
                        [] step = "addOutbound" -> TRUE
                        [] OTHER -> outbound
       /\ reg' = CASE step = "delLimiter" /\ ~named -> "none"
                   [] step = "addLimiter" /\ ~named -> "second"
                   [] OTHER -> reg
       /\ rules' = CASE step = "makeRules" -> [rules EXCEPT ![Lasting] = "torn"]
                     [] step = "setRules" -> [rules EXCEPT ![Lasting] = "new"]
                     [] OTHER -> rules
    /\ UNCHANGED <<limVars, core, named, conn>>

-----------------------------------------------------------------------------
(* A connection *)

\* The inbound knows the user.  Its dispatch may be much later: the streams of a
\* multiplexed connection go on after the inbound is removed.
Handshake(c, i, k) ==
    /\ At(c, "closed") /\ pc[c] = "idle"
    /\ inbound # "gone" /\ users
    /\ ip' = [ip EXCEPT ![c] = i] /\ kind' = [kind EXCEPT ![c] = k]
    /\ Carry(c, [Closed EXCEPT !.stage = "shaken", !.born = inbound])
    /\ UNCHANGED <<user, pc, held, seen, sweep, sweeps, conf, raced, nodeVars>>

\* getLink, wrapLink, RoutedConnection: no limiter under the tag.
\* xray rejects the connection, sing lets it through unmetered.
NoLimiter(c) ==
    /\ At(c, "shaken") /\ reg = "none"
    /\ IF core = "xray" THEN Carry(c, Closed) ELSE To(c, "open")
    /\ UNCHANGED <<limVars, nodeVars>>

CheckLimit(c) ==
    /\ At(c, "shaken") /\ reg = Lasting
    /\ Accept(c, ip[c], kind[c])
    /\ Carry(c, [conn[c] EXCEPT !.stage = "metering", !.lim = reg])
    /\ UNCHANGED nodeVars

CheckLimitReplaced(c) ==
    /\ At(c, "shaken") /\ reg \in Limiters \ {Lasting}
    /\ Carry(c, Closed) \/ Carry(c, [conn[c] EXCEPT !.stage = "metered", !.lim = reg])
    /\ UNCHANGED <<limVars, nodeVars>>

\* The steps of AddConnCount and DelConnCount; a call that ends with the
\* connection out of the limiter ends the connection.
Call(c) ==
    /\ At(c, "metering") \/ At(c, "leaving")
    /\ Step(c)
    /\ IF pc'[c] = "idle" THEN Carry(c, Closed) ELSE UNCHANGED conn
    /\ UNCHANGED nodeVars

\* The rest of checkLimit: the user's entry and the device limit.
Metered(c) ==
    /\ At(c, "metering")
    /\ \/ Pass(c) /\ To(c, "metered")
       \/ RejectLater(c) /\ Carry(c, Closed)
    /\ UNCHANGED nodeVars

\* xray: two attempts of 100 ms at most, with or without a protocol in the end;
\* the limiter is in the hands of the connection meanwhile.
Sniff(c) ==
    /\ core = "xray" /\ At(c, "metered")
    /\ To(c, "sniffed")
    /\ UNCHANGED <<limVars, nodeVars>>

HeldByTag(c) == reg

\* The limiter a connection gives its slot back to: the one it was metered by.
Held(c) == conn[c].lim

\* The deferred release of routedDispatch, the onClose of a tracked connection.
Release(c) ==
    /\ IF Held(c) = Lasting /\ kind[c] = "tcp"
       THEN Goto(c, "delLoad") /\ To(c, "leaving")
       ELSE Goto(c, "idle") /\ Carry(c, Closed)
    /\ UNCHANGED <<user, call, sweep, sweeps, conf, raced, nodeVars>>

\* CheckDomainRule, and CheckProtocolRule when there is a protocol: xray takes
\* the sniffed one, sing the network, which is always there.
Ready(c) == IF core = "xray" THEN At(c, "sniffed") ELSE At(c, "metered")

PassRules(c) ==
    /\ Ready(c)
    /\ Carry(c, [conn[c] EXCEPT !.stage = IF core = "xray" THEN "ruled" ELSE "open",
                                !.saw = rules[conn[c].lim]])
    /\ UNCHANGED <<limVars, nodeVars>>

\* xray leaves routedDispatch, which gives the slot back.
RejectByRule(c) ==
    /\ core = "xray" /\ Ready(c) /\ rules[conn[c].lim] # "none"
    /\ Release(c)

\* sing closes the connection before it is tracked: the slot is not given back.
RejectByRuleSing(c) ==
    /\ core = "sing" /\ Ready(c) /\ rules[conn[c].lim] # "none"
    /\ later' = IF kind[c] = "tcp" /\ conn[c].lim = Lasting THEN later + 1 ELSE later
    /\ later' <= MaxLater
    /\ Goto(c, "idle")
    /\ Carry(c, Closed)
    /\ UNCHANGED <<user, call, sweep, sweeps, connLimit, realtime, undone, raced, nodeVars>>

\* The rest of routedDispatch: the forced outbound, the one the router picks if
\* it exists, the one of the inbound's tag, the default one.
Route(c) ==
    /\ At(c, "ruled")
    /\ \E exit \in {"forced", "routed", IF outbound THEN "own" ELSE "default"} :
          Carry(c, [conn[c] EXCEPT !.stage = "open", !.exit = exit])
    /\ UNCHANGED <<limVars, nodeVars>>

\* A forced outbound that does not exist, or no default one.
NoRoute(c) == At(c, "ruled") /\ Release(c)

Close(c) == At(c, "open") /\ Release(c)

-----------------------------------------------------------------------------
Sweep == ClearOnlineIP /\ UNCHANGED <<nodeVars, conn>>

DispatchNext ==
    \/ ReloadStep
    \/ Sweep
    \/ \E c \in Conn :
          \/ \E i \in IP, k \in Kinds : Handshake(c, i, k)
          \/ NoLimiter(c) \/ CheckLimit(c) \/ CheckLimitReplaced(c)
          \/ Call(c) \/ Metered(c)
          \/ Sniff(c)
          \/ PassRules(c) \/ RejectByRule(c) \/ RejectByRuleSing(c)
          \/ Route(c) \/ NoRoute(c)
          \/ Close(c)

DispatchSpec == DispatchInit /\ [][DispatchNext]_dispatchVars

-----------------------------------------------------------------------------
(* Properties; SlotsAreExact and LimitsHold are those of ConnLimiter, here   *)
(* for a limiter that connections reach and leave across a reload.           *)

\* node/task.go:264-272 before 293: a connection of the new inbound is metered,
\* and sees the new rules, all of them.  (One that the old inbound took in may see
\* a list that is still being filled, with entries that are nil.)
RulesAreWhole ==
    \A c \in Conn :
        conn[c].born = "new" /\ conn[c].stage \in {"ruled", "open"} =>
            conn[c].lim # "none" /\ conn[c].saw = "new"

\* default.go:593-599: traffic leaves by the default outbound, another address
\* than the node's own, only if its node has been taken down since.
ExitIsOwn == \A c \in Conn : conn[c].exit = "default" => conn[c].born = "old"
=============================================================================
