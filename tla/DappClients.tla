---------------------------- MODULE DappClients ----------------------------
(* The programs that call the Bingle contract, over BingleDapp: the
   registration of a handle (run_registration and bingle_cli register, with
   the check before and the verification after it, both through an indexer
   that lags behind the chain), the start, the migration and the shutdown of
   a node process, and the deployment of a new application.

   Several processes may run with one account: a service is redeployed by
   starting the new task before the old one stops.

   A transaction is refused by the contract, fails before it is applied
   ("unsent"), or is applied although the caller sees an error
   ("unconfirmed").  These and the administrator's calls are counted
   disturbances: a world lists the kinds it has and how many may happen.  *)
EXTENDS BingleDapp

CONSTANTS
    Procs,      \* node processes
    StartsWith, \* the names that start with a name
    Record,     \* the endpoint record each process publishes
    Worlds      \* the situations considered

VARIABLES
    world,      \* the situation
    faults,     \* how many disturbances there were
    past,       \* the kinds of disturbances and rare orders there were
    seen,       \* the handles the indexer shows for the current application
    reg,        \* each user's registration
    node,       \* each process
    latest,     \* the process that published last for each user
    dep         \* the deployment of the current application

clients == <<world, seen, reg, node, latest, dep>>

vars == <<dapp, clients, faults, past>>

Fault(kind) ==
    /\ kind \in world.faults /\ faults < world.max
    /\ faults' = faults + 1 /\ past' = past \cup {kind}

Fine == UNCHANGED <<faults, past>>

\* A step in an order the properties tell apart.
Odd(cond, kind) ==
    /\ past' = IF cond THEN past \cup {kind} ELSE past
    /\ UNCHANGED faults

\* Nothing of these kinds has happened.
Calm(kinds) == kinds \cap past = {}

App == world.app

Me(p) == world.procs[p]

\* A transaction, the caller's continuation when it is confirmed, and the
\* one when the caller gets an error.
Send(Call, done, failed) ==
    \/ Call /\ done /\ Fine
    \/ Fault("unsent") /\ UNCHANGED dapp /\ failed
    \/ Fault("unconfirmed") /\ Call /\ failed

\* One that the contract refuses unless ok.
Transact(ok, Call, done, failed) ==
    \/ ok /\ Send(Call, done, failed)
    \/ ~ok /\ UNCHANGED dapp /\ failed /\ Fine

-----------------------------------------------------------------------------
(* The indexer. *)

Indexed(l) == [u \in Users |-> [handle |-> l[u].handle, time |-> l[u].time]]

View == [a \in Apps |-> seen]

CatchUp ==
    /\ seen # Indexed(local[App])
    /\ seen' = Indexed(local[App])
    /\ UNCHANGED <<dapp, world, reg, node, latest, dep>> /\ Fine

\* A variant: any holder is taken for the owner.
LooksUpAny(name, u) == u \in Holders(View, App, name)

\* handle_lookup: the account the indexer shows as the owner.
LooksUp(name, u) == IsOwner(View, App, name, u)

\* handle_lookup_partial: the first of the accounts whose handle starts with
\* the prefix, an exact match before the others.
PrefixMatches(name) ==
    {u \in Users : seen[u].handle # None /\ <<Normal[seen[u].handle], name>> \in StartsWith}

RanksBefore(name, u, v) ==
    LET exact == Holders(View, App, name)
    IN \/ u \in exact /\ v \notin exact
       \/ (u \in exact <=> v \in exact) /\ Older(View, App, u, v)

Searches(name, u) ==
    /\ u \in PrefixMatches(name)
    /\ \A v \in PrefixMatches(name) : RanksBefore(name, u, v)

\* relay_allowed_in_local_state.
RelayAllowed(u) == "relay" \in EffectiveAllowBits(local[App][u])

\* list_relay_endpoints_via_indexer_sync, once the indexer has caught up.
StaticListed(u) == local[App][u].ep # None \/ local[App][u].epx # None

RelayListed(u) == u \in optedIn[App] /\ StaticListed(u) /\ RelayAllowed(u)

-----------------------------------------------------------------------------
(* Registration and trade. *)

Wanted(u) == Normal[reg[u].handle]

Taken(u) == \E v \in Users \ {u} : LooksUp(Wanted(u), v)

Goto(u, pc) ==
    /\ reg' = [reg EXCEPT ![u].pc = pc]
    /\ UNCHANGED <<world, seen, node, latest, dep>>

Finish(u, out) ==
    /\ reg' = [reg EXCEPT ![u].pc = "idle", ![u].out = out]
    /\ UNCHANGED <<world, seen, node, latest, dep>>

\* An error of the node: bingle_cli repeats the call, the API returns.
Retry(u, pc) == IF world.cli THEN Goto(u, pc) ELSE Finish(u, "error")

Unreachable(u) == Retry(u, "precheck")

BeginRegistration(u) ==
    /\ reg[u].pc = "idle" /\ reg[u].tries < world.tries
    /\ world.cli => units[u] > 0
    /\ \E h \in world.wants[u] :
          reg' = [reg EXCEPT ![u] =
              [pc |-> IF world.cli THEN "precheck" ELSE "check", handle |-> h,
               price |-> 0, out |-> None, tries |-> @.tries + 1]]
    /\ UNCHANGED <<dapp, world, seen, node, latest, dep>> /\ Fine

\* bingle_cli buybingle and sellbingle.
BeginTrade(u) ==
    /\ reg[u].pc = "idle" /\ reg[u].tries < world.tries /\ u \in world.traders
    /\ \E pc \in {"price", "sell"} :
          reg' = [reg EXCEPT ![u].pc = pc, ![u].tries = @ + 1]
    /\ UNCHANGED <<dapp, world, seen, node, latest, dep>> /\ Fine

PreCheck(u) ==
    /\ reg[u].pc \in {"check", "precheck"} /\ UNCHANGED dapp
    /\ \/ Taken(u) /\ Finish(u, "taken") /\ Fine
       \/ /\ ~Taken(u) /\ Fine
          /\ Goto(u, IF reg[u].pc = "check" THEN "optin" ELSE "join")
       \/ Fault("unread") /\ Unreachable(u)

\* opt_in_app, before the purchase and again in register_unchecked.
OptInApp(u) ==
    LET next == IF reg[u].pc = "optin" THEN "price" ELSE "submit"
    IN /\ reg[u].pc \in {"optin", "join"}
       /\ \/ u \in optedIn[App] /\ Goto(u, next) /\ UNCHANGED dapp /\ Fine
          \/ /\ u \notin optedIn[App]
             /\ Send(OptIn(App, u), Goto(u, next), Unreachable(u))

ReadPrice(u) ==
    /\ reg[u].pc = "price"
    /\ reg' = [reg EXCEPT ![u].pc = "buy", ![u].price = global[App].price]
    /\ UNCHANGED <<dapp, world, seen, node, latest, dep>> /\ Fine

Buy(u) ==
    LET price == reg[u].price
    IN /\ reg[u].pc = "buy"
       /\ \/ /\ BuyOk(App, price)
             /\ Send(BuyBingle(App, u, price),
                     IF u \in world.traders THEN Finish(u, "traded") ELSE Goto(u, "precheck"),
                     Retry(u, "buy"))
          \/ ~BuyOk(App, price) /\ Finish(u, "error") /\ UNCHANGED dapp /\ Fine

Sell(u) ==
    /\ reg[u].pc = "sell"
    /\ \/ SellOk(App, u, 1) /\ Send(SellBingle(App, u, 1), Finish(u, "traded"), Goto(u, "sell"))
       \/ ~SellOk(App, u, 1) /\ Finish(u, "error") /\ UNCHANGED dapp /\ Fine

\* register_unchecked; the group is refused by the contract or not applied.
\* bingle_cli submits again only after an error of the node.
Submit(u) ==
    /\ reg[u].pc = "submit"
    /\ \/ /\ RegisterOk(App, u)
          /\ Send(Register(App, u, reg[u].handle), Goto(u, "verify"), Unreachable(u))
       \/ ~RegisterOk(App, u) /\ Finish(u, "error") /\ UNCHANGED dapp /\ Fine

\* verify_registration_winner: poll until the indexer shows an owner.
Verify(u) ==
    /\ reg[u].pc = "verify" /\ UNCHANGED dapp
    /\ \/ LooksUp(Wanted(u), u) /\ Finish(u, "ok") /\ Fine
       \/ Taken(u) /\ Finish(u, "lost") /\ Fine
       \/ Fault("unread") /\ Unreachable(u)

\* Fifteen polls without an answer: the caller gets Ok all the same.
VerifyTimesOut(u) ==
    /\ reg[u].pc = "verify" /\ UNCHANGED dapp
    /\ Holders(View, App, Wanted(u)) = {}
    /\ Odd(seen # Indexed(local[App]), "slow")
    /\ Finish(u, "unverified")

Registration(u) ==
    \/ PreCheck(u) \/ OptInApp(u) \/ ReadPrice(u) \/ Buy(u) \/ Sell(u) \/ Submit(u)
    \/ Verify(u) \/ VerifyTimesOut(u)

-----------------------------------------------------------------------------
(* A node process. *)

At(p, pc) ==
    /\ node' = [node EXCEPT ![p].pc = pc]
    /\ UNCHANGED <<world, seen, reg, latest, dep>>

\* run refuses to start on a superseded application; when the successor
\* cannot be read it goes on.
StartNode(p) ==
    /\ node[p].pc = "off" /\ Me(p) # None /\ global[App].made
    /\ \/ ~IsSuperseded(App) /\ Fine
       \/ IsSuperseded(App) /\ Fault("unread")
    /\ At(p, "holds") /\ UNCHANGED dapp

\* ensure_local_migrated: holds_handle, then find_migratable_ancestor.
Ancestor(u) ==
    LET anc == global[App].ancestors
        near == {i \in DOMAIN anc : u \in optedIn[anc[i]]}
    IN IF near = {} THEN None
       ELSE anc[CHOOSE i \in near : \A j \in near : i <= j]

\* A variant: being opted in is taken for having migrated.
HoldsHandleOptedIn(u) == u \in optedIn[App]

HoldsHandle(u) == local[App][u].handle # None

FindState(p) ==
    LET u == Me(p)
        found == IF HoldsHandle(u) THEN None ELSE Ancestor(u)
    IN /\ node[p].pc = "holds"
       /\ \/ /\ node' = [node EXCEPT
                   ![p].pc = IF found = None THEN "check" ELSE "optin",
                   ![p].from = found]
             /\ UNCHANGED <<world, seen, reg, latest, dep>> /\ Fine
          \/ Fault("unread") /\ At(p, "check")
       /\ UNCHANGED dapp

OptInNode(p) ==
    /\ node[p].pc = "optin"
    /\ Send(OptIn(App, Me(p)), At(p, "migrate"), At(p, "check"))

\* Copying over flags the account already has in this application is told
\* apart: a second process, or a second start of an account that has no
\* handle to copy.
MigrateNode(p) ==
    LET u == Me(p)
        over == local[App][u].allow # None
    IN /\ node[p].pc = "migrate" /\ At(p, "check")
       /\ \/ /\ MigrateLocal(App, node[p].from, u)
             /\ Odd(over, "remigrated")
          \/ Fault("unsent") /\ UNCHANGED dapp
          \/ ~over /\ Fault("unconfirmed") /\ MigrateLocal(App, node[p].from, u)

\* ensure_account_ready_or_exit: an account without a handle stops here.
CheckAccount(p) ==
    /\ node[p].pc = "check" /\ p \notin world.oneshot /\ UNCHANGED dapp
    /\ \/ HoldsHandle(Me(p)) /\ At(p, "publish") /\ Fine
       \/ ~HoldsHandle(Me(p)) /\ At(p, "off") /\ Fine
       \/ Fault("unread") /\ At(p, "publish")

\* bingle_cli migrate: the process only migrates.
MigrateOnly(p) ==
    /\ node[p].pc = "check" /\ p \in world.oneshot
    /\ At(p, "off") /\ UNCHANGED dapp /\ Fine

\* Publishing while another process is between its read and its clear is a
\* disturbance: the two chain calls of a shutdown are not atomic.
Publish(p) ==
    LET u == Me(p)
        Published(mine) ==
            /\ node' = [node EXCEPT ![p].pc = "up", ![p].mine = mine]
            /\ latest' = [latest EXCEPT ![u] = p]
            /\ UNCHANGED <<world, seen, reg, dep>>
        crossing == \E q \in Procs \ {p} : Me(q) = u /\ node[q].pc = "clear"
    IN /\ node[p].pc = "publish"
       /\ \/ /\ EndpointOk(App, u, "static") /\ Published(Record[p])
             /\ RegisterEndpoint(App, u, Record[p])
             /\ Odd(crossing, "crossed")
          \/ ~EndpointOk(App, u, "static") /\ At(p, "up") /\ UNCHANGED dapp /\ Fine
          \/ Fault("unsent") /\ At(p, "up") /\ UNCHANGED dapp
          \/ /\ EndpointOk(App, u, "static") /\ Fault("unconfirmed")
             /\ RegisterEndpoint(App, u, Record[p]) /\ Published(None)

StopNode(p) == node[p].pc = "up" /\ At(p, "read") /\ UNCHANGED dapp /\ Fine

\* The record as get_static_endpoint assembles it from the two keys.
Whole(l) == l.epx = IF l.ep \in Long THEN l.ep ELSE None

Current(u) == IF Whole(local[App][u]) THEN local[App][u].ep ELSE None

Off(p) ==
    /\ node' = [node EXCEPT ![p].pc = "off", ![p].mine = None]
    /\ UNCHANGED <<world, seen, reg, latest, dep>>

\* A variant: the record is cleared whoever published it.
ReadEndpointBlind(p) ==
    node[p].pc = "read" /\ At(p, "clear") /\ UNCHANGED dapp /\ Fine

\* should_clear_static_endpoint: only what this process published; a failed
\* read clears all the same.
ReadEndpoint(p) ==
    LET ours == node[p].mine # None /\ Current(Me(p)) = node[p].mine
    IN /\ node[p].pc = "read" /\ UNCHANGED dapp
       /\ \/ ours /\ At(p, "clear") /\ Fine
          \/ ~ours /\ Off(p) /\ Fine
          \/ Fault("unread") /\ At(p, "clear")

ClearEndpointAtStop(p) ==
    /\ node[p].pc = "clear"
    /\ Transact(EndpointOk(App, Me(p), "static"),
                RegisterEndpoint(App, Me(p), None), Off(p), Off(p))

Crash(p) == node[p].pc # "off" /\ Fault("crash") /\ Off(p) /\ UNCHANGED dapp

NodeStep(p) ==
    \/ FindState(p) \/ OptInNode(p) \/ MigrateNode(p)
    \/ CheckAccount(p) \/ MigrateOnly(p)
    \/ Publish(p) \/ ReadEndpoint(p) \/ ClearEndpointAtStop(p)

-----------------------------------------------------------------------------
(* Deploying an application in the place of world.old: deploy_app_and_asset
   with the asset kept, then the creator's migration calls.  A failed
   deployment is run again with the application it created, and then leaves
   the balances of the old one where they are.                             *)

NextStage ==
    [price |-> "clawback", reserve |-> "holding", manager |-> "move",
     move |-> "restore", restore |-> "bless", bless |-> "copy",
     copy |-> "retire", retire |-> "done"]

Stage(pc) ==
    /\ dep' = [dep EXCEPT !.pc = pc]
    /\ UNCHANGED <<world, seen, reg, node, latest>>

Redeploy ==
    /\ dep' = [dep EXCEPT !.pc = "clawback", !.again = TRUE]
    /\ UNCHANGED <<world, seen, reg, node, latest>>

DeployApp ==
    /\ dep.pc = "create" /\ Create(App, Admin) /\ Stage("price") /\ Fine

\* The creator's calls once both applications stand.
MigrationCall ==
    CASE dep.pc = "bless" -> SetPredecessorApp(App, world.old)
      [] dep.pc = "copy" -> MigrateGlobal(App, world.old)
      [] dep.pc = "retire" -> SetSuccessorApp(world.old, App)

DeployCall ==
    CASE dep.pc = "price" -> SetBinglePrice(App, Admin, 1)
      [] dep.pc \in {"clawback", "restore"} -> SetClawback(App)
      [] dep.pc = "reserve" -> MigrateReserve(world.old, App, FALSE)
      [] dep.pc = "manager" -> SetClawback(None)
      [] dep.pc = "move" -> ClawbackAsset(world.old, App, dep.units)
      [] OTHER -> MigrationCall

DeployNext ==
    IF dep.pc = "clawback" THEN IF dep.again THEN "bless" ELSE "reserve"
    ELSE NextStage[dep.pc]

\* The migration calls are single commands the creator repeats.
DeployFails ==
    IF dep.pc \in {"bless", "copy", "retire"} THEN Stage(dep.pc)
    ELSE Redeploy

DeployStep ==
    /\ dep.pc \notin {"create", "done", "holding"}
    /\ \/ DeployCall /\ Stage(DeployNext) /\ Fine
       \/ Fault("unsent") /\ UNCHANGED dapp /\ DeployFails
       \/ Fault("unconfirmed") /\ DeployCall /\ DeployFails

\* transfer_old_app_asset_balance reads what it will move.
ReadHolding ==
    /\ dep.pc = "holding"
    /\ dep' = [dep EXCEPT !.units = hot[world.old],
                          !.pc = IF hot[world.old] = 0 THEN "bless" ELSE "manager"]
    /\ UNCHANGED <<dapp, world, seen, reg, node, latest>> /\ Fine

-----------------------------------------------------------------------------
(* Single calls of the administrator and of users. *)

Sender == global[App].admin

ChangePrice ==
    Fault("price") /\ \E n \in {0, 2} : SetBinglePrice(App, Sender, n)

ChangeFlag(kind, allow) ==
    /\ Fault(kind)
    /\ \E u \in Users, bit \in {"static", "relay", "node"} :
          SetAllow(App, Sender, u, bit, allow)

ChangeClient(kind, allow) ==
    Fault(kind) /\ \E u \in Users : SetAllowSwClient(App, Sender, u, allow)

Enrol == Fault("enrol") /\ \E u \in Users : EnrolSwClient(App, u)

WithdrawFunds == Fault("withdraw") /\ \E n, k \in 0..2 : Withdraw(App, n, k)

ReplaceAdmin == Fault("admin") /\ SetAppAdmin(App, Creator)

Retire == Fault("retire") /\ \E b \in Apps : SetSuccessorApp(App, b)

PublishSidewinder ==
    /\ Fault("sidewinder")
    /\ \E u \in Users, r \in Records \cup {None} :
          RegisterSidewinderEndpoint(App, u, r)

Administer ==
    /\ \/ ChangePrice \/ ChangeFlag("revoke", FALSE) \/ ChangeFlag("grant", TRUE)
       \/ ChangeClient("ban", FALSE) \/ ChangeClient("pardon", TRUE) \/ Enrol
       \/ WithdrawFunds \/ ReplaceAdmin \/ Retire \/ PublishSidewinder
       \/ Fault("block") /\ Block
    /\ UNCHANGED clients

-----------------------------------------------------------------------------

Init ==
    /\ world \in Worlds
    /\ global = world.chain.global /\ local = world.chain.local
    /\ optedIn = world.chain.optedIn /\ units = world.chain.units
    /\ hot = world.chain.hot /\ algo = [a \in Apps |-> 3]
    /\ clawback = world.chain.clawback /\ now = 2 /\ rewound = {}
    /\ faults = 0 /\ past = {}
    /\ seen = Indexed(local[App])
    /\ reg = [u \in Users |-> [pc |-> "idle", handle |-> None, price |-> 0,
                               out |-> None, tries |-> 0]]
    /\ node = [p \in Procs |-> [pc |-> "off", from |-> None, mine |-> None]]
    /\ latest = [u \in Users |-> None]
    /\ dep = [pc |-> IF world.deploy THEN "create" ELSE "done",
              again |-> FALSE, units |-> 0]

Next ==
    \/ CatchUp \/ DeployApp \/ DeployStep \/ ReadHolding \/ Administer
    \/ \E u \in Users : BeginRegistration(u) \/ BeginTrade(u) \/ Registration(u)
    \/ \E p \in Procs : StartNode(p) \/ NodeStep(p) \/ StopNode(p) \/ Crash(p)

Spec == Init /\ [][Next]_vars

FairSpec ==
    /\ Spec
    /\ WF_vars(CatchUp) /\ WF_vars(DeployApp) /\ WF_vars(DeployStep) /\ WF_vars(ReadHolding)
    /\ \A u \in Users : WF_vars(Registration(u))
    /\ \A p \in Procs : WF_vars(StartNode(p)) /\ WF_vars(NodeStep(p))

-----------------------------------------------------------------------------
(* Properties. *)

\* Every variable has its type.
TypeOK ==
    /\ \A a \in Apps : [global[a] EXCEPT !.ancestors = <<>>] \in
          [made : BOOLEAN, price : Nat, last : Nat, admin : {Creator, Admin},
           ancestors : {<<>>}, pred : Apps \cup {None}, successor : Apps \cup {None}]
    /\ \A a \in Apps : local[a] \in [Users -> LocalState] /\ optedIn[a] \subseteq Users
    /\ units \in [Users -> Nat] /\ hot \in [Apps -> Nat] /\ algo \in [Apps -> Nat]
    /\ clawback \in Apps \cup {None}
    /\ \A p \in Procs : node[p].mine \in {None, Record[p]}

\* A lookup answered from an indexer that lags behind names the account that
\* owns the handle now.
StaleLookupRight ==
    App \notin rewound =>
        \A name \in Names, u \in Users :
            LooksUp(name, u) => IsOwner(local, App, name, u)

\* A registration whose verification succeeded owns its handle, whatever
\* other registrations ran at the same time.
RegisteredIsOwner ==
    App \notin rewound =>
        \A u \in Users : reg[u].out = "ok" => IsOwner(local, App, Wanted(u), u)

\* A search for a whole handle puts its owner first, before accounts whose
\* older handles only start with it.
SearchFindsOwner ==
    \A name \in Names, u, v \in Users :
        LooksUp(name, u) /\ Searches(name, v) => u = v

\* Every relay the scan of the accounts offers to clients may act as a relay
\* and may publish, by the flags as the contract reads them, and is listed
\* with a record one process published whole.
ListedArePermitted ==
    Calm({"remigrated"}) =>
        \A u \in Users : RelayListed(u) =>
            /\ {"static", "relay"} \subseteq PackedAllowBits(local[App][u])
            /\ Current(u) # None

\* An account has a published endpoint only while it may publish one.
EndpointPermitted ==
    Calm({"remigrated"}) =>
        \A a \in Apps, u \in Users :
            LET l == local[a][u]
            IN /\ l.ep # None \/ l.epx # None => "static" \in PackedAllowBits(l)
               /\ l.sw # None => "node" \in PackedAllowBits(l)

\* The two keys of an endpoint always hold the halves of one record.
EndpointWhole ==
    Calm({"remigrated"}) => \A a \in Apps, u \in Users : Whole(local[a][u])

\* A client an administrator banned stays banned until one pardons it:
\* registering, enrolling or migrating does not lift the ban.
BanHolds ==
    [][\A a \in Apps, u \in Users :
          "revoked" \in PackedAllowBits(local[a][u]) =>
              \/ /\ "revoked" \in PackedAllowBits(local[a][u])'
                 /\ "client" \notin PackedAllowBits(local[a][u])'
              \/ SetAllowSwClient(a, global[a].admin, u, TRUE)
              \/ ~Calm({"remigrated"})']_vars

\* The endpoint of the process that published last stays published while
\* the process runs: the shutdown of an older process with the same account
\* does not remove it.
NewestKept ==
    Calm({"crossed", "unread", "revoke", "remigrated"}) =>
        \A p \in Procs :
            /\ node[p].pc \in {"up", "read"} /\ node[p].mine # None
            /\ latest[Me(p)] = p
            => local[App][Me(p)].ep = node[p].mine

\* When every process of an account has shut down in good order, nothing is
\* left published for it.
CleanedUp ==
    Calm({"unsent", "unconfirmed", "crash", "unread", "retire", "crossed",
          "revoke", "grant", "remigrated"}) =>
        \A p \in Procs :
            /\ Me(p) # None /\ latest[Me(p)] # None
            /\ \A q \in Procs : Me(q) = Me(p) => node[q].pc = "off"
            => local[App][Me(p)].ep = None

\* After a deployment, run once or run again after a failure, the new
\* application has the clawback role it needs to sell Bingle$.
CanSell ==
    world.deploy /\ dep.pc \in {"bless", "copy", "retire", "done"}
        => clawback = App

\* An account with a handle in an ancestor comes to hold it in the new
\* application once its node is started again.
Migrates ==
    <>[](\A p \in Procs :
            Me(p) # None /\ global[App].ancestors # <<>> =>
                LET old == Ancestor(Me(p))
                IN old # None /\ local[old][Me(p)].handle # None
                       => local[App][Me(p)].handle # None \/ IsSuperseded(App))

\* Whoever asks is given the owner of a handle: a lookup in an indexer that
\* lags, a registration that verifies itself, and a search.
NamesOwner == StaleLookupRight /\ RegisteredIsOwner /\ SearchFindsOwner

\* What is published is whole and permitted, in the account and in the list
\* of relays, however grants, revocations and migrations interleave.
EndpointsSound ==
    TypeOK /\ ListedArePermitted /\ EndpointPermitted /\ EndpointWhole

\* Of several processes with one account the newest is published, and after
\* all of them nothing is.
NewestStays == NewestKept /\ CleanedUp

\* A deployment, run once or again after a failure, leaves an application
\* that can sell, and that the accounts of the old one come to.
SuccessorWorks == []CanSell /\ Migrates

=============================================================================
