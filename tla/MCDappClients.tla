--------------------------- MODULE MCDappClients ---------------------------
(***************************************************************************)
(* Small cases for the contract and its clients.  Application 1 has the    *)
(* oldest, unpacked flags; 2 follows it.                                   *)
(***************************************************************************)
EXTENDS DappClients, TLC

CONSTANTS u1, u2, p1, p2, creator, admin, short, long, h1, H1, h2

MCUsers == {u1, u2}
MCAddress == u1 :> 2 @@ u2 :> 1
MCNormal == h1 :> h1 @@ H1 :> h1 @@ h2 :> h2
MCStartsWith == {<<h1, h1>>, <<h2, h2>>, <<h2, h1>>}
MCRecord == p1 :> long @@ p2 :> short

Deployed(last) == [made |-> TRUE, price |-> 1, last |-> last, admin |-> admin,
                   ancestors |-> <<>>, pred |-> None, successor |-> None]
NotDeployed == [Deployed(0) EXCEPT !.made = FALSE, !.price = 0]

L(handle, time, allow, relay, ep, epx, sw) ==
    [handle |-> handle, time |-> time, allow |-> allow, relay |-> relay,
     ep |-> ep, epx |-> epx, sw |-> sw]
\* Accounts as versions of the contract left them.
Legacy == L(h1, 1, {"static"}, TRUE, long, long, None)
LegacyPlain == L(H1, 2, None, None, None, None, None)
Packed(handle, time, bits) == L(handle, time, {"migrated"} \cup bits, None, None, None, None)
Unnamed == L(None, 0, {"migrated", "static", "node"}, None, short, None, short)

Chain(g2, l1, l2, in1, in2, n, back) ==
    [global |-> 1 :> Deployed(2) @@ 2 :> g2,
     local |-> 1 :> l1 @@ 2 :> l2, optedIn |-> 1 :> in1 @@ 2 :> in2,
     units |-> [x \in MCUsers |-> n], hot |-> 1 :> 3 @@ 2 :> 0, clawback |-> back]
Nobody == [x \in MCUsers |-> NoLocalState]
Only(x, l) == [y \in MCUsers |-> IF y = x THEN l ELSE NoLocalState]
Both(a, b) == u1 :> a @@ u2 :> b

World(app, chain, wants, procs, deploy, cli, fs, n) ==
    [app |-> app, old |-> 1, chain |-> chain, wants |-> wants, procs |-> procs,
     deploy |-> deploy, cli |-> cli, tries |-> 1, traders |-> {}, oneshot |-> {}, faults |-> fs, max |-> n]

NoProcs == [x \in {p1, p2} |-> None]
NoWants == [x \in MCUsers |-> {}]
Race == Both({h1}, {H1, h2})
Fresh(n) == Chain(NotDeployed, Nobody, Nobody, {}, {}, n, 1)

\* Two users register on one application.
Registering ==
    {World(1, Fresh(0), Race, NoProcs, FALSE, FALSE, {f}, 1) :
        f \in {"unsent", "unconfirmed", "unread", "price", "retire", "block"}}
    \cup {World(1, Fresh(1), Race, NoProcs, FALSE, TRUE, {f}, 1) :
        f \in {"unconfirmed", "unread", "withdraw", "enrol", "ban"}}
    \cup {World(1, Fresh(1), Race, NoProcs, FALSE, TRUE, {"ban", "pardon"}, 2),
          [World(1, Fresh(0), Race, NoProcs, FALSE, FALSE, {}, 0) EXCEPT !.tries = 2],
          [World(1, Fresh(1), Both({}, {h1}), NoProcs, FALSE, TRUE, {"unsent", "unconfirmed", "price"}, 2)
               EXCEPT !.tries = 2, !.traders = {u1}]}

\* Two processes of one account, or of two, on one application.
Running ==
    {World(1, Chain(NotDeployed, Only(u1, Packed(h1, 1, {"static", "node", "relay"})), Nobody, {u1}, {}, 0, 1),
           NoWants, p1 :> u1 @@ p2 :> u1, FALSE, FALSE, {f}, 1) :
        f \in {"unsent", "unconfirmed", "unread", "crash", "revoke", "grant",
               "sidewinder", "admin"}}
    \cup {World(1, Chain(NotDeployed, Only(u1, Packed(h1, 1, {"static"})), Nobody, {u1}, {}, 0, 1),
                NoWants, p1 :> u1 @@ p2 :> u1, FALSE, FALSE, {"retire", "unread"}, 2)}

\* A new application is deployed while accounts of the old one are running.
Upgrade(l, procs, f) ==
    World(2, Chain(NotDeployed, l, Nobody, {u1, u2}, {}, 1, 1), NoWants, procs, TRUE, FALSE, {f}, 1)
Named == Both(Legacy, LegacyPlain)
Banned == Both(Unnamed, Packed(h1, 2, {"revoked"}))
Upgrading ==
    {Upgrade(Named, p1 :> u1 @@ p2 :> u2, "unsent"), Upgrade(Named, p1 :> u1 @@ p2 :> u1, "ban"),
     [Upgrade(Banned, p1 :> u1 @@ p2 :> u2, "unconfirmed") EXCEPT !.oneshot = {p2}]}

\* One account migrates while another registers its handle anew.
Following ==
    {World(2, Chain([Deployed(0) EXCEPT !.ancestors = <<1>>], Named, Nobody, {u1, u2}, {}, 1, 2),
           Both({}, {H1}), p1 :> u1 @@ p2 :> u2, FALSE, TRUE, {"crash"}, 1)}

MCWorlds == Registering \cup Running \cup Upgrading \cup Following

=============================================================================
