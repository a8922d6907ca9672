----------------------------- MODULE BingleDapp -----------------------------
(* The Bingle smart contract, in every version deployed: the handle
   registry, the packed allow flags, the published endpoints, the Bingle$
   held by users and applications, and the methods that carry all of them
   from a retired application to its successor.

   One action is one method call.  A call is a transaction: it happens
   entirely, or an assertion of the method refuses it and nothing changes.
   The conditions a method asserts are operators of their own (names ending
   in Ok), so that a caller's step can also be the refusal.

   A flag word is a set of bit names, or None where the key is absent; the
   legacy encoding has no "migrated" bit, and its allow_static scalar 1 is
   the set {"static"}.  An endpoint record longer than 64 bytes (a member of
   Long) is split over two keys, static_endpoint (ep) and static_endpoint_x
   (epx); each key is modelled by the record its bytes come from.  ALGO is
   counted in transaction fees above the application's minimum balance.   *)
EXTENDS Integers, Sequences, FiniteSets

CONSTANTS
    Users,      \* accounts with a handle, an endpoint or flags
    Creator,    \* the account that deploys the applications
    Admin,      \* the account given as app_admin at creation
    Apps,       \* applications, in the order of their deployment
    Handles,    \* handles as users write them
    Normal,     \* the normalised form of each handle
    Address,    \* the order of addresses, which breaks ties
    Records,    \* endpoint records
    Long,       \* the records that need both endpoint keys
    None        \* an absent key

ASSUME AppsAssumption == Apps \subseteq Nat
ASSUME HandlesAssumption == None \notin Handles
ASSUME AddressAssumption ==
    /\ Address \in [Users -> Nat]
    /\ \A u, v \in Users : Address[u] = Address[v] => u = v

VARIABLES
    global,     \* the global state of each application
    local,      \* each account's local state in each application
    optedIn,    \* the accounts opted in to each application
    units,      \* Bingle$ held by each account
    hot,        \* Bingle$ held by each application account
    algo,       \* ALGO of each application account
    clawback,   \* the application that may move the asset
    now,        \* the timestamp of the latest block
    rewound     \* the applications whose LastHandleTime was set back

dapp == <<global, local, optedIn, units, hot, algo, clawback, now, rewound>>

Bits == {"static", "relay", "node", "client", "revoked", "migrated"}

Flags == {None} \cup SUBSET Bits

LocalState == [handle : Handles \cup {None}, time : Nat,
               allow : Flags, relay : BOOLEAN \cup {None},
               ep : Records \cup {None}, epx : Records \cup {None},
               sw : Records \cup {None}]

GlobalState == [made : BOOLEAN, price : Nat, last : Nat,
                admin : {Creator, Admin}, ancestors : Seq(Apps),
                pred : Apps \cup {None}, successor : Apps \cup {None}]

NoLocalState == [handle |-> None, time |-> 0, allow |-> None, relay |-> None,
                 ep |-> None, epx |-> None, sw |-> None]

-----------------------------------------------------------------------------
(* Subroutines of the contract. *)

\* _fold_allow: the two legacy scalars, or the packed word as it is.
FoldAllow(allow, relay) ==
    IF allow # None /\ "migrated" \in allow THEN allow
    ELSE {"migrated"} \cup (IF allow \in {None, {}} THEN {} ELSE {"static"})
                      \cup (IF relay = TRUE THEN {"relay"} ELSE {})

PackedAllowBits(l) == FoldAllow(l.allow, l.relay)

\* _set_allow_bit, without its assertion on the sender.
SetAllowBit(l, bit, allow) ==
    [l EXCEPT !.allow = IF allow THEN PackedAllowBits(l) \cup {bit}
                                 ELSE PackedAllowBits(l) \ {bit}]

SelfGrantIgnoringBan(l) == SetAllowBit(l, "client", TRUE)

SelfGrantSwClient(l) ==
    IF "revoked" \in PackedAllowBits(l) THEN l
    ELSE SetAllowBit(l, "client", TRUE)

ClearEndpoint(l) == [l EXCEPT !.ep = None, !.epx = None]

ClearSidewinderEndpoint(l) == [l EXCEPT !.sw = None]

IsSuperseded(a) == global[a].successor # None

\* A variant: the time of the caller is taken as it is.

NextHandleTimeAsGiven(a, time) == time

\* A handle time not used before: register and migrate_local alike.
NextHandleTime(a, time) ==
    IF time > global[a].last THEN time ELSE global[a].last + 1

-----------------------------------------------------------------------------
(* Methods for users. *)

OptIn(a, u) ==
    /\ global[a].made
    /\ optedIn' = [optedIn EXCEPT ![a] = @ \cup {u}]
    /\ UNCHANGED <<global, local, units, hot, algo, clawback, now, rewound>>

\* The inner transfer needs the clawback role, a unit, and its own fee.
BuyOk(a, paid) ==
    /\ global[a].made /\ ~IsSuperseded(a)
    /\ paid = global[a].price
    /\ clawback = a /\ hot[a] > 0 /\ algo[a] + paid > 0

BuyBingle(a, u, paid) ==
    /\ BuyOk(a, paid)
    /\ hot' = [hot EXCEPT ![a] = @ - 1]
    /\ units' = [units EXCEPT ![u] = @ + 1]
    /\ algo' = [algo EXCEPT ![a] = @ + paid - 1]
    /\ UNCHANGED <<global, local, optedIn, clawback, now, rewound>>

\* The payout in the group may come from anyone: the client pays itself.
SellOk(a, u, n) == global[a].made /\ ~IsSuperseded(a) /\ n \in 1..units[u]

SellBingle(a, u, n) ==
    /\ SellOk(a, u, n)
    /\ units' = [units EXCEPT ![u] = @ - n]
    /\ hot' = [hot EXCEPT ![a] = @ + n]
    /\ UNCHANGED <<global, local, optedIn, algo, clawback, now, rewound>>

RegisterOk(a, u) ==
    /\ global[a].made /\ ~IsSuperseded(a)
    /\ u \in optedIn[a] /\ units[u] > 0

\* The fee is taken and the time used up even when a handle is already set.
Register(a, u, handle) ==
    LET time == NextHandleTime(a, now)
        l == local[a][u]
        held == IF l.handle # None THEN l
                ELSE [l EXCEPT !.handle = handle, !.time = time]
    IN /\ RegisterOk(a, u)
       /\ global' = [global EXCEPT ![a].last = time]
       /\ local' = [local EXCEPT ![a][u] = SelfGrantSwClient(held)]
       /\ units' = [units EXCEPT ![u] = @ - 1]
       /\ hot' = [hot EXCEPT ![a] = @ + 1]
       /\ UNCHANGED <<optedIn, algo, clawback, now, rewound>>

EnrolSwClient(a, u) ==
    /\ global[a].made /\ ~IsSuperseded(a)
    /\ local[a][u].handle # None
    /\ local' = [local EXCEPT ![a][u] = SelfGrantSwClient(@)]
    /\ UNCHANGED <<global, optedIn, units, hot, algo, clawback, now, rewound>>

EndpointOk(a, u, bit) ==
    /\ global[a].made /\ ~IsSuperseded(a)
    /\ u \in optedIn[a] /\ bit \in PackedAllowBits(local[a][u])

\* An empty record (None) clears both keys; a short one clears the second.
RegisterEndpoint(a, u, record) ==
    /\ EndpointOk(a, u, "static")
    /\ local' = [local EXCEPT ![a][u] =
           IF record = None THEN ClearEndpoint(@)
           ELSE [@ EXCEPT !.ep = record,
                          !.epx = IF record \in Long THEN record ELSE None]]
    /\ UNCHANGED <<global, optedIn, units, hot, algo, clawback, now, rewound>>

RegisterSidewinderEndpoint(a, u, record) ==
    /\ EndpointOk(a, u, "node")
    /\ local' = [local EXCEPT ![a][u] =
           IF record = None THEN ClearSidewinderEndpoint(@)
           ELSE [@ EXCEPT !.sw = record]]
    /\ UNCHANGED <<global, optedIn, units, hot, algo, clawback, now, rewound>>

MigrateLocalOk(a, old, u) ==
    /\ global[a].made /\ u \in optedIn[a]
    /\ \E i \in DOMAIN global[a].ancestors : global[a].ancestors[i] = old

\* What migrate_local leaves for an account with state o in the ancestor.
Migrated(l, o, time) ==
    LET held == IF o.handle = None \/ l.handle # None THEN l
                ELSE [l EXCEPT !.handle = o.handle, !.time = time]
        flags == [held EXCEPT
            !.allow = IF o.allow = None THEN @ ELSE o.allow,
            !.relay = IF o.relay = None THEN @ ELSE o.relay]
        static == IF "static" \notin PackedAllowBits(flags) THEN flags
                  ELSE [flags EXCEPT
                      !.ep = IF o.ep = None THEN @ ELSE o.ep,
                      !.epx = IF o.epx = None THEN @ ELSE o.epx]
        node == IF "node" \notin PackedAllowBits(static) \/ o.sw = None
                THEN static ELSE [static EXCEPT !.sw = o.sw]
    IN IF node.handle = None THEN node ELSE SelfGrantSwClient(node)

MigrateLocal(a, old, u) ==
    LET l == local[a][u]
        o == local[old][u]
        time == NextHandleTime(a, o.time)
    IN /\ MigrateLocalOk(a, old, u)
       /\ local' = [local EXCEPT ![a][u] = Migrated(l, o, time)]
       /\ global' = IF o.handle = None \/ l.handle # None THEN global
                    ELSE [global EXCEPT ![a].last = time]
       /\ UNCHANGED <<optedIn, units, hot, algo, clawback, now, rewound>>

-----------------------------------------------------------------------------
(* Methods for the administrator, the withdrawer and the creator. *)

SetBinglePrice(a, sender, price) ==
    /\ global[a].made /\ sender = global[a].admin
    /\ global' = [global EXCEPT ![a].price = price]
    /\ UNCHANGED <<local, optedIn, units, hot, algo, clawback, now, rewound>>

\* The write to the target's local state needs the target opted in.
SetAllowOk(a, sender, u) ==
    global[a].made /\ sender = global[a].admin /\ u \in optedIn[a]

\* A variant: a revoke leaves what was published.
SetAllowKeeping(a, sender, u, bit, allow) ==
    /\ SetAllowOk(a, sender, u) /\ bit \in {"static", "relay", "node"}
    /\ local' = [local EXCEPT ![a][u] = SetAllowBit(@, bit, allow)]
    /\ UNCHANGED <<global, optedIn, units, hot, algo, clawback, now, rewound>>

\* set_allow_static, set_allow_relay and set_allow_sw_node: a revoke also
\* withdraws what the bit permitted to publish.
SetAllow(a, sender, u, bit, allow) ==
    /\ SetAllowOk(a, sender, u) /\ bit \in {"static", "relay", "node"}
    /\ local' = [local EXCEPT ![a][u] =
           LET l == SetAllowBit(@, bit, allow)
           IN IF allow \/ bit = "relay" THEN l
              ELSE IF bit = "static" THEN ClearEndpoint(l)
              ELSE ClearSidewinderEndpoint(l)]
    /\ UNCHANGED <<global, optedIn, units, hot, algo, clawback, now, rewound>>

SetAllowSwClient(a, sender, u, allow) ==
    /\ SetAllowOk(a, sender, u)
    /\ local' = [local EXCEPT ![a][u] =
           SetAllowBit(SetAllowBit(@, "client", allow), "revoked", ~allow)]
    /\ UNCHANGED <<global, optedIn, units, hot, algo, clawback, now, rewound>>

\* The amount is capped to the balance, and the inner transfers' fees are
\* paid from the same balance.
Withdraw(a, amount, assets) ==
    LET actual == IF amount <= algo[a] THEN amount ELSE algo[a]
        fees == (IF amount > 0 THEN 1 ELSE 0) + (IF assets > 0 THEN 1 ELSE 0)
    IN /\ global[a].made
       /\ amount > 0 => actual > 0
       /\ actual + fees <= algo[a] /\ assets <= hot[a]
       /\ algo' = [algo EXCEPT ![a] = @ - actual - fees]
       /\ hot' = [hot EXCEPT ![a] = @ - assets]
       /\ UNCHANGED <<global, local, optedIn, units, clawback, now, rewound>>

Create(a, admin) ==
    /\ ~global[a].made
    /\ global' = [global EXCEPT ![a].made = TRUE, ![a].admin = admin]
    /\ UNCHANGED <<local, optedIn, units, hot, algo, clawback, now, rewound>>

\* The lineage: the predecessor, its own lineage, and the single pointer an
\* older contract recorded.
Lineage(pred) ==
    LET first == <<pred>> \o SelectSeq(global[pred].ancestors,
                                       LAMBDA b : b # pred)
        old == global[pred].pred
    IN IF old = None \/ \E i \in DOMAIN first : first[i] = old
       THEN first ELSE Append(first, old)

SetPredecessorApp(a, pred) ==
    /\ global[a].made /\ global[pred].made
    /\ global' = [global EXCEPT ![a].ancestors = Lineage(pred)]
    /\ UNCHANGED <<local, optedIn, units, hot, algo, clawback, now, rewound>>

SetSuccessorApp(a, next) ==
    /\ global[a].made /\ global[next].made
    /\ global' = [global EXCEPT ![a].successor = next]
    /\ UNCHANGED <<local, optedIn, units, hot, algo, clawback, now, rewound>>

SetAppAdmin(a, admin) ==
    /\ global[a].made
    /\ global' = [global EXCEPT ![a].admin = admin]
    /\ UNCHANGED <<local, optedIn, units, hot, algo, clawback, now, rewound>>

\* LastHandleTime is overwritten, whatever this application has handed out.
MigrateGlobal(a, old) ==
    /\ global[a].made /\ global[old].made
    /\ global' = [global EXCEPT
           ![a].price = global[old].price, ![a].last = global[old].last,
           ![a].admin = global[old].admin]
    /\ rewound' = IF \E u \in Users : /\ local[a][u].handle # None
                                     /\ local[a][u].time > global[old].last
                  THEN rewound \cup {a} ELSE rewound
    /\ UNCHANGED <<local, optedIn, units, hot, algo, clawback, now>>

MigrateReserve(a, next, withAsset) ==
    LET fees == IF withAsset THEN 2 ELSE 1
        amount == IF algo[a] > fees THEN algo[a] - fees ELSE 0
        assets == IF withAsset THEN hot[a] ELSE 0
        paid == (IF amount > 0 THEN 1 ELSE 0) + (IF assets > 0 THEN 1 ELSE 0)
    IN /\ global[a].made /\ global[next].made /\ a # next
       /\ amount + paid <= algo[a]
       /\ algo' = [algo EXCEPT ![a] = @ - amount - paid, ![next] = @ + amount]
       /\ hot' = [hot EXCEPT ![a] = @ - assets, ![next] = @ + assets]
       /\ UNCHANGED <<global, local, optedIn, units, clawback, now, rewound>>

\* set_asset_clawback_to_app, signed by the asset's manager.
SetClawback(a) ==
    /\ clawback' = a
    /\ UNCHANGED <<global, local, optedIn, units, hot, algo, now, rewound>>

\* The manager moves n units between application accounts.
ClawbackAsset(from, to, n) ==
    /\ clawback = None /\ from # to /\ n <= hot[from]
    /\ hot' = [hot EXCEPT ![from] = @ - n, ![to] = @ + n]
    /\ UNCHANGED <<global, local, optedIn, units, algo, clawback, now, rewound>>

Block ==
    /\ now' = now + 1
    /\ UNCHANGED <<global, local, optedIn, units, hot, algo, clawback, rewound>>

-----------------------------------------------------------------------------
(* What the clients compute from the chain's state. *)

\* AlgoBingle::effective_allow_bits, the readers' fold of the same words.
EffectiveAllowBits(l) ==
    IF l.allow # None /\ "migrated" \in l.allow THEN l.allow
    ELSE {b \in {"static"} : l.allow \notin {None, {}}}
         \cup {b \in {"relay"} : l.relay = TRUE}

\* The accounts a view of the registry shows under a normalised handle.
Holders(view, a, name) ==
    {u \in Users : /\ view[a][u].handle # None
                   /\ Normal[view[a][u].handle] = name}

Older(view, a, u, v) ==
    \/ view[a][u].time < view[a][v].time
    \/ view[a][u].time = view[a][v].time /\ Address[u] <= Address[v]

\* pick_oldest_match: the holder a lookup answers with.
IsOwner(view, a, name, u) ==
    /\ u \in Holders(view, a, name)
    /\ \A v \in Holders(view, a, name) : Older(view, a, u, v)

Names == {Normal[h] : h \in Handles}

-----------------------------------------------------------------------------
(* The contract under any sequence of calls. *)

ContractInit ==
    /\ global \in [Apps -> GlobalState]
    /\ \A a \in Apps : global[a].last = 0
    /\ local = [a \in Apps |-> [u \in Users |-> NoLocalState]]
    /\ optedIn = [a \in Apps |-> {}]
    /\ units \in [Users -> Nat] /\ hot \in [Apps -> Nat]
    /\ algo \in [Apps -> Nat] /\ clawback \in Apps \cup {None}
    /\ now \in Nat /\ rewound = {}

UserCall(a, u) ==
    \/ OptIn(a, u)
    \/ \E paid \in Nat : BuyBingle(a, u, paid)
    \/ \E n \in Nat : SellBingle(a, u, n)
    \/ \E h \in Handles : Register(a, u, h)
    \/ EnrolSwClient(a, u)
    \/ \E r \in Records \cup {None} :
          RegisterEndpoint(a, u, r) \/ RegisterSidewinderEndpoint(a, u, r)
    \/ \E old \in Apps : MigrateLocal(a, old, u)
    \/ \E s \in {Creator, Admin}, bit \in Bits, allow \in BOOLEAN :
          SetAllow(a, s, u, bit, allow) \/ SetAllowSwClient(a, s, u, allow)

\* Every call of the creator and the administrator but migrate_global.
AdminCall(a) ==
    \/ \E s \in {Creator, Admin}, price \in Nat : SetBinglePrice(a, s, price)
    \/ \E amount, assets \in Nat : Withdraw(a, amount, assets)
    \/ \E s \in {Creator, Admin} : Create(a, s) \/ SetAppAdmin(a, s)
    \/ \E b \in Apps : SetPredecessorApp(a, b) \/ SetSuccessorApp(a, b)
    \/ \E b \in Apps, asset \in BOOLEAN : MigrateReserve(a, b, asset)
    \/ SetClawback(a)
    \/ \E b \in Apps, n \in Nat : ClawbackAsset(a, b, n)

ContractNext ==
    \/ \E a \in Apps : AdminCall(a) \/ \E u \in Users : UserCall(a, u)
    \/ \E a, b \in Apps : MigrateGlobal(a, b)
    \/ Block

ContractSpec == ContractInit /\ [][ContractNext]_dapp

-----------------------------------------------------------------------------
(* Handles have one owner. *)

\* Two accounts of an application never hold the same handle time, and none
\* is later than the last one handed out: register and migrate_local draw
\* from one sequence, whichever order they come in.  Only migrate_global can
\* set that sequence back.
HandleTimesDistinct ==
    \A a \in Apps \ rewound : \A u \in Users :
        local[a][u].handle # None =>
            /\ local[a][u].time <= global[a].last
            /\ \A v \in Users \ {u} : local[a][v].handle # None
                                      => local[a][u].time # local[a][v].time

\* The owner of a handle stays its owner: no later registration, migration
\* or flag change of anyone gives the handle to another account.
OwnerStable ==
    [][\A a \in Apps \ rewound', name \in Names, u \in Users :
          IsOwner(local, a, name, u) => IsOwner(local', a, name, u)]_dapp

=============================================================================
