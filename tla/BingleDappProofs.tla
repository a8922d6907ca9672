-------------------------- MODULE BingleDappProofs --------------------------
(* Proofs about the Bingle contract, for any set of applications, users and
   handles and any sequence of calls: the times that order the holders of a
   handle are never used twice, and so the owner of a handle stays its
   owner; and the clients read the same permissions as the contract.

   The argument: a call never changes the handle or the time of an account
   that already has a handle (Kept), and an account that gets one gets a time
   after every time handed out before, in a step that gives no other account
   a handle of the same application (Fresh).                               *)
EXTENDS BingleDapp, TLAPS

Held(a, u) == local[a][u].handle # None

\* What the proofs need of the types.
Typed(l) == "handle" \in DOMAIN l /\ "time" \in DOMAIN l /\ l.time \in Nat

TypeInv ==
    /\ DOMAIN global = Apps /\ DOMAIN local = Apps /\ now \in Nat
    /\ \A a \in Apps : "last" \in DOMAIN global[a] /\ global[a].last \in Nat
    /\ \A a \in Apps : DOMAIN local[a] = Users
    /\ \A a \in Apps, u \in Users : Typed(local[a][u])

Same(l, r) == Typed(r) /\ r.handle = l.handle /\ r.time = l.time

Kept == \A a \in Apps, u \in Users : Held(a, u) => Same(local[a][u], local'[a][u])

Fresh ==
    \A a \in Apps, u \in Users :
        ~Held(a, u) /\ Held(a, u)' =>
            /\ local'[a][u].time > global[a].last
            /\ local'[a][u].time <= global'[a].last
            /\ \A v \in Users \ {u} : Held(a, v)' => Held(a, v)

\* The sequence of times does not go back over a time in use.
Onward ==
    \A a \in Apps \ rewound' :
        /\ a \notin rewound
        /\ \A u \in Users : Held(a, u) /\ local[a][u].time <= global[a].last
                                => local[a][u].time <= global'[a].last

StepFacts == TypeInv' /\ Kept /\ Fresh /\ Onward

-----------------------------------------------------------------------------
(* What the contract's subroutines leave alone. *)

\* Setting or clearing a flag touches neither the handle nor its time.
LEMMA SetAllowBitSame ==
    ASSUME NEW l, Typed(l), NEW bit, NEW allow
    PROVE  Same(l, SetAllowBit(l, bit, allow))
BY DEF Same, Typed, SetAllowBit

\* The grant that registering and migrating make to the account itself
\* touches neither.
LEMMA SelfGrantSame ==
    ASSUME NEW l, Typed(l)
    PROVE  Same(l, SelfGrantSwClient(l))
<1>1. CASE "revoked" \in PackedAllowBits(l)
  BY <1>1 DEF Same, SelfGrantSwClient
<1>2. CASE "revoked" \notin PackedAllowBits(l)
  BY <1>2, SetAllowBitSame DEF SelfGrantSwClient
<1>3. QED  BY <1>1, <1>2

\* Withdrawing an endpoint touches neither.
LEMMA ClearSame ==
    ASSUME NEW l, Typed(l)
    PROVE  Same(l, ClearEndpoint(l)) /\ Same(l, ClearSidewinderEndpoint(l))
BY DEF Same, Typed, ClearEndpoint, ClearSidewinderEndpoint

\* Leaving alone composes.
LEMMA SameTrans ==
    ASSUME NEW l, NEW r, NEW s, Same(l, r), Same(r, s)
    PROVE  Same(l, s)
BY DEF Same

-----------------------------------------------------------------------------
(* Steps of three shapes. *)

\* A call that changes neither the accounts' local state nor the last time.
LEMMA QuietStep ==
    ASSUME TypeInv, local' = local, rewound' = rewound, now' \in Nat,
           DOMAIN global' = Apps,
           \A a \in Apps : "last" \in DOMAIN global'[a] /\ global'[a].last = global[a].last
    PROVE  StepFacts
BY DEF StepFacts, TypeInv, Typed, Kept, Same, Fresh, Onward, Held

\* A call that changes one account's flags or endpoints.
LEMMA AccountStep ==
    ASSUME TypeInv, NEW a \in Apps, NEW u \in Users, NEW r, Same(local[a][u], r),
           local' = [local EXCEPT ![a][u] = r],
           global' = global, rewound' = rewound, now' = now
    PROVE  StepFacts
<1>1. /\ DOMAIN local' = Apps
      /\ \A b \in Apps : DOMAIN local'[b] = Users
      /\ local'[a][u] = r
      /\ \A b \in Apps, v \in Users : b # a \/ v # u => local'[b][v] = local[b][v]
  BY DEF TypeInv
<1>2. \A b \in Apps, v \in Users : Same(local[b][v], local'[b][v])
  BY <1>1 DEF TypeInv, Same
<1>3. QED  BY <1>1, <1>2 DEF StepFacts, TypeInv, Kept, Same, Fresh, Onward, Held

\* A call that gives an account its handle, at a time drawn for it, or uses a
\* time up for an account that has one.
LEMMA NamingStep ==
    ASSUME TypeInv, NEW a \in Apps, NEW u \in Users, NEW r, NEW t \in Nat,
           t > global[a].last, Typed(r),
           Held(a, u) => Same(local[a][u], r),
           ~Held(a, u) /\ r.handle # None => r.time = t,
           local' = [local EXCEPT ![a][u] = r],
           global' = [global EXCEPT ![a].last = t], rewound' = rewound, now' = now
    PROVE  StepFacts
<1>1. /\ DOMAIN local' = Apps
      /\ \A b \in Apps : DOMAIN local'[b] = Users
      /\ local'[a][u] = r
      /\ \A b \in Apps, v \in Users : b # a \/ v # u => local'[b][v] = local[b][v]
  BY DEF TypeInv
<1>2. /\ DOMAIN global' = Apps
      /\ \A b \in Apps : "last" \in DOMAIN global'[b]
      /\ global'[a].last = t
      /\ \A b \in Apps : b # a => global'[b].last = global[b].last
  BY DEF TypeInv
<1>3. TypeInv'
  BY <1>1, <1>2 DEF TypeInv
<1>4. Kept
  BY <1>1 DEF Kept, TypeInv, Same, Held
<1>5. Fresh
  BY <1>1, <1>2 DEF Fresh, TypeInv, Held
<1>6. Onward
  BY <1>2 DEF Onward, TypeInv, Typed
<1>7. QED  BY <1>3, <1>4, <1>5, <1>6 DEF StepFacts

-----------------------------------------------------------------------------
(* Every call is a step of one of these shapes. *)

\* A time drawn for a handle is after every time handed out before.
LEMMA DrawnTime ==
    ASSUME TypeInv, NEW a \in Apps, NEW time \in Nat
    PROVE  NextHandleTime(a, time) \in Nat /\ NextHandleTime(a, time) > global[a].last
BY DEF TypeInv, NextHandleTime

\* register.
LEMMA RegisterStep ==
    ASSUME TypeInv, NEW a \in Apps, NEW u \in Users, NEW handle \in Handles,
           Register(a, u, handle)
    PROVE  StepFacts
<1> DEFINE l == local[a][u]
           t == NextHandleTime(a, now)
           held == IF l.handle # None THEN l
                   ELSE [l EXCEPT !.handle = handle, !.time = t]
           r == SelfGrantSwClient(held)
<1>1. Typed(l)
  BY DEF TypeInv
<1>2. t \in Nat /\ t > global[a].last
  BY DrawnTime DEF TypeInv
<1> HIDE DEF t
<1>3. Typed(held)
  <2>1. CASE l.handle # None
    BY <1>1, <2>1
  <2>2. CASE l.handle = None
    BY <1>1, <1>2, <2>2 DEF Typed
  <2>3. QED  BY <2>1, <2>2
<1>4. l.handle = None => held.time = t
  BY <1>1 DEF Typed
<1>5. l.handle # None => held = l
  OBVIOUS
<1> HIDE DEF held
<1>6. Same(held, r)
  BY <1>3, SelfGrantSame
<1> HIDE DEF l, r
<1>7. /\ local' = [local EXCEPT ![a][u] = r]
      /\ global' = [global EXCEPT ![a].last = t]
      /\ rewound' = rewound /\ now' = now
  BY DEF Register, l, r, held, t
<1>8. Typed(r) /\ (Held(a, u) => Same(local[a][u], r))
  BY <1>5, <1>6 DEF Same, Held, l
<1>9. ~Held(a, u) => r.time = t
  BY <1>4, <1>6 DEF Same, Held, l
<1>10. QED  BY <1>2, <1>7, <1>8, <1>9, NamingStep

\* The account's own part of migrate_local: its handle and time.
NamedFrom(l, o, time) ==
    IF o.handle = None \/ l.handle # None THEN l
    ELSE [l EXCEPT !.handle = o.handle, !.time = time]

\* The flags and endpoints migrate_local copies leave both alone.
LEMMA MigratedSame ==
    ASSUME NEW l, NEW o, NEW time, Typed(NamedFrom(l, o, time))
    PROVE  Same(NamedFrom(l, o, time), Migrated(l, o, time))
<1> DEFINE held == NamedFrom(l, o, time)
           flags == [held EXCEPT
               !.allow = IF o.allow = None THEN @ ELSE o.allow,
               !.relay = IF o.relay = None THEN @ ELSE o.relay]
           static == IF "static" \notin PackedAllowBits(flags) THEN flags
                     ELSE [flags EXCEPT
                         !.ep = IF o.ep = None THEN @ ELSE o.ep,
                         !.epx = IF o.epx = None THEN @ ELSE o.epx]
           node == IF "node" \notin PackedAllowBits(static) \/ o.sw = None
                   THEN static ELSE [static EXCEPT !.sw = o.sw]
           done == IF node.handle = None THEN node ELSE SelfGrantSwClient(node)
<1>1. Migrated(l, o, time) = done
  BY DEF Migrated, NamedFrom
<1> HIDE DEF held
<1>2. Same(held, flags)
  BY DEF Same, Typed, held
<1> HIDE DEF flags
<1>3. Same(flags, static)
  BY <1>2 DEF Same, Typed
<1> HIDE DEF static
<1>4. Same(static, node)
  BY <1>3 DEF Same, Typed
<1> HIDE DEF node
<1>5. Same(node, done)
  <2>1. CASE node.handle = None
    BY <1>4, <2>1 DEF Same
  <2>2. CASE node.handle # None
    BY <1>4, <2>2, SelfGrantSame DEF Same
  <2>3. QED  BY <2>1, <2>2
<1> HIDE DEF done
<1>6. Same(held, done)
  BY <1>2, <1>3, <1>4, <1>5 DEF Same
<1>7. QED  BY <1>1, <1>6 DEF held

\* migrate_local.
LEMMA MigrateLocalStep ==
    ASSUME TypeInv, NEW a \in Apps, NEW old \in Apps, NEW u \in Users,
           MigrateLocal(a, old, u)
    PROVE  StepFacts
<1> DEFINE l == local[a][u]
           o == local[old][u]
           t == NextHandleTime(a, o.time)
           r == Migrated(l, o, t)
<1>1. Typed(l) /\ Typed(o)
  BY DEF TypeInv
<1>2. t \in Nat /\ t > global[a].last
  BY <1>1, DrawnTime DEF Typed
<1>3. /\ local' = [local EXCEPT ![a][u] = r]
      /\ global' = IF o.handle = None \/ l.handle # None THEN global
                   ELSE [global EXCEPT ![a].last = t]
      /\ rewound' = rewound /\ now' = now
  BY DEF MigrateLocal
<1> HIDE DEF t
<1>4. CASE o.handle = None \/ l.handle # None
  <2>1. NamedFrom(l, o, t) = l
    BY <1>4 DEF NamedFrom
  <2>2. Same(l, r)
    BY <1>1, <2>1, MigratedSame
  <2>3. QED
    <3> HIDE DEF r
    <3> QED  BY <1>3, <1>4, <2>2, AccountStep
<1>5. CASE ~(o.handle = None \/ l.handle # None)
  <2>1. Typed(NamedFrom(l, o, t)) /\ NamedFrom(l, o, t).time = t
    BY <1>1, <1>2, <1>5 DEF NamedFrom, Typed
  <2>2. Same(NamedFrom(l, o, t), r)
    BY <2>1, MigratedSame
  <2>3. Typed(r) /\ r.time = t
    BY <2>1, <2>2 DEF Same
  <2>4. ~Held(a, u)
    BY <1>5 DEF Held
  <2>5. QED
    <3> HIDE DEF r
    <3>1. global' = [global EXCEPT ![a].last = t]
      BY <1>3, <1>5
    <3> QED  BY <1>2, <1>3, <2>3, <2>4, <3>1, NamingStep
<1>6. QED  BY <1>4, <1>5

\* The calls that change an account's flags or endpoints only.
LEMMA FlagStep ==
    ASSUME TypeInv, NEW a \in Apps, NEW u \in Users,
           \/ EnrolSwClient(a, u)
           \/ \E record \in Records \cup {None} :
                 RegisterEndpoint(a, u, record) \/ RegisterSidewinderEndpoint(a, u, record)
           \/ \E s \in {Creator, Admin}, bit \in Bits, allow \in BOOLEAN :
                 SetAllow(a, s, u, bit, allow) \/ SetAllowSwClient(a, s, u, allow)
    PROVE  StepFacts
<1> DEFINE l == local[a][u]
<1>1. Typed(l)
  BY DEF TypeInv
<1>2. SUFFICES \E r : /\ Same(l, r) /\ local' = [local EXCEPT ![a][u] = r]
                      /\ global' = global /\ rewound' = rewound /\ now' = now
  BY AccountStep, Zenon
<1>3. CASE EnrolSwClient(a, u)
  <2>1. Same(l, SelfGrantSwClient(l))
    BY <1>1, SelfGrantSame
  <2>2. QED  BY <1>3, <2>1, Zenon DEF EnrolSwClient
<1>4. ASSUME NEW record \in Records \cup {None}, RegisterEndpoint(a, u, record)
      PROVE  \E r : /\ Same(l, r) /\ local' = [local EXCEPT ![a][u] = r]
                    /\ global' = global /\ rewound' = rewound /\ now' = now
  <2> DEFINE w == [l EXCEPT !.ep = record,
                            !.epx = IF record \in Long THEN record ELSE None]
             r == IF record = None THEN ClearEndpoint(l) ELSE w
  <2>1. Same(l, w)
    BY <1>1 DEF Same, Typed
  <2>2. Same(l, r)
    BY <1>1, <2>1, ClearSame
  <2>3. local' = [local EXCEPT ![a][u] = r]
    BY <1>4 DEF RegisterEndpoint
  <2>4. global' = global /\ rewound' = rewound /\ now' = now
    BY <1>4 DEF RegisterEndpoint
  <2> HIDE DEF r
  <2>5. QED  BY <2>2, <2>3, <2>4, Zenon
<1>5. ASSUME NEW record \in Records \cup {None}, RegisterSidewinderEndpoint(a, u, record)
      PROVE  \E r : /\ Same(l, r) /\ local' = [local EXCEPT ![a][u] = r]
                    /\ global' = global /\ rewound' = rewound /\ now' = now
  <2> DEFINE w == [l EXCEPT !.sw = record]
             r == IF record = None THEN ClearSidewinderEndpoint(l) ELSE w
  <2>1. Same(l, w)
    BY <1>1 DEF Same, Typed
  <2>2. Same(l, r)
    BY <1>1, <2>1, ClearSame
  <2>3. local' = [local EXCEPT ![a][u] = r]
    BY <1>5 DEF RegisterSidewinderEndpoint
  <2>4. global' = global /\ rewound' = rewound /\ now' = now
    BY <1>5 DEF RegisterSidewinderEndpoint
  <2> HIDE DEF r
  <2>5. QED  BY <2>2, <2>3, <2>4, Zenon
<1>6. ASSUME NEW s, NEW bit, NEW allow, SetAllow(a, s, u, bit, allow)
      PROVE  \E r : /\ Same(l, r) /\ local' = [local EXCEPT ![a][u] = r]
                    /\ global' = global /\ rewound' = rewound /\ now' = now
  <2> DEFINE w == SetAllowBit(l, bit, allow)
             r == IF allow \/ bit = "relay" THEN w
                  ELSE IF bit = "static" THEN ClearEndpoint(w)
                  ELSE ClearSidewinderEndpoint(w)
  <2>1. Same(l, w)
    BY <1>1, SetAllowBitSame
  <2>3. local' = [local EXCEPT ![a][u] = r]
    BY <1>6 DEF SetAllow
  <2> HIDE DEF w
  <2>2. Same(l, r)
    BY <2>1, ClearSame DEF Same
  <2>4. global' = global /\ rewound' = rewound /\ now' = now
    BY <1>6 DEF SetAllow
  <2> HIDE DEF r
  <2>5. QED  BY <2>2, <2>3, <2>4, Zenon
<1>7. ASSUME NEW s, NEW allow, SetAllowSwClient(a, s, u, allow)
      PROVE  \E r : /\ Same(l, r) /\ local' = [local EXCEPT ![a][u] = r]
                    /\ global' = global /\ rewound' = rewound /\ now' = now
  <2> DEFINE w == SetAllowBit(l, "client", allow)
             r == SetAllowBit(w, "revoked", ~allow)
  <2>1. Same(l, w)
    BY <1>1, SetAllowBitSame
  <2>3. local' = [local EXCEPT ![a][u] = r]
    BY <1>7 DEF SetAllowSwClient
  <2> HIDE DEF w
  <2>2. Same(w, r)
    BY <2>1, SetAllowBitSame DEF Same
  <2>4. global' = global /\ rewound' = rewound /\ now' = now
    BY <1>7 DEF SetAllowSwClient
  <2> HIDE DEF r
  <2>5. Same(l, r)
    BY <2>1, <2>2, SameTrans
  <2>6. QED  BY <2>5, <2>3, <2>4, Zenon
<1>8. QED  BY <1>3, <1>4, <1>5, <1>6, <1>7, Zenon

\* migrate_global: an application whose times it would overtake is rewound.
LEMMA MigrateGlobalStep ==
    ASSUME TypeInv, NEW a \in Apps, NEW old \in Apps, MigrateGlobal(a, old)
    PROVE  StepFacts
<1>1. /\ DOMAIN global' = Apps /\ \A b \in Apps : "last" \in DOMAIN global'[b]
      /\ global'[a].last = global[old].last
      /\ \A b \in Apps : b # a => global'[b].last = global[b].last
  BY DEF MigrateGlobal, TypeInv
<1>2. /\ local' = local /\ now' = now
      /\ rewound \subseteq rewound'
      /\ a \notin rewound' => \A u \in Users : Held(a, u) =>
             ~(local[a][u].time > global[old].last)
  BY DEF MigrateGlobal, Held
<1>3. TypeInv' /\ Kept /\ Fresh
  BY <1>1, <1>2 DEF TypeInv, Kept, Fresh, Same, Held
<1>4. Onward
  BY <1>1, <1>2 DEF Onward, TypeInv, Typed
<1>5. QED  BY <1>3, <1>4 DEF StepFacts

\* The calls that touch neither local state nor the last time.
LEMMA OtherUserStep ==
    ASSUME TypeInv, NEW a \in Apps, NEW u \in Users,
           \/ OptIn(a, u)
           \/ \E paid \in Nat : BuyBingle(a, u, paid)
           \/ \E n \in Nat : SellBingle(a, u, n)
    PROVE  StepFacts
<1>1. local' = local /\ global' = global /\ rewound' = rewound /\ now' = now
  BY DEF OptIn, BuyBingle, SellBingle
<1>2. QED  BY <1>1, QuietStep DEF TypeInv

\* The calls of the creator and the administrator but migrate_global.
LEMMA AdminStep ==
    ASSUME TypeInv, NEW a \in Apps, AdminCall(a)
    PROVE  StepFacts
<1>1. local' = local /\ rewound' = rewound /\ now' = now
  BY DEF AdminCall, SetBinglePrice, Withdraw, Create, SetAppAdmin, SetPredecessorApp,
         SetSuccessorApp, MigrateReserve, SetClawback, ClawbackAsset
<1>2. \/ global' = global
      \/ \E x : global' = [global EXCEPT ![a].price = x]
      \/ \E x : global' = [global EXCEPT ![a].made = TRUE, ![a].admin = x]
      \/ \E x : global' = [global EXCEPT ![a].admin = x]
      \/ \E x : global' = [global EXCEPT ![a].ancestors = x]
      \/ \E x : global' = [global EXCEPT ![a].successor = x]
  BY Zenon DEF AdminCall, SetBinglePrice, Withdraw, Create, SetAppAdmin, SetPredecessorApp,
         SetSuccessorApp, MigrateReserve, SetClawback, ClawbackAsset
<1>3. /\ DOMAIN global' = Apps
      /\ \A b \in Apps : "last" \in DOMAIN global'[b] /\ global'[b].last = global[b].last
  BY <1>2 DEF TypeInv
<1>4. QED  BY <1>1, <1>3, QuietStep DEF TypeInv

\* Every step of the contract.
LEMMA EveryStep == TypeInv /\ [ContractNext]_dapp => StepFacts
<1> SUFFICES ASSUME TypeInv, [ContractNext]_dapp PROVE StepFacts
  OBVIOUS
<1>1. CASE UNCHANGED dapp
  BY <1>1, QuietStep DEF dapp, TypeInv
<1>2. ASSUME NEW a \in Apps, AdminCall(a) PROVE StepFacts
  BY <1>2, AdminStep
<1>3. ASSUME NEW a \in Apps, NEW u \in Users, UserCall(a, u) PROVE StepFacts
  <2>1. CASE \E h \in Handles : Register(a, u, h)
    BY <2>1, RegisterStep
  <2>2. CASE \E old \in Apps : MigrateLocal(a, old, u)
    BY <2>2, MigrateLocalStep
  <2>3. CASE OptIn(a, u) \/ (\E paid \in Nat : BuyBingle(a, u, paid))
                         \/ (\E n \in Nat : SellBingle(a, u, n))
    BY <2>3, OtherUserStep
  <2>4. QED  BY <1>3, <2>1, <2>2, <2>3, FlagStep, Zenon DEF UserCall
<1>4. ASSUME NEW a \in Apps, NEW b \in Apps, MigrateGlobal(a, b) PROVE StepFacts
  BY <1>4, MigrateGlobalStep
<1>5. CASE Block
  BY <1>5, QuietStep DEF Block, TypeInv
<1>6. QED  BY <1>1, <1>2, <1>3, <1>4, <1>5, Zenon DEF ContractNext

-----------------------------------------------------------------------------
(* The theorems. *)

DappInv == TypeInv /\ HandleTimesDistinct

\* The initial state: nobody has a handle.
LEMMA DappInvInit == ContractInit => DappInv
<1> SUFFICES ASSUME ContractInit PROVE DappInv
  OBVIOUS
<1>1. \A a \in Apps, u \in Users : local[a][u] = NoLocalState
  BY DEF ContractInit
<1>2. \A a \in Apps, u \in Users : Typed(local[a][u]) /\ ~Held(a, u)
  BY <1>1 DEF NoLocalState, Typed, Held
<1>3. /\ DOMAIN global = Apps /\ now \in Nat
      /\ \A a \in Apps : global[a] \in GlobalState /\ global[a].last = 0
  BY DEF ContractInit
<1>4. \A a \in Apps : "last" \in DOMAIN global[a] /\ global[a].last \in Nat
  BY <1>3 DEF GlobalState
<1>5. DOMAIN local = Apps /\ \A a \in Apps : DOMAIN local[a] = Users
  BY DEF ContractInit
<1>6. QED  BY <1>2, <1>3, <1>4, <1>5 DEF DappInv, TypeInv, HandleTimesDistinct, Held

\* Every step keeps the times distinct.
LEMMA DappInvStep == DappInv /\ [ContractNext]_dapp => DappInv'
<1> SUFFICES ASSUME DappInv, [ContractNext]_dapp PROVE DappInv'
  OBVIOUS
<1>1. StepFacts
  BY EveryStep DEF DappInv
<1>2. SUFFICES ASSUME NEW a \in Apps \ rewound', NEW u \in Users, Held(a, u)'
               PROVE  /\ local'[a][u].time <= global'[a].last
                      /\ \A v \in Users \ {u} : Held(a, v)'
                             => local'[a][u].time # local'[a][v].time
  BY <1>1 DEF DappInv, StepFacts, HandleTimesDistinct, Held
<1>3. a \notin rewound
  BY <1>1 DEF StepFacts, Onward
<1>4. \A v \in Users : Held(a, v) =>
          /\ local[a][v].time <= global[a].last /\ local'[a][v].time = local[a][v].time
          /\ local'[a][v].time <= global'[a].last
  BY <1>1, <1>3 DEF DappInv, StepFacts, HandleTimesDistinct, Kept, Same, Onward, Held
<1>5. \A v \in Users : local[a][v].time \in Nat /\ local'[a][v].time \in Nat
  BY <1>1 DEF StepFacts, DappInv, TypeInv, Typed
<1>6. global[a].last \in Nat
  BY DEF DappInv, TypeInv
<1>7. CASE Held(a, u)
  <2>1. \A v \in Users \ {u} : Held(a, v) => local'[a][u].time # local'[a][v].time
    BY <1>3, <1>4, <1>7 DEF DappInv, HandleTimesDistinct, Held
  <2>2. \A v \in Users \ {u} : ~Held(a, v) /\ Held(a, v)'
            => local'[a][v].time > global[a].last
    BY <1>1 DEF StepFacts, Fresh
  <2>3. QED  BY <1>4, <1>5, <1>6, <1>7, <2>1, <2>2
<1>8. CASE ~Held(a, u)
  <2>1. /\ local'[a][u].time > global[a].last /\ local'[a][u].time <= global'[a].last
        /\ \A v \in Users \ {u} : Held(a, v)' => Held(a, v)
    BY <1>1, <1>2, <1>8 DEF StepFacts, Fresh
  <2>2. QED  BY <1>4, <1>5, <1>6, <2>1
<1>9. QED  BY <1>7, <1>8

\* No application hands out a handle time twice, whatever is called and in
\* whatever order, unless migrate_global set its last time back.
THEOREM TimesDistinct == ContractSpec => []HandleTimesDistinct
<1>1. DappInv => HandleTimesDistinct
  BY DEF DappInv
<1>2. QED  BY <1>1, DappInvInit, DappInvStep, PTL DEF ContractSpec

\* A step leaves the owner of a handle its owner.
LEMMA OwnerKept ==
    ASSUME DappInv, StepFacts, NEW a \in Apps \ rewound', NEW name \in Names,
           NEW u \in Users, IsOwner(local, a, name, u)
    PROVE  IsOwner(local', a, name, u)
<1>1. Held(a, u) /\ Normal[local[a][u].handle] = name
  BY DEF IsOwner, Holders, Held
<1>2. u \in Holders(local', a, name)
  BY <1>1 DEF StepFacts, Kept, Same, Holders, Held
<1>3. a \notin rewound
  BY DEF StepFacts, Onward
<1>4. SUFFICES ASSUME NEW v \in Holders(local', a, name)
               PROVE  Older(local', a, u, v)
  BY <1>2 DEF IsOwner
<1>5. v \in Users /\ Held(a, v)'
  BY <1>4 DEF Holders, Held
<1>6. local'[a][u].time = local[a][u].time
  BY <1>1 DEF StepFacts, Kept, Same
<1>7. CASE Held(a, v)
  <2>1. Same(local[a][v], local'[a][v])
    BY <1>5, <1>7 DEF StepFacts, Kept
  <2>2. v \in Holders(local, a, name)
    BY <1>4, <1>5, <1>7, <2>1 DEF Holders, Held, Same
  <2>3. Older(local, a, u, v)
    BY <2>2 DEF IsOwner
  <2>4. QED  BY <1>6, <2>1, <2>3 DEF Older, Same
<1>8. CASE ~Held(a, v)
  <2>1. local'[a][v].time > global[a].last
    BY <1>5, <1>8 DEF StepFacts, Fresh
  <2>2. local[a][u].time <= global[a].last
    BY <1>1, <1>3 DEF DappInv, HandleTimesDistinct, Held
  <2>3. /\ local'[a][v].time \in Nat /\ local[a][u].time \in Nat
        /\ global[a].last \in Nat
    BY <1>5 DEF DappInv, StepFacts, TypeInv, Typed
  <2>4. QED  BY <1>6, <2>1, <2>2, <2>3 DEF Older
<1>9. QED  BY <1>7, <1>8

\* The owner of a handle stays its owner, for any number of accounts and
\* applications and any sequence of calls.
THEOREM OwnerNeverChanges == ContractSpec => OwnerStable
<1>1. DappInv /\ [ContractNext]_dapp =>
        [\A a \in Apps \ rewound', name \in Names, u \in Users :
            IsOwner(local, a, name, u) => IsOwner(local', a, name, u)]_dapp
  <2>1. ASSUME DappInv, [ContractNext]_dapp,
               NEW a \in Apps \ rewound', NEW name \in Names, NEW u \in Users,
               IsOwner(local, a, name, u)
        PROVE  IsOwner(local', a, name, u)
    <3>1. StepFacts
      BY <2>1, EveryStep DEF DappInv
    <3>2. QED  BY <2>1, <3>1, OwnerKept
  <2>2. QED  BY <2>1, Zenon
<1>2. QED  BY <1>1, DappInvInit, DappInvStep, PTL DEF ContractSpec, OwnerStable

\* The clients read from a stored flag word, in the packed or the older
\* encoding, exactly the permissions the contract reads from it.
THEOREM ReadersAgree ==
    ASSUME NEW l \in LocalState
    PROVE  EffectiveAllowBits(l) \ {"migrated"} = PackedAllowBits(l) \ {"migrated"}
<1>1. CASE l.allow # None /\ "migrated" \in l.allow
  BY <1>1 DEF EffectiveAllowBits, PackedAllowBits, FoldAllow
<1>2. CASE ~(l.allow # None /\ "migrated" \in l.allow)
  BY <1>2 DEF EffectiveAllowBits, PackedAllowBits, FoldAllow
<1>3. QED  BY <1>1, <1>2

=============================================================================
