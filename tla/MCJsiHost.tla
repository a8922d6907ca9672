------------------------------ MODULE MCJsiHost ------------------------------
(***************************************************************************)
(* Small cases for the account and the mobile bindings.                    *)
(***************************************************************************)
EXTENDS JsiHost, TLC

CONSTANTS k1, k2, k3, m1, m2

MCHosts == {"h1", "h2"}
MCThreads == MCHosts \cup {"sender"}

Account(k, memo, a) == [Blank EXCEPT !.key = k, !.memo = memo, !.memoApp = a]
Chain(one, two, retired) == [handles |-> "old" :> one @@ "new" :> two, retired |-> retired]

World(f, c, calls, n, fs, max) ==
    [hosts |-> {"h1"}, app |-> "old", next |-> "old", file |-> f, chain |-> c, used |-> {k1, k2},
     imports |-> {k2}, funded |-> {k1, k3}, calls |-> calls, count |-> n, shared |-> FALSE,
     box |-> {}, live |-> {}, faults |-> fs, max |-> max]

Twice(w) == [w EXCEPT !.hosts = MCHosts]

Registered == Chain({k1}, {}, {})
Known == Account(k1, k1, "old")
Unknown == Account(k1, None, None)

\* The account changes: keys generated, imported, recovered and registered.
Changing ==
    {World(Unknown, Registered, {"import", "status", "register", "start"}, 3, {f}, 1) :
        f \in {"unread", "outrun", "crash"}}
    \cup {World(Blank, Chain({k2}, {}, {}), {"generate", "import", "status", "register"}, 4, {f}, 1) :
        f \in {"disk", "unread"}}
    \cup {World(Known, Registered, {"begin", "sign", "complete", "import", "load"}, 5, {f}, 1) :
        f \in {"disk", "crash"}}
    \cup {Twice(World(f, Registered, calls, 3, {}, 0)) :
        f \in {Known, Unknown}, calls \in {{"import", "register", "status", "load", "start"},
                                         {"begin", "sign", "complete", "load", "generate"}}}

\* The same with the shared sender.
Sharing ==
    {[World(Known, Registered, {"start", "begin", "sign", "complete"}, 4, {"nudge"}, 1)
        EXCEPT !.shared = TRUE],
     [World(Unknown, Registered, {"import", "start", "stop", "status"}, 4, {"nudge", "unread"}, 2)
        EXCEPT !.shared = TRUE],
     [World(Unknown, Chain({}, {}, {}), {"start"}, 1, {"nudge", "retire"}, 2) EXCEPT !.shared = TRUE]}

\* A new version of the app, for the next application.
Upgrading ==
    {[World(f[1], Chain(f[2], {}, r), {"start", "status"}, 2, fs, 2) EXCEPT !.next = "new"] :
        f \in {<<Known, {k1}>>, <<Unknown, {k1}>>, <<Unknown, {}>>}, r \in {{}, {"old"}},
        fs \in {{"unread", "crash"}, {"retire", "crash"}, {"engine", "crash"}}}

\* Messages to send, and starts and stops.
Sending ==
    {World([Known EXCEPT !.outs = {m1, m2}], Registered, {"start"}, 2, fs, 1) :
        fs \in {{"unsent"}, {"refused"}, {"crash"}}}
    \cup {World([Known EXCEPT !.outs = {m1}], Registered, {"start", "stop"}, 4, fs, 1) :
        fs \in {{"unsent"}, {"engine"}, {"disk"}}}
    \cup {Twice(World([Known EXCEPT !.outs = {m1}], Registered, {"start", "stop"}, 3, {}, 0))}

\* Messages that come, and the app in front or behind.
Receiving ==
    {[World(Known, Registered, {"foreground", "background"}, 3, {"unreachable", f}, 2)
        EXCEPT !.box = {m1}, !.live = {m1}] :
        f \in {"post", "interval", "unresolved", "skipped", "crash"}}
    \cup {[World(Known, Registered, {"foreground", "load", "block"}, 3, {"post", "disk"}, 2)
        EXCEPT !.live = {m1}],
          [World(Unknown, Chain({}, {}, {}), {"start", "foreground"}, 2, {"post"}, 1)
        EXCEPT !.live = {m1}]}

MCWorlds == Changing \cup Sharing \cup Upgrading \cup Sending \cup Receiving

=============================================================================
