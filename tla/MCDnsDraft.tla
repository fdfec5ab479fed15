----------------------------- MODULE MCDnsDraft -----------------------------
(* The DNS and rule editors on a small instance: the rules requests carry   *)
(* and the configurations the runs start from.                               *)
EXTENDS DnsDraft

Conditional(action, s, sets) ==
    [action |-> action, server |-> s, match |-> FALSE, code |-> None, sets |-> sets, cond |-> TRUE]

Plain(s)   == Conditional("route", s, {})
Hand(s)    == Conditional("evaluate", s, {})

Single(t)   == [tag |-> t, group |-> FALSE, members |-> {}]
Group(t, m) == [tag |-> t, group |-> TRUE, members |-> m]

Empty == [servers |-> <<>>, final |-> None, pin |-> None, rules |-> <<>>, sets |-> {},
          routes |-> <<>>, outs |-> <<Single("direct")>>, ends |-> <<"awg">>, exit |-> None,
          noCache |-> FALSE, noExpire |-> FALSE, opt |-> "none",
          asked |-> None, renamed |-> {}, lost |-> {}, blind |-> None, unchecked |-> {}]

\* A new installation with one server, and a configuration written by hand
\* that matches responses on a code the panel does not offer.
One   == [Empty EXCEPT !.servers = <<"a">>, !.final = "a"]
Two   == [Empty EXCEPT !.servers = <<"a", "b">>, !.pin = "a", !.sets = {"s"}, !.opt = "timed"]
Wrote == [Two EXCEPT !.rules = <<Evaluate("a"), OnCode("YXDOMAIN", "b"), Respond>>]

MCStarts == {One, Two, Wrote}

\* The configurations satisfy what the editors are shown to keep.
ASSUME StartsHold ==
    \A d \in Starts : PinnedIn(d) /\ Holds(d) /\ Serves(d) /\ Leads(d) /\ CacheIn(d)

MCInputs == {Plain("a"), Plain("b"), Hand("b"), Conditional("route", "a", {"s"}),
             OnCode("NXDOMAIN", "b")}
MCRoutes == [sets : {{}, {"s"}}, exit : {None, "x"}]
MCOuts   == {Single("x"), Single("g"), Group("g", {"x", "awg"}), Group("x", {"g"}), Group("g", {})}

MCScopes == {{"server", "rule", "settings"},
             {"rule", "route", "ruleset"},
             {"exit", "route"},
             {"flags", "server", "readonly", "publish"}}
=============================================================================
