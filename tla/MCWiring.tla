------------------------------ MODULE MCWiring ------------------------------
(* Small instances of Wiring for TLC. *)
EXTENDS Wiring, TLC

Source(found, required, vals) == [found |-> found, required |-> required, vals |-> vals]

(* Lists a layer may hold: none, one, both out of order, an unknown one. *)
Lists == {<<Blank>>, <<"b">>, <<"b", Blank, "a">>, <<"a", "x">>}

Supplies ==
    {<<>>, "PATH" :> "p", Typo :> "b"}
    \cup {Modules :> v : v \in Lists}
    \cup {LogLevel :> v : v \in {"info", "loud"}}
    \cup {TrustedProxies :> v : v \in {"cidr", "junk"}}
    \cup {(Modules :> v) @@ (LogLevel :> "info") : v \in {<<"a">>, <<Blank>>}}

Sources == {Source("ok", FALSE, vals) : vals \in Supplies}
           \cup {Source(found, required, <<>>) : found \in {"missing", "bad"}, required \in BOOLEAN}

SmallStacks == {<<>>} \cup {<<s>> : s \in Sources} \cup {<<s, t>> : s, t \in Sources}

Plain(name) == [name |-> name, factory |-> "ok", check |-> None, route |-> None,
                command |-> None, run |-> "func", table |-> None, version |-> None]

Full == [Plain("a") EXCEPT !.check = "db", !.route = "/a", !.command = "tidy",
                           !.table = "t", !.version = <<0, 1>>]

(* The second module: well made, or with one mistake. *)
Seconds ==
    {[Full EXCEPT !.name = "b", !.route = "/b", !.command = "mend", !.table = "u",
                  !.version = <<0, 2>>]}
    \cup {[Plain("b") EXCEPT ![kind] = Full[kind]] :
            kind \in {"name", "check", "route", "command", "table", "version"}}
    \cup {[Plain("b") EXCEPT ![kind] = Blank] : kind \in {"name", "check", "command", "table"}}
    \cup {[Plain("b") EXCEPT !.factory = f] : f \in {"error", "nobuild"}}
    \cup {[Plain("b") EXCEPT !.route = "/healthz"], [Plain("b") EXCEPT !.command = "migrate"],
          [Plain("b") EXCEPT !.command = "help"],
          [Plain("b") EXCEPT !.command = "mend", !.run = "nil"]}
    \cup {[Plain("b") EXCEPT !.version = v] : v \in {<<>>, <<1>>}}

SmallCatalogues == {<<>>, <<Full>>} \cup {<<Full, m>> : m \in Seconds}
                   \cup {<<m, Full>> : m \in Seconds}
                   \cup {<<Plain("c"), Full, m>> : m \in Seconds}
=============================================================================
