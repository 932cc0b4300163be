---------------------------- MODULE MCSecureStore ----------------------------
(* Instance of SecureStore for TLC.                                        *)
EXTENDS SecureStore

CONSTANTS s1, s2

A == <<4>>
B == <<5>>

MCSessions == {s1, s2}
MCEarly == {s2}
MCPermissions == s1 :> {"read", "write", "delete"} @@ s2 :> {"read", "write"}
MCLabels == s1 :> {A} @@ s2 :> {A, B}

\* Every text of up to four characters, and every expression of two levels.
Short == UNION {[1..n -> {And, Open, Shut, Or, 4, 5}] : n \in 0..4}
One == {A, B} \cup {x \o <<op>> \o y : x, y \in {A, B}, op \in {And, Or}}
Grouped == One \cup {<<Open>> \o x \o <<Shut>> : x \in One}
MCTexts == Short \cup {x \o <<op>> \o y : x, y \in Grouped, op \in {And, Or}}

AandB == A \o <<And>> \o B
AorB == A \o <<Or>> \o B
BorA == B \o <<Or>> \o A

Config(api, encrypted, audit, texts, writes, maxTables, seconds, sinkFailures, reads) ==
    [api |-> api, encrypted |-> encrypted, audit |-> audit, texts |-> texts, writes |-> writes,
     tables |-> maxTables, seconds |-> seconds, failures |-> sinkFailures, reads |-> reads]

MCConfigs ==
    {Config("expr", FALSE, "none", {}, 0, 0, 0, 0, 0),
     Config("plain", FALSE, "none", {AorB}, 3, 2, 0, 0, 0),
     Config("plain", TRUE, "fail_closed", {AandB}, 2, 2, 1, 1, 0),
     Config("plain", FALSE, "best_effort", {BorA}, 2, 1, 1, 1, 0),
     Config("single", TRUE, "fail_closed", {AandB}, 2, 0, 0, 1, 1),
     Config("optimistic", TRUE, "fail_closed", {AandB}, 2, 0, 0, 0, 1),
     Config("raw", FALSE, "none", {A}, 3, 1, 0, 0, 0)}

\* Rows whose bytes need escaping and of which one is a prefix of the other.
Cell(row, visibility) == [row |-> row, family |-> <<1>>, qualifier |-> <<>>, visibility |-> visibility]
MCCells(visibility) == {Cell(<<0>>, visibility), Cell(<<0, 1>>, <<>>)}

Query(fields, min, max, limit) == [fields |-> fields, min |-> min, max |-> max, limit |-> limit]
MCQueries(visibility) ==
    {Query(<<>>, {}, {}, {}), Query(<<>>, {0}, {}, {1}), Query(<<<<0>>>>, {}, {}, {}),
     Query(<<<<0>>>>, {}, {-1}, {2}), Query(CellFields(Cell(<<0>>, visibility)), {}, {}, {1})}

MCTimestamps == {-1, 0}
MCRetention == [max |-> {1}, ttl |-> {2}]
=============================================================================
