----------------------------- MODULE MCProgram ------------------------------
(***************************************************************************)
(* The command cmd/psina: it loads its configuration (ConfigFile), builds  *)
(* the service from it (Wiring), and serves until a signal (Server).  The  *)
(* three share no state but their result, so every behaviour is one        *)
(* part's, over all of that part's inputs, and the others stay as they     *)
(* start.                                                                  *)
(***************************************************************************)
EXTENDS ConfigFile, Wiring, Server

CONSTANTS c1, c2, c3

\* Two settings of one section, the section itself, and a setting outside of it.
Paths == {<<"dev">>, <<"pat">>, <<"pat", "enabled">>, <<"pat", "maxttl">>}
Defaults == {<<"dev">>, <<"pat", "enabled">>, <<"pat", "maxttl">>}

\* Up to two chains, up to the renaming of names and ids.
Chain(name, id) == [name |-> name, id |-> id]
Lists == {<<>>, <<Malformed>>, <<Chain("ethereum", 1)>>, <<Chain("ethereum", 1), Malformed>>}
           \cup {<<Chain("ethereum", 1), Chain(name, id)>> : name \in {"ethereum", "polygon"}, id \in {1, 2}}

VARIABLE part

vars == <<part, fileVars, wiringVars, serverVars>>

NoFile == file = {} /\ env = {} /\ FileInit
Dev == [dev |-> TRUE, db |-> "", key |-> "none", alg |-> "ES256",
        cookies |-> [enabled |-> FALSE, domain |-> ""],
        google |-> [id |-> "", secret |-> "", uris |-> 0],
        wallet |-> [domain |-> "", uri |-> "", statement |-> "", ttl |-> 0],
        chains |-> <<>>]
NoConfig == config = Dev /\ at = "validate" /\ built = Nothing

Init == /\ ServerInit
        /\ \/ part = "file" /\ FileInit /\ NoConfig
           \/ part = "wiring" /\ WiringInit /\ NoFile
           \/ part = "server" /\ NoFile /\ NoConfig

Next == /\ UNCHANGED part
        /\ \/ part = "file" /\ FileNext /\ UNCHANGED <<wiringVars, serverVars>>
           \/ part = "wiring" /\ WiringNext /\ UNCHANGED <<fileVars, serverVars>>
           \/ part = "server" /\ ServerNext /\ UNCHANGED <<fileVars, wiringVars>>

Spec == Init /\ [][Next]_vars /\ (part = "server" => ServerFairness)
=============================================================================
