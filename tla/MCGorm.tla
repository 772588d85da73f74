------------------------------- MODULE MCGorm -------------------------------
(* Two handles that share rows, with every pair of encryptors; and one     *)
(* handle with every combination of connection options.                    *)
EXTENDS Gorm

CONSTANT MaxSteps   \* bound of the steps of programs that share rows

MCPorts == {"1", "5433"}
MCUrlHost == [x \in {"localhost", "db", "::1", ":"} |->
                IF x = "::1" THEN [name |-> ":", port |-> "1"] ELSE [name |-> IF x = ":" THEN "" ELSE x, port |-> ""]]
MCLowerKey == [k \in ReservedKeys \cup {"sslmode", "timezone", "Input"} |-> IF k = "Input" THEN "input" ELSE k]

MCPlains == {"p", "prefixed"}
MCPrefixedPlains == {"prefixed"}
MCPrefixing == {"k1", "k2"}

NoEncryption == [enabled |-> FALSE, key |-> "", provider |-> ""]
NoLogging == [failedSQL |-> FALSE, translatePath |-> "", executionPath |-> ""]
ToSQLite(encryption) ==
    [input |-> "sqlite", target |-> "", driver |-> "", user |-> "", password |-> "", host |-> "", port |-> "",
     database |-> "file", parameters |-> << >>, translator |-> [input |-> "", target |-> ""],
     encryption |-> encryption, logging |-> NoLogging]

Encryptions == {NoEncryption, [enabled |-> TRUE, key |-> "k1", provider |-> ""],
                [enabled |-> TRUE, key |-> "k2", provider |-> ""],
                [enabled |-> TRUE, key |-> "", provider |-> "own"]}

Assigned(o, via, maxSteps) == [options |-> o, via |-> via, maxSteps |-> maxSteps]

Sharing == {[h1 |-> Assigned(ToSQLite(e), "options", MaxSteps), h2 |-> Assigned(ToSQLite(f), "options", MaxSteps)] :
               e, f \in Encryptions}

Parameters == {<< >>, [k \in {"sslmode", "timezone"} |-> "utc"], [k \in {"port"} |-> "x"], [k \in {"driver"} |-> "sqlite"],
               [k \in {"Input"} |-> "oracle"]}
Connections ==
    [input : {"mysql", ""}, target : {"", "postgres", "oracle"}, driver : {"", "sqlite"},
     user : {"u"}, password : {"", "s"}, host : {"", "db", "::1"}, port : {"", "5433"}, database : {"", "d"},
     parameters : Parameters, translator : {[input |-> i, target |-> ""] : i \in {"", "mysql", "sqlite"}},
     encryption : {[enabled |-> TRUE, key |-> "k1", provider |-> p] : p \in {"", "own"}},
     logging : {[NoLogging EXCEPT !.failedSQL = TRUE, !.executionPath = "f"]}]

NoDatabase == [ToSQLite(NoEncryption) EXCEPT !.database = ""]
Connecting == {[h1 |-> Assigned(o, v, 0), h2 |-> Assigned(NoDatabase, v, 0)] :
                  o \in Connections, v \in {"options", "dsn"}}

MCAssignments == Sharing \cup Connecting
=============================================================================
