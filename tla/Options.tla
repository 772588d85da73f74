------------------------------ MODULE Options -------------------------------
(***************************************************************************)
(* Options, the DSN that carries them through database/sql, and the        *)
(* connector made of them (types.go, dsn.go, sql_driver.go). GORM's        *)
(* dialectors hand a text to sql.Open, so that every option that a         *)
(* connection is to have must survive FormatDSN and ParseDSN; a caller of  *)
(* OpenWithOptions has a connector of the options as they are.             *)
(*                                                                         *)
(* A DSN is what net/url makes of it: user, host, path and query, a        *)
(* function from keys to values. Texts are compared only; a number is its  *)
(* text.                                                                   *)
(***************************************************************************)
EXTENDS Naturals

CONSTANTS Ports,      \* texts that are numbers
          UrlHost,    \* [name, port] which url.URL reads in the host of a URL
          LowerKey    \* query keys in lower case

Refused == [refused |-> TRUE]
Unset == ""

DefaultTranslateFailureLogPath == "uniquedialect-translate-failures.jsonl"
DefaultExecutionFailureLogPath == "uniquedialect-execution-failures.jsonl"

ReservedKeys == {"input", "target", "driver", "database", "port", "encrypt_enabled", "encrypt_key",
                 "log_failed_sql", "translate_failure_log_path", "execution_failure_log_path"}

ASSUME LowerKeyAssumption == \A k \in ReservedKeys : LowerKey[k] = k

\* The struct Options; a field that is not set has its zero value.
IsOptions(o) ==
    /\ o \in [input : STRING, target : STRING, driver : STRING, user : STRING, password : STRING, host : STRING,
              port : Ports \cup {Unset}, database : STRING, parameters : {o.parameters},
              translator : [input : STRING, target : STRING],
              encryption : [enabled : BOOLEAN, key : STRING, provider : STRING],
              logging : [failedSQL : BOOLEAN, translatePath : STRING, executionPath : STRING]]
    /\ o.parameters \in [DOMAIN o.parameters -> STRING]

Or(value, default) == IF value = Unset THEN default ELSE value

DriverForDialect(dialect) ==
    IF dialect \in {"postgres", "sqlite", "oracle"} THEN dialect ELSE "mysql"

NormalizedLogging(l) ==
    IF ~l.failedSQL THEN l
    ELSE [l EXCEPT !.translatePath = Or(@, DefaultTranslateFailureLogPath),
                   !.executionPath = Or(@, DefaultExecutionFailureLogPath)]

Normalized(o) ==
    LET target == Or(o.target, o.input)
    IN [o EXCEPT
          !.target = target,
          !.driver = Or(@, DriverForDialect(target)),
          !.translator = [input |-> Or(@.input, o.input), target |-> Or(@.target, target)],
          !.logging = NormalizedLogging(@)]

-----------------------------------------------------------------------------

\* Mutant: a flag is written as a number.
NumberFlag(b) == IF b THEN "1" ELSE Unset

Flag(b) == IF b THEN "true" ELSE Unset

\* The options that the query has under names of their own.
Entries(n) ==
    [input |-> n.input, target |-> n.target, driver |-> n.driver, database |-> n.database, port |-> n.port,
     encrypt_enabled |-> Flag(n.encryption.enabled), encrypt_key |-> n.encryption.key,
     log_failed_sql |-> Flag(n.logging.failedSQL), translate_failure_log_path |-> n.logging.translatePath,
     execution_failure_log_path |-> n.logging.executionPath]

\* A query has the entries that are set; parameters are set last, over these.
Query(parameters, entries) ==
    [k \in DOMAIN parameters \cup {e \in DOMAIN entries : entries[e] # Unset} |->
        IF k \in DOMAIN parameters THEN parameters[k] ELSE entries[k]]

FormatDSN(o) ==
    LET n == Normalized(o)
    IN [user |-> n.user, password |-> n.password, host |-> Or(n.host, "localhost"), path |-> Unset,
        query |-> Query(n.parameters, Entries(n))]

QueryGet(query, key) == IF key \in DOMAIN query THEN query[key] ELSE Unset

\* The translator's dialects and an encryption provider are not in the DSN.
ParseDSN(dsn) ==
    LET query == dsn.query
        Get(key) == QueryGet(query, key)
        host == UrlHost[dsn.host]
        port == Or(host.port, Get("port"))
        parameters == {k \in DOMAIN query : LowerKey[k] \notin ReservedKeys}
    IN IF port \notin Ports \cup {Unset} THEN Refused
       ELSE Normalized(
         [input |-> Get("input"), target |-> Get("target"), driver |-> Get("driver"),
          user |-> dsn.user, password |-> dsn.password, host |-> host.name, port |-> port,
          database |-> Or(Get("database"), dsn.path),
          parameters |-> [k \in parameters |-> query[k]],
          translator |-> [input |-> Unset, target |-> Unset],
          encryption |-> [enabled |-> Get("encrypt_enabled") = "true", key |-> Get("encrypt_key"), provider |-> Unset],
          logging |-> [failedSQL |-> Get("log_failed_sql") = "true",
                       translatePath |-> Get("translate_failure_log_path"),
                       executionPath |-> Get("execution_failure_log_path")]])

-----------------------------------------------------------------------------

Address(driver, o, host, port, parameters) ==
    [driver |-> driver, host |-> host, port |-> port, user |-> o.user, password |-> o.password,
     database |-> o.database, parameters |-> parameters]

\* Keys of PostgreSQL: the zone has the spelling which it knows.
PostgresKey(key) == IF LowerKey[key] = "timezone" THEN "TimeZone" ELSE key

\* The DSN of the target's driver; of SQLite it is the database alone.
BuildDriverDSN(o) ==
    LET n == Normalized(o)
    IN CASE n.driver = "sqlite" -> IF n.database = Unset THEN Refused
                                   ELSE [driver |-> "sqlite", database |-> n.database]
         [] n.driver = "mysql" ->
                Address("mysql", n, Or(n.host, "127.0.0.1"), Or(n.port, "3306"), n.parameters)
         [] n.driver = "postgres" ->
                Address("postgres", n, Or(n.host, "127.0.0.1"), Or(n.port, "5432"),
                        [k \in {PostgresKey(x) : x \in DOMAIN n.parameters} |->
                            LET from == CHOOSE x \in DOMAIN n.parameters : PostgresKey(x) = k
                            IN n.parameters[from]])
         [] OTHER -> Refused

\* newConnector; NewTranslator needs an input dialect.
NewConnector(o) ==
    LET n == Normalized(o)
        address == BuildDriverDSN(n)
    IN IF n.translator.input = Unset \/ address = Refused THEN Refused
       ELSE [address |-> address, translator |-> n.translator, logging |-> n.logging]

\* newConnectorFromDSN: what virtualDriver.Open connects to.
NewConnectorFromDSN(dsn) == LET o == ParseDSN(dsn) IN IF o = Refused THEN Refused ELSE NewConnector(o)
=============================================================================
