------------------------------ MODULE MCStartup ------------------------------
(* Small instances of Startup for TLC. *)
EXTENDS Startup

CONSTANTS site1, site2, unit1, fault1, action1, f1

MCTypeOf ==
    [r \in Records |-> CASE r \in {site1, site2} -> "SolarSite"
                         [] r = unit1  -> "InverterUnit"
                         [] r = fault1 -> "FaultEvent"
                         [] OTHER      -> "MitigationAction"]
MCSeedCode == [r \in Seeded |-> "001"]
\* Nothing set; the containers' environment; values the defaults replace, at
\* the borders of what is valid; and three that are refused.
Plain == <<>>
Compose == [APP_NAME |-> "solar", DATABASE_DRIVER |-> "postgres", REDIS_ADDR |-> "redis:6379",
            JWT_SECRET |-> 16, TOKEN_TTL |-> 28800, REQUEST_LIMIT |-> 240,
            STARTUP_TIMEOUT |-> 2]
Sloppy == [PORT |-> Blank, REDIS_ADDR |-> "redis:6379", TOKEN_TTL |-> -1,
           REQUEST_LIMIT |-> NotANumber, STARTUP_TIMEOUT |-> 1, IDLE_TIMEOUT |-> NotANumber]
ZeroLimit == [REQUEST_LIMIT |-> 0, READ_TIMEOUT |-> 0]
LimitTooLow == [REQUEST_LIMIT |-> 9]
KeyTooShort == [JWT_SECRET |-> 15, REQUEST_LIMIT |-> 100000]
UnknownDriver == [DATABASE_DRIVER |-> "oracle"]
Every == {Plain, Compose, Sloppy, ZeroLimit, LimitTooLow, KeyTooShort, UnknownDriver}
Containers == {Compose}

MCSeedStatus == [r \in Seeded |-> InitialStatus[MCTypeOf[r]]]
=============================================================================
