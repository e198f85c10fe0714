---------------------------- MODULE StatusGraphs ----------------------------
(***************************************************************************)
(* The status machines of the four kinds of record: the tables of          *)
(* backend/internal/constants/status.go, the status a record is created    *)
(* with (backend/internal/model) and the statuses of the demonstration     *)
(* rows a first boot inserts (backend/internal/database).                  *)
(***************************************************************************)

EntityTypes == {"SolarSite", "InverterUnit", "FaultEvent", "MitigationAction"}

SolarSiteTransitions ==
    [online      |-> {"limited", "offline"},
     limited     |-> {"offline", "maintenance", "online"},
     offline     |-> {"maintenance", "limited"},
     maintenance |-> {"offline"}]

InverterUnitTransitions ==
    [online   |-> {"warning", "tripped"},
     warning  |-> {"tripped", "isolated", "online"},
     tripped  |-> {"isolated", "warning"},
     isolated |-> {"tripped"}]

\* Variant: an acknowledged fault cannot be mitigated.
FaultEventTransitionsNarrow ==
    [open         |-> {"acknowledged", "mitigated"},
     acknowledged |-> {"closed", "open"},
     mitigated    |-> {"closed", "acknowledged"},
     closed       |-> {"mitigated"}]

FaultEventTransitions ==
    [open         |-> {"acknowledged", "mitigated"},
     acknowledged |-> {"mitigated", "closed", "open"},
     mitigated    |-> {"closed", "acknowledged"},
     closed       |-> {"mitigated"}]

MitigationActionTransitions ==
    [draft     |-> {"confirmed", "executing"},
     confirmed |-> {"executing", "completed", "draft"},
     executing |-> {"completed", "failed", "confirmed"},
     completed |-> {"failed", "executing"},
     failed    |-> {"completed"}]

Transitions ==
    [SolarSite        |-> SolarSiteTransitions,
     InverterUnit     |-> InverterUnitTransitions,
     FaultEvent       |-> FaultEventTransitions,
     MitigationAction |-> MitigationActionTransitions]

\* Variant: a status the table does not know may be entered.
CanTransitionLenient(graph, from, to) ==
    from \in DOMAIN graph /\ (to \in DOMAIN graph => to \in graph[from])

\* The lookup of the code: an unknown source status has no targets.
CanTransition(graph, from, to) ==
    /\ from \in DOMAIN graph
    /\ to \in graph[from]

StatusesOf(t) == DOMAIN Transitions[t]

AllStatuses == UNION {StatusesOf(t) : t \in EntityTypes}

InitialStatus ==
    [SolarSite        |-> "online",
     InverterUnit     |-> "online",
     FaultEvent       |-> "open",
     MitigationAction |-> "draft"]

\* The three demonstration rows of each table have three different statuses.
SeedStatuses ==
    [SolarSite        |-> {"online", "limited", "offline"},
     InverterUnit     |-> {"online", "warning", "tripped"},
     FaultEvent       |-> {"open", "acknowledged", "mitigated"},
     MitigationAction |-> {"draft", "confirmed", "executing"}]
=============================================================================
