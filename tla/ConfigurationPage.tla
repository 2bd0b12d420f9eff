------------------------- MODULE ConfigurationPage -------------------------
(***************************************************************************)
(* The configuration page (apps/web, use-configuration.ts): a table of     *)
(* parameters, one of which is edited at a time, and mutations that save a *)
(* value or put a default back.  The server numbers the writes of a key.   *)
(***************************************************************************)
EXTENDS QueryClient

CONSTANTS
    ConfigKeys, NoKey,
    MaxWrites    \* bound: writes of a key, this page's and other admins'

VARIABLES
    config,      \* the server: the number of the last write of every key
    defaults,    \* the writes that left a key at its default
    table,       \* the cached query
    settings,    \* the state of the mounted page
    saves        \* mutations on their way

configVars == <<config, defaults, table, settings, saves>>

PageStart(mount) ==
    [mount |-> mount, editing |-> NoKey, rowError |-> FALSE, success |-> FALSE, error |-> FALSE]

ConfigInit ==
    /\ config = [k \in ConfigKeys |-> 1]
    /\ defaults = {<<k, 1>> : k \in ConfigKeys}
    /\ table = NewQuery(ConfigKeys)
    /\ settings = PageStart(1)
    /\ saves = {}

\* Only this mount's mutations disable the buttons.
IsPending == \E s \in saves : s.mount = settings.mount

IsDefault(key) == <<key, table.data[key]>> \in defaults
-----------------------------------------------------------------------------
HandleStartEdit(key) ==
    /\ Loaded(table) /\ ~table.failed /\ ~IsPending
    /\ settings.editing = NoKey
    /\ settings' = [PageStart(settings.mount) EXCEPT !.editing = key]
    /\ UNCHANGED <<config, defaults, table, saves>>

HandleCancel ==
    /\ settings.editing # NoKey /\ ~IsPending
    /\ settings' = [settings EXCEPT !.editing = NoKey, !.rowError = FALSE]
    /\ UNCHANGED <<config, defaults, table, saves>>

Mutate(key, op) ==
    saves' = saves \cup {[key |-> key, op |-> op, mount |-> settings.mount,
                          phase |-> "sent", n |-> 0, asked |-> table.told[key]]}

\* A value that is no number, or out of range, is refused here.
HandleSave ==
    /\ settings.editing # NoKey /\ ~IsPending
    /\ \/ /\ settings' = [settings EXCEPT !.rowError = TRUE, !.error = TRUE, !.success = FALSE]
          /\ UNCHANGED saves
       \/ /\ Mutate(settings.editing, "save")
          /\ UNCHANGED settings
    /\ UNCHANGED <<config, defaults, table>>

\* While another row is being edited, too.
HandleReset(key) ==
    /\ Loaded(table) /\ ~table.failed /\ ~IsPending
    /\ settings.editing # key /\ ~IsDefault(key)
    /\ Mutate(key, "reset")
    /\ UNCHANGED <<config, defaults, table, settings>>
-----------------------------------------------------------------------------
SaveReplied(s, reply) == saves' = (saves \ {s}) \cup {reply}

\* The server writes and answers, and the answer may be lost; or it refuses.
WriteConfig(s) ==
    /\ s.phase = "sent"
    /\ \/ /\ config[s.key] < MaxWrites
          /\ config' = [config EXCEPT ![s.key] = @ + 1]
          /\ \E asDefault \in IF s.op = "reset" THEN {TRUE} ELSE BOOLEAN :
                defaults' = defaults \cup
                    IF asDefault THEN {<<s.key, config[s.key] + 1>>} ELSE {}
          /\ \/ SaveReplied(s, [s EXCEPT !.phase = "answered", !.n = config'[s.key]])
             \/ SaveReplied(s, [s EXCEPT !.phase = "failed"])
       \/ /\ SaveReplied(s, [s EXCEPT !.phase = "failed"])
          /\ UNCHANGED <<config, defaults>>
    /\ UNCHANGED <<table, settings>>

\* A mutation's onSuccess: it shows the value it wrote, whatever the page does.
PutNothing(s) == table
PutUpdated(s) == SetQueryData(table, s.key, s.n)

SaveSucceeds(s) ==
    /\ s.phase = "answered"
    /\ saves' = saves \ {s}
    /\ table' = Told(PutUpdated(s), s.key, s.n, s.asked)
    /\ settings' = IF s.mount # settings.mount THEN settings
                   ELSE [PageStart(settings.mount) EXCEPT !.success = TRUE]
    /\ UNCHANGED <<config, defaults>>

SaveFails(s) ==
    /\ s.phase = "failed"
    /\ saves' = saves \ {s}
    /\ settings' = IF s.mount # settings.mount THEN settings
                   ELSE [settings EXCEPT !.rowError = @ \/ s.op = "save",
                                         !.error = TRUE, !.success = FALSE]
    /\ UNCHANGED <<config, defaults, table>>

\* Another administrator.
OtherWrites(key) ==
    /\ config[key] < MaxWrites
    /\ config' = [config EXCEPT ![key] = @ + 1]
    /\ UNCHANGED <<defaults, table, settings, saves>>

ConfigActs == HandleSave \/ \E key \in ConfigKeys : HandleReset(key)

\* What the row alone knows of.
RowActs == HandleCancel \/ \E key \in ConfigKeys : HandleStartEdit(key)

\* Requests that the server answers while the session lasts.
ConfigServed ==
    \/ \E s \in saves : WriteConfig(s)
    \/ /\ table.phase = "asked"
       /\ table' \in {Answered(table, config), Failed(table)}
       /\ UNCHANGED <<config, defaults, settings, saves>>

ConfigLands ==
    \/ \E s \in saves : SaveSucceeds(s) \/ SaveFails(s)
    \/ /\ table.phase = "answered"
       /\ table' = Shown(table)
       /\ UNCHANGED <<config, defaults, settings, saves>>
=============================================================================
