--------------------------- MODULE OutboundManager ---------------------------
(***************************************************************************)
(* The outbound handlers of an instance (app/proxyman/outbound/outbound.go) *)
(* while the API adds and removes them: the table by tag, the default       *)
(* handler, and the cache of Select, which balancers and observatories ask  *)
(* for the tags that match their selectors.                                 *)
(*                                                                          *)
(* Select looks into the cache without the lock and fills it under the read *)
(* lock; every change of the table replaces the cache.                      *)
(***************************************************************************)
EXTENDS Integers, FiniteSets

CONSTANTS
    Handlers,   \* handler objects
    TagOf,      \* TagOf[h]: the handler's tag, Untagged: none
    Tags, Untagged,
    Selectors,  \* lists of prefixes, as keys of the cache
    Match,      \* Match[s]: tags with one of the prefixes of s
    Callers,    \* goroutines that call Select
    None

ASSUME ManagerAssumption ==
    /\ TagOf \in [Handlers -> Tags \cup {Untagged}]
    /\ Match \in [Selectors -> SUBSET Tags] /\ Untagged \notin Tags

VARIABLES
    taggedHandler,     \* taggedHandler[tag]: a handler or None
    untaggedHandlers,
    defaultHandler,
    running,
    started,           \* handlers whose Start was called, and not their Close
    unused,            \* handlers nobody has added yet
    tagsCache,         \* tagsCache[s]: tags, or None
    caller             \* caller[c]: what a Select is doing

managerVars == <<taggedHandler, untaggedHandlers, defaultHandler, running,
                 started, unused>>
vars == <<managerVars, tagsCache, caller>>

Empty == [s \in Selectors |-> None]
Away == [pc |-> "away", key |-> None, seen |-> {}, got |-> None, old |-> None]

Init ==
    /\ taggedHandler = [t \in Tags |-> None]
    /\ untaggedHandlers = {} /\ defaultHandler = None
    /\ running = FALSE /\ started = {} /\ unused = Handlers
    /\ tagsCache = Empty
    /\ caller = [c \in Callers |-> Away]

-----------------------------------------------------------------------------
PresentIn(table) == {t \in Tags : table[t] # None}
Present == PresentIn(taggedHandler)
Registered == {taggedHandler[t] : t \in Present} \cup untaggedHandlers
Answer(table, s) == Match[s] \cap PresentIn(table)

ResetKept == tagsCache
Reset == Empty

\* A change of the table, as a Select that is under way meets it: one that has
\* read the pointer to the cache but not yet looked into it keeps the old map.
\* seen collects, for the property, what the table would have answered.
Overtaken(table) == [c \in Callers |->
    IF caller[c].pc = "away" THEN caller[c]
    ELSE [caller[c] EXCEPT
            !.seen = @ \cup {Answer(table, caller[c].key)},
            !.old = IF caller[c].pc = "look" /\ @ = None THEN tagsCache ELSE @]]

StartedAfterAdd(h) == IF running THEN started \cup {h} ELSE started

\* The default is set, and the cache dropped, before the tag is found to be
\* taken.
AddHandler(h) ==
    LET tag == TagOf[h]
    IN  /\ h \in unused
        /\ unused' = unused \ {h}
        /\ tagsCache' = Reset
        /\ defaultHandler' = IF defaultHandler = None THEN h ELSE defaultHandler
        /\ \/ /\ tag \in Present
              /\ UNCHANGED <<taggedHandler, untaggedHandlers, started>>
           \/ /\ tag \notin Present
              /\ IF tag = Untagged
                 THEN /\ untaggedHandlers' = untaggedHandlers \cup {h}
                      /\ UNCHANGED taggedHandler
                 ELSE /\ taggedHandler' = [taggedHandler EXCEPT ![tag] = h]
                      /\ UNCHANGED untaggedHandlers
              /\ started' = StartedAfterAdd(h)
        /\ caller' = Overtaken(taggedHandler')
        /\ UNCHANGED running

DefaultAfter(t) ==
    IF defaultHandler # None /\ TagOf[defaultHandler] = t THEN None
    ELSE defaultHandler

\* The handler is not closed.
RemoveHandler(t) ==
    /\ tagsCache' = Reset
    /\ taggedHandler' = [taggedHandler EXCEPT ![t] = None]
    /\ defaultHandler' = DefaultAfter(t)
    /\ caller' = Overtaken(taggedHandler')
    /\ UNCHANGED <<untaggedHandlers, running, started, unused>>

Start ==
    /\ ~running
    /\ running' = TRUE
    /\ started' = started \cup Registered
    /\ UNCHANGED <<taggedHandler, untaggedHandlers, defaultHandler, unused,
                   tagsCache, caller>>

Close ==
    /\ running
    /\ running' = FALSE
    /\ started' = started \ Registered
    /\ UNCHANGED <<taggedHandler, untaggedHandlers, defaultHandler, unused,
                   tagsCache, caller>>

-----------------------------------------------------------------------------
(* Select *)
\* The call reads the pointer to the cache, without the lock.
SelectCall(c, s) ==
    /\ caller[c].pc = "away"
    /\ caller' = [caller EXCEPT
          ![c] = [Away EXCEPT !.pc = "look", !.key = s,
                              !.seen = {Answer(taggedHandler, s)}]]
    /\ UNCHANGED <<managerVars, tagsCache>>

SelectCached(c) ==
    /\ caller[c].pc = "look"
    /\ LET cache == IF caller[c].old = None THEN tagsCache ELSE caller[c].old
           hit == cache[caller[c].key]
       IN  caller' = [caller EXCEPT ![c].pc = IF hit # None THEN "done" ELSE "lock",
                                    ![c].got = hit]
    /\ UNCHANGED <<managerVars, tagsCache>>

\* Under the read lock: the table does not change while it is read, and the
\* cache that is filled is the one that belongs to it.
SelectLocked(c) ==
    LET tags == Answer(taggedHandler, caller[c].key)
    IN  /\ caller[c].pc = "lock"
        /\ tagsCache' = [tagsCache EXCEPT ![caller[c].key] = tags]
        /\ caller' = [caller EXCEPT ![c].pc = "done", ![c].got = tags]
        /\ UNCHANGED managerVars

SelectReturn(c) ==
    /\ caller[c].pc = "done"
    /\ caller' = [caller EXCEPT ![c] = Away]
    /\ UNCHANGED <<managerVars, tagsCache>>

Next == \/ \E h \in Handlers : AddHandler(h)
        \/ \E t \in Tags : RemoveHandler(t)
        \/ Start \/ Close
        \/ \E c \in Callers, s \in Selectors : SelectCall(c, s)
        \/ \E c \in Callers : SelectCached(c) \/ SelectLocked(c) \/ SelectReturn(c)

Spec == Init /\ [][Next]_vars

-----------------------------------------------------------------------------
\* Types of the table, the cache and the Selects under way.
TypeOK ==
    /\ taggedHandler \in [Tags -> Handlers \cup {None}]
    /\ untaggedHandlers \subseteq Handlers
    /\ defaultHandler \in Handlers \cup {None}
    /\ running \in BOOLEAN
    /\ started \subseteq Handlers /\ unused \subseteq Handlers
    /\ tagsCache \in [Selectors -> (SUBSET Tags) \cup {None}]
    /\ \A c \in Callers :
          /\ caller[c].pc \in {"away", "look", "lock", "done"}
          /\ caller[c].pc # "away" => caller[c].key \in Selectors

\* Select is as if it were atomic: what it returns is what the table held at
\* some moment between its call and its return, although it reads the cache
\* without the lock.
SelectLinear ==
    \A c \in Callers : caller[c].pc = "done" => caller[c].got \in caller[c].seen

\* Every registered handler is started exactly when the manager runs, in
\* whatever order handlers are added and the manager is started.
StartedWhenRunning ==
    \A h \in Registered : h \in started <=> running

\* Select answers as if it were atomic, although it reads its cache without
\* the lock, and handlers run while the manager does (Manager.Select,
\* AddHandler, RemoveHandler).
OutboundsServe == TypeOK /\ SelectLinear /\ StartedWhenRunning
=============================================================================
