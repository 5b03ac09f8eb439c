--------------------------- MODULE ServicesProofs ---------------------------
(***************************************************************************)
(* What is proved about the registries and tables of an instance.           *)
(* OutboundManager: Select is linear and handlers run while the manager     *)
(* does.  VlessValidator: the maps by email and by UUID agree.              *)
(* DnsNameServer: answers wake whoever waits, and the cache holds what was  *)
(* answered.  FakeDns: an address means one domain, the domains used last   *)
(* keep theirs, and the search for a free address ends.  HealthPing:        *)
(* statistics are those of the latest results.  LeastLoad: the selection is *)
(* the documented one.                                                      *)
(***************************************************************************)
EXTENDS Services, FiniteSetTheorems, SequenceTheorems, TLAPS

-----------------------------------------------------------------------------
(* OutboundManager *)

\* The record of a Select, with all its fields.
SelectRecord == [pc : {"away", "look", "lock", "done"},
                 key : Selectors \cup {None},
                 seen : SUBSET (SUBSET Tags),
                 got : (SUBSET Tags) \cup {None},
                 old : [Selectors -> (SUBSET Tags) \cup {None}] \cup {None}]

CallersTyped == caller \in [Callers -> SelectRecord]

\* The cache belongs to the table: what it holds, the table would answer.
CacheCurrent ==
    \A s \in Selectors : tagsCache[s] # None =>
        tagsCache[s] = Answer(taggedHandler, s)

\* A Select under way has seen the table as it is now.
SeesNow ==
    \A c \in Callers : caller[c].pc # "away" =>
        Answer(taggedHandler, caller[c].key) \in caller[c].seen

\* The map a Select kept when the cache was replaced holds, for its key,
\* nothing but what it has seen the table answer.
OldCacheSeen ==
    \A c \in Callers : caller[c].pc = "look" /\ caller[c].old # None =>
        \/ caller[c].old[caller[c].key] = None
        \/ caller[c].old[caller[c].key] \in caller[c].seen

\* A handler nobody has added is neither registered nor started.
UnusedApart == Registered \cap unused = {} /\ started \cap unused = {}

SelectInv == CacheCurrent /\ SeesNow /\ OldCacheSeen /\ SelectLinear
OutboundInv == TypeOK /\ CallersTyped /\ SelectInv
               /\ UnusedApart /\ StartedWhenRunning

\* What the table answers is a set of tags.
LEMMA AnswerType ==
    ASSUME NEW table, NEW s \in Selectors
    PROVE  Answer(table, s) \in SUBSET Tags
  BY ManagerAssumption DEF Answer, PresentIn

\* Replacing the table and the cache: every Select under way sees the new
\* table, and one that has not looked yet keeps the old map.
LEMMA ReplaceKeeps ==
    ASSUME TypeOK, CallersTyped, SelectInv,
           tagsCache' = Reset, caller' = Overtaken(taggedHandler')
    PROVE  CallersTyped' /\ SelectInv'
<1> DEFINE Entry(c) == [caller[c] EXCEPT
              !.seen = @ \cup {Answer(taggedHandler', caller[c].key)},
              !.old = IF caller[c].pc = "look" /\ @ = None THEN tagsCache ELSE @]
<1>1. \A c \in Callers :
         caller'[c] = IF caller[c].pc = "away" THEN caller[c] ELSE Entry(c)
  BY DEF Overtaken
<1>2. \A c \in Callers : caller[c].pc # "away" =>
         /\ Entry(c) \in SelectRecord
         /\ Entry(c).pc = caller[c].pc /\ Entry(c).key = caller[c].key
         /\ Entry(c).got = caller[c].got
         /\ Entry(c).seen = caller[c].seen \cup {Answer(taggedHandler', caller[c].key)}
         /\ Entry(c).old = IF caller[c].pc = "look" /\ caller[c].old = None
                           THEN tagsCache ELSE caller[c].old
  <2> SUFFICES ASSUME NEW c \in Callers, caller[c].pc # "away"
               PROVE  /\ Entry(c) \in SelectRecord
                      /\ Entry(c).pc = caller[c].pc
                      /\ Entry(c).key = caller[c].key
                      /\ Entry(c).got = caller[c].got
                      /\ Entry(c).seen = caller[c].seen
                             \cup {Answer(taggedHandler', caller[c].key)}
                      /\ Entry(c).old = IF caller[c].pc = "look"
                                           /\ caller[c].old = None
                                        THEN tagsCache ELSE caller[c].old
    OBVIOUS
  <2>1. caller[c] \in SelectRecord /\ caller[c].key \in Selectors
    BY DEF CallersTyped, TypeOK
  <2>2. Answer(taggedHandler', caller[c].key) \in SUBSET Tags
    BY <2>1, AnswerType
  <2>3. tagsCache \in [Selectors -> (SUBSET Tags) \cup {None}]
    BY DEF TypeOK
  <2> QED
    BY <2>1, <2>2, <2>3 DEF SelectRecord
<1> HIDE DEF Entry
<1>3. CallersTyped'
  BY <1>1, <1>2 DEF CallersTyped, Overtaken
<1>4. CacheCurrent'
  BY DEF CacheCurrent, Reset, Empty
<1>5. SeesNow'
  BY <1>1, <1>2 DEF SeesNow
<1>6. OldCacheSeen'
  <2> SUFFICES ASSUME NEW c \in Callers, caller'[c].pc = "look",
                      caller'[c].old # None
               PROVE  \/ caller'[c].old[caller'[c].key] = None
                      \/ caller'[c].old[caller'[c].key] \in caller'[c].seen
    BY DEF OldCacheSeen
  <2>1. /\ caller[c].pc = "look" /\ caller'[c] = Entry(c)
        /\ caller[c].key \in Selectors
    BY <1>1, <1>2 DEF TypeOK
  <2>2. CASE caller[c].old = None
    <3>1. caller'[c].old = tagsCache /\ caller'[c].key = caller[c].key
      BY <1>2, <2>1, <2>2
    <3>2. \/ tagsCache[caller[c].key] = None
          \/ tagsCache[caller[c].key] = Answer(taggedHandler, caller[c].key)
      BY <2>1 DEF SelectInv, CacheCurrent
    <3>3. Answer(taggedHandler, caller[c].key) \in caller'[c].seen
      BY <1>2, <2>1 DEF SelectInv, SeesNow
    <3> QED
      BY <3>1, <3>2, <3>3
  <2>3. CASE caller[c].old # None
    BY <1>2, <2>1, <2>3 DEF SelectInv, OldCacheSeen
  <2> QED
    BY <2>2, <2>3
<1>7. SelectLinear'
  BY <1>1, <1>2 DEF SelectInv, SelectLinear
<1> QED
  BY <1>3, <1>4, <1>5, <1>6, <1>7 DEF SelectInv

\* Overtaking a Select changes neither its place nor its key.
LEMMA OvertakenKeeps ==
    ASSUME CallersTyped, NEW table, NEW c \in Callers
    PROVE  /\ Overtaken(table)[c].pc = caller[c].pc
           /\ Overtaken(table)[c].key = caller[c].key
<1>1. caller[c] \in SelectRecord
  BY DEF CallersTyped
<1> QED
  BY <1>1 DEF Overtaken, SelectRecord

\* AddHandler: the new handler is started at once if the manager runs, and
\* was not started before.
LEMMA AddHandlerKeeps ==
    ASSUME OutboundInv, NEW h \in Handlers, AddHandler(h)
    PROVE  OutboundInv'
<1> USE DEF OutboundInv
<1> DEFINE tag == TagOf[h]
<1>1. CallersTyped' /\ SelectInv'
  BY ReplaceKeeps DEF AddHandler
<1>2. tag \in Tags \cup {Untagged} /\ h \in unused
  BY ManagerAssumption DEF AddHandler
<1>3. /\ taggedHandler' \in [Tags -> Handlers \cup {None}]
      /\ untaggedHandlers' \subseteq Handlers
      /\ started' \subseteq started \cup {h}
      /\ Registered' \subseteq Registered \cup {h}
      /\ h \in Registered' /\ h \notin Registered => (h \in started' <=> running \/ h \in started)
  <2>1. CASE /\ tag \in Present
             /\ UNCHANGED <<taggedHandler, untaggedHandlers, started>>
    BY <2>1 DEF TypeOK, Registered, Present, PresentIn
  <2>2. CASE /\ tag = Untagged /\ untaggedHandlers' = untaggedHandlers \cup {h}
             /\ UNCHANGED taggedHandler /\ started' = StartedAfterAdd(h)
    BY <2>2 DEF TypeOK, Registered, Present, PresentIn, StartedAfterAdd
  <2>3. CASE /\ tag # Untagged /\ taggedHandler' = [taggedHandler EXCEPT ![tag] = h]
             /\ UNCHANGED untaggedHandlers /\ started' = StartedAfterAdd(h)
    BY <1>2, <2>3 DEF TypeOK, Registered, Present, PresentIn, StartedAfterAdd
  <2> QED
    BY <2>1, <2>2, <2>3 DEF AddHandler
<1>4. started \subseteq started' /\ running' = running /\ unused' = unused \ {h}
  BY DEF AddHandler, StartedAfterAdd
<1>5. TypeOK'
  <2>1. tagsCache' \in [Selectors -> (SUBSET Tags) \cup {None}]
    BY DEF AddHandler, Reset, Empty
  <2>2. \A c \in Callers :
           /\ caller'[c].pc \in {"away", "look", "lock", "done"}
           /\ caller'[c].pc # "away" => caller'[c].key \in Selectors
    BY OvertakenKeeps DEF AddHandler, TypeOK
  <2>3. defaultHandler' \in Handlers \cup {None}
    BY DEF AddHandler, TypeOK
  <2> QED
    BY <1>3, <1>4, <2>1, <2>2, <2>3 DEF TypeOK
<1>6. UnusedApart'
  BY <1>3, <1>4 DEF UnusedApart
<1>7. StartedWhenRunning'
  BY <1>2, <1>3, <1>4 DEF StartedWhenRunning, UnusedApart
<1> QED
  BY <1>1, <1>5, <1>6, <1>7

\* RemoveHandler takes a handler out of the table and stops nothing.
LEMMA RemoveHandlerKeeps ==
    ASSUME OutboundInv, NEW t \in Tags, RemoveHandler(t)
    PROVE  OutboundInv'
<1> USE DEF OutboundInv
<1>1. CallersTyped' /\ SelectInv'
  BY ReplaceKeeps DEF RemoveHandler
<1>2. /\ taggedHandler' \in [Tags -> Handlers \cup {None}]
      /\ Registered' \subseteq Registered
  BY DEF RemoveHandler, TypeOK, Registered, Present, PresentIn
<1>3. TypeOK'
  <2>1. tagsCache' \in [Selectors -> (SUBSET Tags) \cup {None}]
    BY DEF RemoveHandler, Reset, Empty
  <2>2. \A c \in Callers :
           /\ caller'[c].pc \in {"away", "look", "lock", "done"}
           /\ caller'[c].pc # "away" => caller'[c].key \in Selectors
    BY OvertakenKeeps DEF RemoveHandler, TypeOK
  <2>3. defaultHandler' \in Handlers \cup {None}
    BY DEF RemoveHandler, DefaultAfter, TypeOK
  <2> QED
    BY <1>2, <2>1, <2>2, <2>3 DEF TypeOK, RemoveHandler
<1>4. UnusedApart' /\ StartedWhenRunning'
  BY <1>2 DEF UnusedApart, StartedWhenRunning, RemoveHandler
<1> QED
  BY <1>1, <1>3, <1>4

\* Start starts, and Close stops, exactly the registered handlers.
LEMMA StartCloseKeep ==
    ASSUME OutboundInv, Start \/ Close
    PROVE  OutboundInv'
<1> USE DEF OutboundInv
<1>1. UNCHANGED <<taggedHandler, untaggedHandlers, defaultHandler, unused,
                  tagsCache, caller>>
  BY DEF Start, Close
<1>2. Registered' = Registered
  BY <1>1 DEF Registered, Present, PresentIn
<1>3. Registered \subseteq Handlers
  BY DEF TypeOK, Registered, Present, PresentIn
<1>4. TypeOK' /\ UnusedApart' /\ StartedWhenRunning'
  <2>1. CASE Start
    BY <1>1, <1>2, <1>3, <2>1 DEF Start, TypeOK, UnusedApart, StartedWhenRunning
  <2>2. CASE Close
    BY <1>1, <1>2, <1>3, <2>2 DEF Close, TypeOK, UnusedApart, StartedWhenRunning
  <2> QED
    BY <2>1, <2>2
<1>5. CallersTyped' /\ SelectInv'
  BY <1>1 DEF CallersTyped, SelectInv, CacheCurrent, SeesNow, OldCacheSeen,
              SelectLinear, Answer, PresentIn
<1> QED
  BY <1>4, <1>5

\* Steps of Select leave the manager alone.
LEMMA ManagerKept ==
    ASSUME UNCHANGED managerVars, UnusedApart, StartedWhenRunning
    PROVE  UnusedApart' /\ StartedWhenRunning'
  BY DEF managerVars, UnusedApart, StartedWhenRunning, Registered, Present,
         PresentIn

\* SelectCall: what the table answers now is the first thing the call sees.
LEMMA SelectCallKeeps ==
    ASSUME OutboundInv, NEW c \in Callers, NEW s \in Selectors, SelectCall(c, s)
    PROVE  OutboundInv'
<1> USE DEF OutboundInv
<1> DEFINE tags == Answer(taggedHandler, s)
           rec == [Away EXCEPT !.pc = "look", !.key = s, !.seen = {tags}]
<1>1. /\ caller' = [caller EXCEPT ![c] = rec]
      /\ UNCHANGED <<managerVars, tagsCache>>
  BY DEF SelectCall
<1>2. tags \in SUBSET Tags
  BY AnswerType
<1> HIDE DEF tags
<1>3. /\ rec \in SelectRecord /\ rec.pc = "look" /\ rec.key = s
      /\ rec.seen = {tags} /\ rec.old = None
  BY <1>2 DEF SelectRecord, Away
<1> HIDE DEF rec
<1>4. /\ CallersTyped' /\ caller'[c] = rec
      /\ \A d \in Callers \ {c} : caller'[d] = caller[d]
  BY <1>1, <1>3 DEF CallersTyped
<1>5. TypeOK'
  BY <1>1, <1>3, <1>4 DEF TypeOK, managerVars
<1>6. SelectInv'
  <2>1. \A d \in Callers : caller[d].pc # "away" => caller[d].key \in Selectors
    BY DEF TypeOK
  <2>2. tagsCache' = tagsCache /\ taggedHandler' = taggedHandler
    BY <1>1 DEF managerVars
  <2> QED
    BY <1>3, <1>4, <2>1, <2>2
       DEF tags, SelectInv, CacheCurrent, SeesNow, OldCacheSeen, SelectLinear
<1> QED
  BY <1>1, <1>4, <1>5, <1>6, ManagerKept

\* SelectCached: a hit, in the cache or in the map kept from before a change,
\* is something the call has seen.
LEMMA SelectCachedKeeps ==
    ASSUME OutboundInv, NEW c \in Callers, SelectCached(c)
    PROVE  OutboundInv'
<1> USE DEF OutboundInv
<1> DEFINE cache == IF caller[c].old = None THEN tagsCache ELSE caller[c].old
           hit == cache[caller[c].key]
           pc == IF hit # None THEN "done" ELSE "lock"
<1>1. /\ caller[c].pc = "look"
      /\ caller' = [caller EXCEPT ![c].pc = pc, ![c].got = hit]
      /\ UNCHANGED <<managerVars, tagsCache>>
  BY DEF SelectCached
<1>2. caller[c] \in SelectRecord /\ caller[c].key \in Selectors
  BY <1>1 DEF CallersTyped, TypeOK
<1>3. hit \in (SUBSET Tags) \cup {None}
  BY <1>2 DEF SelectRecord, TypeOK
<1>4. hit = None \/ hit \in caller[c].seen
  BY <1>1, <1>2 DEF SelectInv, CacheCurrent, SeesNow, OldCacheSeen
<1> HIDE DEF hit
<1>5. /\ CallersTyped'
      /\ caller'[c].pc = pc /\ caller'[c].got = hit
      /\ caller'[c].key = caller[c].key /\ caller'[c].seen = caller[c].seen
      /\ \A d \in Callers \ {c} : caller'[d] = caller[d]
  BY <1>1, <1>2, <1>3 DEF CallersTyped, SelectRecord
<1>6. TypeOK'
  BY <1>1, <1>2, <1>5 DEF TypeOK, managerVars
<1>7. CacheCurrent' /\ SeesNow' /\ OldCacheSeen'
  <2>1. tagsCache' = tagsCache /\ taggedHandler' = taggedHandler
    BY <1>1 DEF managerVars
  <2>2. caller'[c].pc \in {"done", "lock"}
    BY <1>5
  <2> HIDE DEF pc
  <2> QED
    BY <1>1, <1>5, <2>1, <2>2 DEF SelectInv, CacheCurrent, SeesNow, OldCacheSeen
<1>8. SelectLinear'
  BY <1>4, <1>5 DEF SelectInv, SelectLinear
<1> QED
  BY <1>1, <1>5, <1>6, <1>7, <1>8, ManagerKept DEF SelectInv

\* SelectLocked fills the cache with what the table answers.
LEMMA SelectLockedKeeps ==
    ASSUME OutboundInv, NEW c \in Callers, SelectLocked(c)
    PROVE  OutboundInv'
<1> USE DEF OutboundInv
<1> DEFINE key == caller[c].key
           tags == Answer(taggedHandler, key)
<1>1. /\ caller[c].pc = "lock"
      /\ tagsCache' = [tagsCache EXCEPT ![key] = tags]
      /\ caller' = [caller EXCEPT ![c].pc = "done", ![c].got = tags]
      /\ UNCHANGED managerVars
  BY DEF SelectLocked
<1>2. /\ caller[c] \in SelectRecord /\ key \in Selectors
      /\ tags \in SUBSET Tags /\ tags \in caller[c].seen
  BY <1>1, AnswerType DEF CallersTyped, TypeOK, SelectInv, SeesNow
<1>3. \A s \in Selectors : Answer(taggedHandler, s)' = Answer(taggedHandler, s)
  BY <1>1 DEF Answer, PresentIn, managerVars
<1> HIDE DEF tags
<1>4. /\ CallersTyped'
      /\ caller'[c].pc = "done" /\ caller'[c].got = tags
      /\ caller'[c].key = key /\ caller'[c].seen = caller[c].seen
      /\ \A d \in Callers \ {c} : caller'[d] = caller[d]
  BY <1>1, <1>2 DEF CallersTyped, SelectRecord
<1>5. TypeOK'
  BY <1>1, <1>2, <1>4 DEF TypeOK, managerVars
<1>6. CacheCurrent'
  <2>1. \A s \in Selectors : tagsCache'[s] = IF s = key THEN tags ELSE tagsCache[s]
    BY <1>1, <1>2 DEF TypeOK
  <2> QED
    BY <1>3, <2>1 DEF SelectInv, CacheCurrent, tags
<1>7. SeesNow' /\ OldCacheSeen' /\ SelectLinear'
  <2>1. \A d \in Callers : caller[d].pc # "away" => caller[d].key \in Selectors
    BY DEF TypeOK
  <2>2. SeesNow'
    BY <1>1, <1>2, <1>3, <1>4, <2>1 DEF SelectInv, SeesNow
  <2>3. OldCacheSeen'
    BY <1>1, <1>2, <1>3, <1>4, <2>1 DEF SelectInv, OldCacheSeen
  <2>4. SelectLinear'
    BY <1>1, <1>2, <1>3, <1>4, <2>1 DEF SelectInv, SelectLinear
  <2> QED
    BY <2>2, <2>3, <2>4
<1> QED
  BY <1>1, <1>4, <1>5, <1>6, <1>7, ManagerKept DEF SelectInv

\* SelectReturn ends the call.
LEMMA SelectReturnKeeps ==
    ASSUME OutboundInv, NEW c \in Callers, SelectReturn(c)
    PROVE  OutboundInv'
<1> USE DEF OutboundInv
<1>1. /\ caller' = [caller EXCEPT ![c] = Away]
      /\ UNCHANGED <<managerVars, tagsCache>>
  BY DEF SelectReturn
<1>2. Away \in SelectRecord /\ Away.pc = "away"
  BY DEF Away, SelectRecord
<1>3. /\ CallersTyped' /\ caller'[c].pc = "away"
      /\ \A d \in Callers \ {c} : caller'[d] = caller[d]
  BY <1>1, <1>2 DEF CallersTyped
<1>4. TypeOK'
  BY <1>1, <1>3 DEF TypeOK, managerVars
<1>5. SelectInv'
  BY <1>1, <1>3 DEF SelectInv, CacheCurrent, SeesNow, OldCacheSeen, SelectLinear,
                    Answer, PresentIn, managerVars
<1> QED
  BY <1>1, <1>3, <1>4, <1>5, ManagerKept

\* A new manager has no handlers, an empty cache and no callers.
LEMMA OutboundInit == Init => OutboundInv
<1> SUFFICES ASSUME Init PROVE OutboundInv
  OBVIOUS
<1>1. Away \in SelectRecord /\ Away.pc = "away"
  BY DEF Away, SelectRecord
<1>2. CallersTyped /\ \A c \in Callers : caller[c].pc = "away"
  BY <1>1 DEF Init, CallersTyped
<1>3. TypeOK
  BY <1>2 DEF Init, TypeOK, Empty
<1>4. SelectInv
  BY <1>2 DEF Init, SelectInv, CacheCurrent, SeesNow, OldCacheSeen, SelectLinear,
              Empty
<1>5. UnusedApart /\ StartedWhenRunning
  BY DEF Init, UnusedApart, StartedWhenRunning, Registered, Present, PresentIn
<1> QED
  BY <1>2, <1>3, <1>4, <1>5 DEF OutboundInv

\* Select returns what the table held at some moment between call and return,
\* for any number of callers and changes of the table meanwhile, although it
\* reads the cache without the lock; and the registered handlers are started
\* exactly while the manager runs.
THEOREM OutboundsAnswer == Spec => []OutboundsServe
<1>1. Init => OutboundInv
  BY OutboundInit
<1>2. OutboundInv /\ [Next]_vars => OutboundInv'
  <2> SUFFICES ASSUME OutboundInv, [Next]_vars PROVE OutboundInv'
    OBVIOUS
  <2>1. CASE UNCHANGED vars
    BY <2>1 DEF vars, managerVars, OutboundInv, TypeOK, CallersTyped, SelectInv,
                CacheCurrent, SeesNow, OldCacheSeen, SelectLinear, UnusedApart,
                StartedWhenRunning, Registered, Present, PresentIn, Answer
  <2> QED
    BY <2>1, AddHandlerKeeps, RemoveHandlerKeeps, StartCloseKeep, SelectCallKeeps,
       SelectCachedKeeps, SelectLockedKeeps, SelectReturnKeeps DEF Next
<1>3. OutboundInv => OutboundsServe
  BY DEF OutboundInv, OutboundsServe, SelectInv
<1> QED
  BY <1>1, <1>2, <1>3, PTL DEF Spec

-----------------------------------------------------------------------------
(* VlessValidator, instantiated as Table *)

TablePCs == {"none", "loadOrStore", "store", "load", "deleteEmail", "deleteUser"}

\* Who calls about what: a caller that is not about anything is quiet, and a
\* call that carries a user carries one of its own email.
CallsTyped ==
    \A c \in Service :
        \/ call[c] = Table!Quiet
        \/ /\ call[c].about \in Table!Emails
           /\ call[c].pc \in TablePCs \ {"none"}
           /\ call[c].pc # "load" => /\ call[c].user \in Users
                                     /\ call[c].user.email = call[c].about

\* The maps agree about the email e.
Agree(e) == \A u \in Users : u.email = e => (email[e] = u <=> users[u.id] = u)

\* No user of the email e is under its UUID.
NoId(e) == \A u \in Users : u.email = e => users[u.id] # u

\* What a call has done to the maps when it is at pc, unless it overlapped.
Did(pc, e, u) ==
    /\ pc \in {"loadOrStore", "load", "deleteEmail"} => Agree(e)
    /\ pc = "deleteEmail" => email[e] = u
    /\ pc = "store" => email[e] = u /\ NoId(e)
    /\ pc = "deleteUser" =>
          /\ email[e] = None
          /\ \A v \in Users : v.email = e /\ users[v.id] = v => v = u

\* An email that no calls overlapped on has one caller at most.
OneCaller ==
    \A e \in Table!Emails \ crossed : \A c, d \in Table!About(e) : c = d
RestAgrees ==
    \A e \in Table!Emails \ crossed : Table!About(e) = {} => Agree(e)
CallersDid ==
    \A c \in Service : call[c].about \in Table!Emails \ crossed =>
        Did(call[c].pc, call[c].about, call[c].user)

TableInv == Table!TypeOK /\ CallsTyped /\ OneCaller /\ RestAgrees /\ CallersDid

\* A step of one caller on the maps keeps the invariant when it touches its own
\* email and the UUIDs of that email's users only, and leaves the maps as the
\* call's next place, or its return, requires.
LEMMA OwnEmailOnly ==
    ASSUME TableInv, Table!TypeOK', CallsTyped', Table!CallsAssumption,
           NEW c \in Service, NEW e \in Table!Emails,
           call[c].about = e, crossed' = crossed,
           call'[c] = Table!Quiet \/ call'[c].about = e,
           \A d \in Service \ {c} : call'[d] = call[d],
           \A f \in Table!Emails \ {e} : email'[f] = email[f],
           \A v \in Users : v.email # e => (users'[v.id] = v <=> users[v.id] = v),
           e \notin crossed => IF call'[c] = Table!Quiet THEN Agree(e)'
                              ELSE Did(call[c].pc, e, call[c].user)'
    PROVE  TableInv'
<1> USE DEF TableInv
<1>0. Table!Quiet.about = None /\ None \notin Table!Emails
  BY DEF Table!Quiet, Table!CallsAssumption
<1>1. \A f \in Table!Emails \ {e} : Table!About(f)' = Table!About(f)
  BY <1>0 DEF Table!About
<1>2. \A f \in Table!Emails \ {e} : Agree(f) => Agree(f)'
  BY DEF Agree
<1>3. \A f \in Table!Emails \ {e} : \A pc, u : Did(pc, f, u) => Did(pc, f, u)'
  BY <1>2 DEF Did, NoId
<1>4. OneCaller'
  BY <1>0, <1>1 DEF OneCaller, Table!About
<1>5. RestAgrees'
  <2> SUFFICES ASSUME NEW f \in Table!Emails, f \notin crossed, Table!About(f)' = {}
               PROVE  Agree(f)'
    BY DEF RestAgrees
  <2>1. CASE f = e
    <3>1. call'[c] = Table!Quiet
      BY <2>1 DEF Table!About
    <3> QED
      BY <2>1, <3>1
  <2>2. CASE f # e
    BY <1>1, <1>2, <2>2 DEF RestAgrees
  <2> QED
    BY <2>1, <2>2
<1>6. CallersDid'
  <2> SUFFICES ASSUME NEW d \in Service, call'[d].about \in Table!Emails,
                      call'[d].about \notin crossed
               PROVE  Did(call[d].pc, call[d].about, call[d].user)'
    BY DEF CallersDid
  <2>1. CASE d = c
    BY <1>0, <2>1
  <2>2. CASE d # c
    <3>1. call'[d] = call[d] /\ Did(call[d].pc, call[d].about, call[d].user)
      BY <2>2 DEF CallersDid
    <3>2. call[d].about # e
      BY <2>2, <3>1 DEF OneCaller, Table!About
    <3> QED
      BY <1>3, <3>1, <3>2
  <2> QED
    BY <2>1, <2>2
<1> QED
  BY <1>4, <1>5, <1>6

\* A caller that goes on or returns: the others stay where they are, and the
\* records keep their types.
LEMMA CallMoves ==
    ASSUME TableInv, NEW c \in Service,
           NEW pc \in TablePCs, NEW u \in Users \cup {None},
           Table!Goto(c, pc, u)
    PROVE  /\ call' \in [Service -> [pc : TablePCs,
                                     about : Table!Emails \cup {None},
                                     user : Users \cup {None}]]
           /\ call'[c].pc = pc /\ call'[c].user = u
           /\ call'[c].about = call[c].about
           /\ \A d \in Service \ {c} : call'[d] = call[d]
  BY DEF TableInv, Table!TypeOK, Table!PCs, TablePCs, Table!Goto

\* A caller that returns is quiet again.
LEMMA CallReturns ==
    ASSUME TableInv, NEW c \in Service, Table!Returns(c)
    PROVE  /\ call' \in [Service -> [pc : TablePCs,
                                     about : Table!Emails \cup {None},
                                     user : Users \cup {None}]]
           /\ call'[c] = Table!Quiet
           /\ \A d \in Service \ {c} : call'[d] = call[d]
           /\ CallsTyped'
<1>1. Table!Quiet \in [pc : TablePCs, about : Table!Emails \cup {None},
                       user : Users \cup {None}]
  BY DEF Table!Quiet, TablePCs
<1> QED
  BY <1>1 DEF TableInv, Table!TypeOK, Table!PCs, TablePCs, Table!Returns, CallsTyped

\* A caller that is not quiet is about an email, and carries a user of it
\* except at "load".
LEMMA CallAbout ==
    ASSUME TableInv, NEW c \in Service, call[c].pc # "none"
    PROVE  /\ call[c].about \in Table!Emails
           /\ call[c].pc # "load" => /\ call[c].user \in Users
                                     /\ call[c].user.email = call[c].about
           /\ call[c].about \notin crossed =>
                 Did(call[c].pc, call[c].about, call[c].user)
<1>1. call[c] # Table!Quiet
  BY DEF Table!Quiet
<1> QED
  BY <1>1 DEF TableInv, CallsTyped, CallersDid

\* A call begins: alone on its email, or the email is crossed from now on.
LEMMA BeginsKeeps ==
    ASSUME TableInv, Table!CallsAssumption, NEW c \in Service,
           NEW pc, NEW e \in Table!Emails, NEW u \in Users \cup {None},
           \/ pc = "loadOrStore" /\ u \in Users /\ u.email = e
           \/ pc = "load",
           Table!Begins(c, pc, e, u)
    PROVE  TableInv'
<1> USE DEF TableInv
<1> DEFINE rec == [pc |-> pc, about |-> e, user |-> u]
<1>1. /\ call[c] = Table!Quiet /\ call' = [call EXCEPT ![c] = rec]
      /\ email' = email /\ users' = users /\ calls' = calls + 1
      /\ calls < MaxCalls
      /\ crossed' = IF Table!About(e) = {} THEN crossed ELSE crossed \cup {e}
  BY DEF Table!Begins
<1>2. rec \in [pc : TablePCs, about : Table!Emails \cup {None},
               user : Users \cup {None}]
  BY DEF TablePCs
<1>3. /\ call' \in [Service -> [pc : TablePCs, about : Table!Emails \cup {None},
                                user : Users \cup {None}]]
      /\ call'[c] = rec
      /\ \A d \in Service \ {c} : call'[d] = call[d]
  BY <1>1, <1>2 DEF Table!TypeOK, Table!PCs, TablePCs
<1>4. Table!TypeOK'
  BY <1>1, <1>3 DEF Table!TypeOK, Table!PCs, TablePCs, Table!CallsAssumption
<1>5. CallsTyped'
  BY <1>3 DEF CallsTyped, TablePCs
<1>6. call[c].about = None /\ None \notin Table!Emails
  BY <1>1 DEF Table!Quiet, Table!CallsAssumption
<1>7. \A f \in Table!Emails \ {e} : Table!About(f)' = Table!About(f)
  BY <1>3, <1>6 DEF Table!About
<1>8. Table!About(e)' = Table!About(e) \cup {c}
  BY <1>3 DEF Table!About
<1>9. OneCaller'
  BY <1>1, <1>7, <1>8 DEF OneCaller
<1>10. \A f : Agree(f) => Agree(f)'
  BY <1>1 DEF Agree
<1>11. RestAgrees'
  BY <1>1, <1>7, <1>8, <1>10 DEF RestAgrees
<1>12. CallersDid'
  <2> SUFFICES ASSUME NEW d \in Service, call'[d].about \in Table!Emails,
                      call'[d].about \notin crossed'
               PROVE  Did(call[d].pc, call[d].about, call[d].user)'
    BY DEF CallersDid
  <2>1. call'[d].about \notin crossed
    BY <1>1
  <2>2. CASE d = c
    <3>1. Table!About(e) = {} /\ Agree(e)'
      BY <1>1, <1>3, <1>10, <2>2 DEF RestAgrees
    <3> QED
      BY <1>3, <2>2, <3>1 DEF Did
  <2>3. CASE d # c
    <3>1. call'[d] = call[d] /\ Did(call[d].pc, call[d].about, call[d].user)
      BY <1>3, <2>1, <2>3 DEF CallersDid
    <3> QED
      BY <1>1, <1>10, <3>1 DEF Did, NoId
  <2> QED
    BY <2>2, <2>3
<1> QED
  BY <1>4, <1>5, <1>9, <1>11, <1>12

\* LoadOrStore: the email was free, so none of its users is under its UUID.
LEMMA LoadOrStoreKeeps ==
    ASSUME TableInv, Table!CallsAssumption, NEW c \in Service,
           Table!LoadOrStore(c)
    PROVE  TableInv'
<1>1. PICK e \in Table!Emails, u \in Users :
         /\ e = call[c].about /\ u = call[c].user /\ u.email = e
         /\ call[c].pc = "loadOrStore"
         /\ e \notin crossed => Agree(e)
         /\ users' = users /\ calls' = calls /\ crossed' = crossed
  BY CallAbout DEF Table!LoadOrStore, Did
<1>2. CASE email[e] # None
  <2>1. Table!Returns(c) /\ email' = email
    BY <1>1, <1>2 DEF Table!LoadOrStore
  <2>2. Table!TypeOK' /\ CallsTyped'
    BY <1>1, <2>1, CallReturns DEF TableInv, Table!TypeOK, Table!PCs, TablePCs
  <2>3. e \notin crossed => Agree(e)'
    BY <1>1, <2>1 DEF Agree
  <2> QED
    BY <1>1, <2>1, <2>2, <2>3, CallReturns, OwnEmailOnly
<1>3. CASE email[e] = None
  <2>1. /\ email' = [email EXCEPT ![e] = u]
        /\ Table!Goto(c, "store", u) /\ "store" \in TablePCs
    BY <1>1, <1>3 DEF Table!LoadOrStore, TablePCs
  <2>2. /\ call'[c].pc = "store" /\ call'[c].user = u /\ call'[c].about = e
        /\ \A d \in Service \ {c} : call'[d] = call[d]
        /\ call' \in [Service -> [pc : TablePCs, about : Table!Emails \cup {None},
                                  user : Users \cup {None}]]
    BY <1>1, <2>1, CallMoves
  <2>3. /\ email'[e] = u /\ \A f \in Table!Emails \ {e} : email'[f] = email[f]
        /\ email' \in [Table!Emails -> Users \cup {None}]
    BY <1>1, <2>1 DEF TableInv, Table!TypeOK
  <2>4. Table!TypeOK'
    BY <1>1, <2>2, <2>3 DEF TableInv, Table!TypeOK, Table!PCs, TablePCs
  <2>5. CallsTyped'
    BY <1>1, <2>2 DEF TableInv, CallsTyped, TablePCs
  <2>6. e \notin crossed => Did(call[c].pc, e, call[c].user)'
    BY <1>1, <1>3, <2>2, <2>3 DEF Did, Agree, NoId, Table!CallsAssumption
  <2>7. call'[c] # Table!Quiet
    BY <2>2 DEF Table!Quiet
  <2> QED
    BY <1>1, <2>2, <2>3, <2>4, <2>5, <2>6, <2>7, OwnEmailOnly
<1> QED
  BY <1>2, <1>3

\* Store: the user of the email is now under its UUID as well.
LEMMA StoreKeeps ==
    ASSUME TableInv, Table!CallsAssumption, NEW c \in Service, Table!Store(c)
    PROVE  TableInv'
<1>1. PICK e \in Table!Emails, u \in Users :
         /\ e = call[c].about /\ u = call[c].user /\ u.email = e
         /\ e \notin crossed => email[e] = u /\ NoId(e)
         /\ users' = [users EXCEPT ![u.id] = u] /\ Table!Returns(c)
         /\ email' = email /\ calls' = calls /\ crossed' = crossed
  BY CallAbout DEF Table!Store, Table!Stored, Did
<1>2. \A v \in Users : users'[v.id] = IF v = u THEN u ELSE users[v.id]
  BY <1>1 DEF TableInv, Table!TypeOK, Table!UUIDs, Table!CallsAssumption
<1>3. users' \in [Table!UUIDs -> Users \cup {None}]
  BY <1>1 DEF TableInv, Table!TypeOK
<1>4. \A i \in Table!UUIDs : users'[i] # None => users'[i].id = i
  BY <1>1 DEF TableInv, Table!TypeOK
<1>5. Table!TypeOK' /\ CallsTyped'
  BY <1>1, <1>3, <1>4, CallReturns DEF TableInv, Table!TypeOK, Table!PCs, TablePCs
<1>6. e \notin crossed => Agree(e)'
  BY <1>1, <1>2 DEF Agree, NoId
<1> QED
  BY <1>1, <1>2, <1>5, <1>6, CallReturns, OwnEmailOnly

\* Load: an email with no user is left alone; otherwise the maps still agree.
LEMMA LoadKeeps ==
    ASSUME TableInv, Table!CallsAssumption, NEW c \in Service, Table!Load(c)
    PROVE  TableInv'
<1>1. PICK e \in Table!Emails :
         /\ e = call[c].about /\ call[c].pc = "load"
         /\ e \notin crossed => Agree(e)
         /\ email' = email /\ users' = users /\ calls' = calls
         /\ crossed' = crossed
  BY CallAbout DEF Table!Load, Did
<1>2. e \notin crossed => Agree(e)'
  BY <1>1 DEF Agree
<1>3. CASE email[e] = None
  <2>1. Table!Returns(c)
    BY <1>1, <1>3 DEF Table!Load
  <2>2. Table!TypeOK' /\ CallsTyped'
    BY <1>1, <2>1, CallReturns DEF TableInv, Table!TypeOK, Table!PCs, TablePCs
  <2> QED
    BY <1>1, <1>2, <2>1, <2>2, CallReturns, OwnEmailOnly
<1>4. CASE email[e] # None
  <2>1. PICK u \in Users : u = email[e] /\ u.email = e
    BY <1>4 DEF TableInv, Table!TypeOK
  <2>2. Table!Goto(c, "deleteEmail", u) /\ "deleteEmail" \in TablePCs
    BY <1>1, <1>4, <2>1 DEF Table!Load, TablePCs
  <2>3. /\ call'[c].pc = "deleteEmail" /\ call'[c].user = u /\ call'[c].about = e
        /\ \A d \in Service \ {c} : call'[d] = call[d]
        /\ call' \in [Service -> [pc : TablePCs, about : Table!Emails \cup {None},
                                  user : Users \cup {None}]]
    BY <1>1, <2>1, <2>2, CallMoves
  <2>4. Table!TypeOK'
    BY <1>1, <2>3 DEF TableInv, Table!TypeOK, Table!PCs, TablePCs
  <2>5. CallsTyped'
    BY <2>1, <2>3 DEF TableInv, CallsTyped, TablePCs
  <2>6. e \notin crossed => Did(call[c].pc, e, call[c].user)'
    BY <1>1, <1>2, <2>1, <2>3 DEF Did
  <2>7. call'[c] # Table!Quiet
    BY <2>3 DEF Table!Quiet
  <2> QED
    BY <1>1, <2>3, <2>4, <2>5, <2>6, <2>7, OwnEmailOnly
<1> QED
  BY <1>3, <1>4

\* DeleteEmail: of the email's users only the one to be deleted is left under
\* its UUID.
LEMMA DeleteEmailKeeps ==
    ASSUME TableInv, Table!CallsAssumption, NEW c \in Service,
           Table!DeleteEmail(c)
    PROVE  TableInv'
<1>1. PICK e \in Table!Emails, u \in Users :
         /\ e = call[c].about /\ u = call[c].user /\ u.email = e
         /\ e \notin crossed => Agree(e) /\ email[e] = u
         /\ email' = [email EXCEPT ![e] = None] /\ users' = users
         /\ Table!Goto(c, "deleteUser", u) /\ "deleteUser" \in TablePCs
         /\ calls' = calls /\ crossed' = crossed
  BY CallAbout DEF Table!DeleteEmail, Did, TablePCs
<1>2. /\ call'[c].pc = "deleteUser" /\ call'[c].user = u /\ call'[c].about = e
      /\ \A d \in Service \ {c} : call'[d] = call[d]
      /\ call' \in [Service -> [pc : TablePCs, about : Table!Emails \cup {None},
                                user : Users \cup {None}]]
  BY <1>1, CallMoves
<1>3. /\ email'[e] = None /\ \A f \in Table!Emails \ {e} : email'[f] = email[f]
      /\ email' \in [Table!Emails -> Users \cup {None}]
  BY <1>1 DEF TableInv, Table!TypeOK
<1>4. Table!TypeOK'
  BY <1>1, <1>2, <1>3 DEF TableInv, Table!TypeOK, Table!PCs, TablePCs
<1>5. CallsTyped'
  BY <1>1, <1>2 DEF TableInv, CallsTyped, TablePCs
<1>6. e \notin crossed => Did(call[c].pc, e, call[c].user)'
  BY <1>1, <1>2, <1>3 DEF Did, Agree
<1>7. call'[c] # Table!Quiet
  BY <1>2 DEF Table!Quiet
<1> QED
  BY <1>1, <1>2, <1>3, <1>4, <1>5, <1>6, <1>7, OwnEmailOnly

\* DeleteUser: now no user of the email is in either map.
LEMMA DeleteUserKeeps ==
    ASSUME TableInv, Table!CallsAssumption, NEW c \in Service, Table!DeleteUser(c)
    PROVE  TableInv'
<1>1. PICK e \in Table!Emails, u \in Users :
         /\ e = call[c].about /\ u = call[c].user /\ u.email = e
         /\ e \notin crossed =>
               /\ email[e] = None
               /\ \A v \in Users : v.email = e /\ users[v.id] = v => v = u
         /\ users' = [users EXCEPT ![u.id] = None] /\ Table!Returns(c)
         /\ email' = email /\ calls' = calls /\ crossed' = crossed
  BY CallAbout DEF Table!DeleteUser, Table!DeletedId, Did
<1>2. \A v \in Users : users'[v.id] = IF v = u THEN None ELSE users[v.id]
  BY <1>1 DEF TableInv, Table!TypeOK, Table!UUIDs, Table!CallsAssumption
<1>3. /\ users' \in [Table!UUIDs -> Users \cup {None}]
      /\ \A i \in Table!UUIDs : users'[i] # None => users'[i].id = i
  BY <1>1 DEF TableInv, Table!TypeOK
<1>4. Table!TypeOK' /\ CallsTyped'
  BY <1>1, <1>3, CallReturns DEF TableInv, Table!TypeOK, Table!PCs, TablePCs
<1>5. e \notin crossed => Agree(e)'
  BY <1>1, <1>2 DEF Agree, Table!CallsAssumption
<1> QED
  BY <1>1, <1>2, <1>4, <1>5, CallReturns, OwnEmailOnly

\* Both maps start empty.
LEMMA TableInit ==
    ASSUME Table!Init, Table!CallsAssumption
    PROVE  TableInv
<1>1. \A c \in Service : call[c] = Table!Quiet
  BY DEF Table!Init
<1>2. Table!Quiet \in [pc : TablePCs, about : Table!Emails \cup {None},
                       user : Users \cup {None}] /\ Table!Quiet.about = None
  BY DEF Table!Quiet, TablePCs
<1>3. Table!TypeOK
  BY <1>2 DEF Table!Init, Table!TypeOK, Table!PCs, TablePCs, Table!CallsAssumption
<1>4. \A e \in Table!Emails : Table!About(e) = {} /\ Agree(e)
  BY <1>1, <1>2 DEF Table!Init, Table!About, Agree, Table!Emails, Table!UUIDs,
                    Table!CallsAssumption
<1>5. CallsTyped /\ OneCaller /\ RestAgrees /\ CallersDid
  BY <1>1, <1>2, <1>4 DEF CallsTyped, OneCaller, RestAgrees, CallersDid,
                          Table!CallsAssumption
<1> QED
  BY <1>3, <1>5 DEF TableInv

\* Every step on the user table keeps the invariant.
LEMMA TableStep ==
    ASSUME TableInv, Table!CallsAssumption, [Table!Next]_(Table!vars)
    PROVE  TableInv'
<1>1. ASSUME NEW c \in Service, NEW u \in Users, Table!Add(c, u)
      PROVE  TableInv'
  <2>1. u.email \in Table!Emails
    BY DEF Table!Emails
  <2> QED
    BY <1>1, <2>1, BeginsKeeps DEF Table!Add
<1>2. ASSUME NEW c \in Service, NEW e \in Table!Emails, Table!Del(c, e)
      PROVE  TableInv'
  BY <1>2, BeginsKeeps DEF Table!Del
<1>3. CASE UNCHANGED Table!vars
  BY <1>3 DEF Table!vars, TableInv, Table!TypeOK, CallsTyped, OneCaller,
              RestAgrees, CallersDid, Table!About, Did, Agree, NoId
<1> QED
  BY <1>1, <1>2, <1>3, LoadOrStoreKeeps, StoreKeeps, LoadKeeps, DeleteEmailKeeps,
     DeleteUserKeeps DEF Table!Next

\* The maps by email and by UUID agree about every email that no calls
\* overlapped on, whatever calls about other emails do at the same time: a user
\* that was added is accepted, and one that was removed is not.
THEOREM UserMapsAgree ==
    ASSUME Table!CallsAssumption
    PROVE  Table!Spec => [](Table!TypeOK /\ Table!MapsAgree /\ MapsAgree)
<1>1. Table!Init => TableInv
  BY TableInit
<1>2. TableInv /\ [Table!Next]_(Table!vars) => TableInv'
  BY TableStep
<1>3. TableInv => Table!TypeOK /\ Table!MapsAgree /\ MapsAgree
  <2>1. \A u \in Users : u.email \in Table!Emails
    BY DEF Table!Emails
  <2> QED
    BY <2>1 DEF TableInv, RestAgrees, Agree, Table!MapsAgree, MapsAgree
<1> QED
  BY <1>1, <1>2, <1>3, PTL DEF Table!Spec

-----------------------------------------------------------------------------
(* DnsNameServer, instantiated as Dns *)

Requests == [id : Dns!Ids, q : Queries, f : Dns!Fams, edns : BOOLEAN]
Records == [kind : Answers, expired : BOOLEAN, about : Dns!Domains \X Dns!Fams]
Results == Answers \cup {"ips", "empty", "nxdomain", "notFound", "timeout", None}
QueryPCs == {"new", "send", "find", "wait", "over"}
WaiterPCs == {"off", "four", "six", "done"}

\* Types of the name server's tables.
DnsTyped ==
    /\ ips \in [Dns!Domains -> [Dns!Fams -> Records \cup {None}]]
    /\ pending \in [Dns!Ids -> Requests \cup {None}]
    /\ sent \subseteq Requests
    /\ qry \in [Queries -> [pc : QueryPCs, todo : SUBSET Dns!Fams,
                            result : Results]]
    /\ waiter \in [Queries -> WaiterPCs]
    /\ buffer \in [Queries -> [Dns!Fams -> BOOLEAN]]

\* A query that has asked is subscribed, and asks for its own families.
Asking ==
    \A q \in Queries :
        qry[q].pc \in {"send", "find", "wait"} => Dns!Subscribed(q)

\* Who asked: requests come from queries that began, for families they want.
AskedFor ==
    /\ \A m \in sent : qry[m.q].pc # "new" /\ m.f \in Families[m.q]
    /\ \A q \in Queries, f \in Dns!Fams :
          <<q, f>> \in answered => qry[q].pc # "new"

\* An answer is in the channel until the goroutine has passed its family; it
\* waits for IPv4 first, so an IPv6 answer stays while it does.
AnswerKept ==
    \A q \in Queries : qry[q].pc # "over" =>
        /\ waiter[q] = "four" /\ <<q, 4>> \in answered => buffer[q][4]
        /\ waiter[q] \in {"four", "six"} /\ <<q, 6>> \in answered => buffer[q][6]

DnsInv == Dns!TypeOK /\ DnsTyped /\ Asking /\ AskedFor /\ AnswerKept

\* What the cache yields for a query.
LEMMA FindType ==
    ASSUME DnsTyped, Dns!DnsAssumption, NEW q \in Queries
    PROVE  Dns!Find(q) \in Results
<1>1. Domain[q] \in Dns!Domains /\ Families[q] \subseteq Dns!Fams
  BY DEF Dns!Domains, Dns!Fams, Dns!DnsAssumption
<1>2. \A f \in Families[q] : Dns!getIPs(ips[Domain[q]][f]) \in Results
  <2> SUFFICES ASSUME NEW f \in Families[q]
               PROVE  Dns!getIPs(ips[Domain[q]][f]) \in Results
    OBVIOUS
  <2>1. ips[Domain[q]][f] \in Records \cup {None}
    BY <1>1 DEF DnsTyped
  <2> QED
    BY <2>1 DEF Dns!getIPs, Records, Results
<1>3. Dns!Find(q) \in {"ips", "empty"} \cup {Dns!getIPs(ips[Domain[q]][f]) : f \in Families[q]}
  BY DEF Dns!Find
<1> QED
  BY <1>2, <1>3 DEF Results

\* A step of one query leaves the others as they are.
LEMMA QryBecomes ==
    ASSUME DnsTyped, NEW q \in Queries, NEW new,
           qry' = [qry EXCEPT ![q] = new],
           new \in [pc : QueryPCs, todo : SUBSET Dns!Fams, result : Results]
    PROVE  /\ qry' \in [Queries -> [pc : QueryPCs, todo : SUBSET Dns!Fams,
                                     result : Results]]
           /\ qry'[q] = new
           /\ \A p \in Queries \ {q} : qry'[p] = qry[p]
<1> DEFINE T == [pc : QueryPCs, todo : SUBSET Dns!Fams, result : Results]
<1>1. qry \in [Queries -> T] /\ new \in T
  BY DEF DnsTyped
<1> HIDE DEF T
<1>2. /\ qry' \in [Queries -> T] /\ qry'[q] = new
      /\ \A p \in Queries \ {q} : qry'[p] = qry[p]
  BY <1>1
<1> QED
  BY <1>2 DEF T

\* QueryIP: a query that subscribes has no answers from before.
LEMMA QueryIPKeeps ==
    ASSUME DnsInv, Dns!DnsAssumption, NEW q \in Queries, Dns!QueryIP(q)
    PROVE  DnsInv'
<1> USE DEF DnsInv
<1>1. /\ qry[q].pc = "new"
      /\ UNCHANGED <<ips, pending, reqID, sent, buffer, answered>>
  BY DEF Dns!QueryIP
<1>2. PICK x \in Results :
         \/ /\ qry' = [qry EXCEPT ![q].pc = "over", ![q].result = x]
            /\ UNCHANGED waiter
         \/ /\ qry' = [qry EXCEPT ![q].pc = "send", ![q].todo = Families[q]]
            /\ waiter' = [waiter EXCEPT ![q] = Dns!FirstWait(q)]
  BY FindType DEF Dns!QueryIP, Results
<1>3. Families[q] \subseteq Dns!Fams
  BY DEF Dns!DnsAssumption, Dns!Fams
<1>4. /\ qry' \in [Queries -> [pc : QueryPCs, todo : SUBSET Dns!Fams,
                               result : Results]]
      /\ qry'[q].pc \in {"over", "send"}
      /\ qry'[q].todo \subseteq Families[q]
      /\ \A p \in Queries \ {q} : qry'[p] = qry[p]
  <2>1. CASE qry' = [qry EXCEPT ![q].pc = "over", ![q].result = x]
    <3>1. qry[q].todo \subseteq Families[q]
      BY DEF Dns!TypeOK
    <3>2. PICK new : new = [qry[q] EXCEPT !.pc = "over", !.result = x]
      OBVIOUS
    <3>3. /\ new \in [pc : QueryPCs, todo : SUBSET Dns!Fams, result : Results]
          /\ new.pc = "over" /\ new.todo = qry[q].todo
      BY <3>2 DEF DnsTyped, QueryPCs
    <3>4. qry' = [qry EXCEPT ![q] = new]
      BY <2>1, <3>2
    <3> QED
      BY <3>1, <3>3, <3>4, QryBecomes
  <2>2. CASE qry' = [qry EXCEPT ![q].pc = "send", ![q].todo = Families[q]]
    <3>1. PICK new : new = [qry[q] EXCEPT !.pc = "send", !.todo = Families[q]]
      OBVIOUS
    <3>2. /\ new \in [pc : QueryPCs, todo : SUBSET Dns!Fams, result : Results]
          /\ new.pc = "send" /\ new.todo = Families[q]
      BY <1>3, <3>1 DEF DnsTyped, QueryPCs
    <3>3. qry' = [qry EXCEPT ![q] = new]
      BY <2>2, <3>1
    <3> QED
      BY <3>2, <3>3, QryBecomes
  <2> QED
    BY <1>2, <2>1, <2>2
<1>5. /\ waiter' \in [Queries -> WaiterPCs]
      /\ qry'[q].pc = "send" => waiter'[q] # "off"
      /\ \A p \in Queries \ {q} : waiter'[p] = waiter[p]
  <2>1. Dns!FirstWait(q) \in {"four", "six"}
    BY DEF Dns!FirstWait
  <2>2. waiter \in [Queries -> WaiterPCs] /\ q \in Queries
    BY DEF DnsTyped
  <2>3. CASE UNCHANGED waiter /\ qry'[q].pc = "over"
    BY <2>2, <2>3
  <2>4. CASE waiter' = [waiter EXCEPT ![q] = Dns!FirstWait(q)]
    BY <2>1, <2>2, <2>4 DEF WaiterPCs
  <2>5. qry' = [qry EXCEPT ![q].pc = "over", ![q].result = x]
        => qry'[q].pc = "over"
    BY DEF DnsTyped
  <2> QED
    BY <1>2, <2>3, <2>4, <2>5
<1>6. Dns!TypeOK' /\ DnsTyped'
  BY <1>1, <1>4, <1>5 DEF Dns!TypeOK, DnsTyped, WaiterPCs, QueryPCs
<1>7. Asking' /\ AskedFor'
  <2>1. Asking'
    BY <1>4, <1>5 DEF Asking, Dns!Subscribed
  <2>2. \A p \in Queries : qry[p].pc # "new" => qry'[p].pc # "new"
    BY <1>4
  <2>3. AskedFor'
    BY <1>1, <2>2 DEF AskedFor, DnsTyped, Requests
  <2> QED
    BY <2>1, <2>3
<1>8. AnswerKept'
  <2>1. <<q, 4>> \notin answered /\ <<q, 6>> \notin answered
    BY <1>1 DEF AskedFor, Dns!Fams
  <2> QED
    BY <1>1, <1>4, <1>5, <2>1 DEF AnswerKept
<1> QED
  BY <1>6, <1>7, <1>8

\* FindAgain and Woken move the query alone, and never back to its beginning.
LEMMA QueryGoesOn ==
    ASSUME DnsInv, Dns!DnsAssumption, NEW q \in Queries,
           Dns!FindAgain(q) \/ Dns!Woken(q)
    PROVE  DnsInv'
<1> USE DEF DnsInv
<1>1. /\ qry[q].pc \in {"find", "wait"}
      /\ UNCHANGED <<ips, pending, reqID, sent, waiter, buffer, answered>>
  BY DEF Dns!FindAgain, Dns!Woken
<1>2. PICK x \in Results, pc \in {"over", "wait", "find"} :
         \/ qry' = [qry EXCEPT ![q].pc = pc, ![q].result = x]
         \/ qry' = [qry EXCEPT ![q].pc = pc]
  BY FindType DEF Dns!FindAgain, Dns!Woken, Results
<1>3. /\ qry' \in [Queries -> [pc : QueryPCs, todo : SUBSET Dns!Fams,
                               result : Results]]
      /\ qry'[q].pc \in {"over", "wait", "find"} /\ qry'[q].todo = qry[q].todo
      /\ \A p \in Queries \ {q} : qry'[p] = qry[p]
  <2>1. CASE qry' = [qry EXCEPT ![q].pc = pc, ![q].result = x]
    <3>1. PICK new : new = [qry[q] EXCEPT !.pc = pc, !.result = x]
      OBVIOUS
    <3>2. /\ new \in [pc : QueryPCs, todo : SUBSET Dns!Fams, result : Results]
          /\ new.pc = pc /\ new.todo = qry[q].todo
      BY <3>1 DEF DnsTyped, QueryPCs
    <3>3. qry' = [qry EXCEPT ![q] = new]
      BY <2>1, <3>1
    <3> QED
      BY <3>2, <3>3, QryBecomes
  <2>2. CASE qry' = [qry EXCEPT ![q].pc = pc]
    <3>1. PICK new : new = [qry[q] EXCEPT !.pc = pc]
      OBVIOUS
    <3>2. /\ new \in [pc : QueryPCs, todo : SUBSET Dns!Fams, result : Results]
          /\ new.pc = pc /\ new.todo = qry[q].todo
      BY <3>1 DEF DnsTyped, QueryPCs
    <3>3. qry' = [qry EXCEPT ![q] = new]
      BY <2>2, <3>1
    <3> QED
      BY <3>2, <3>3, QryBecomes
  <2> QED
    BY <1>2, <2>1, <2>2
<1>4. Dns!TypeOK' /\ DnsTyped'
  BY <1>1, <1>3 DEF Dns!TypeOK, DnsTyped, QueryPCs
<1>5. Asking' /\ AskedFor'
  BY <1>1, <1>3 DEF Asking, AskedFor, Dns!Subscribed, DnsTyped, Requests
<1>6. AnswerKept'
  BY <1>1, <1>3 DEF AnswerKept
<1> QED
  BY <1>4, <1>5, <1>6

\* A number below the id space is its own remainder.
LEMMA IdType ==
    ASSUME Dns!DnsAssumption, Dns!TypeOK
    PROVE  /\ Dns!newReqID \in Dns!Ids /\ Dns!newReqID \in Nat
           /\ reqID < IdSpace => Dns!newReqID = reqID
  BY DEF Dns!DnsAssumption, Dns!TypeOK, Dns!newReqID, Dns!Ids

\* sendQuery: the request is for a family the query wants.
LEMMA SendQueryKeeps ==
    ASSUME DnsInv, Dns!DnsAssumption, NEW q \in Queries, Dns!sendQuery(q)
    PROVE  DnsInv'
<1> USE DEF DnsInv
<1>1. PICK f \in qry[q].todo :
         /\ Dns!addPendingRequest(Dns!Request(q, f, FALSE))
         /\ qry' = [qry EXCEPT ![q].todo = @ \ {f},
                      ![q].pc = IF @ = "send" /\ qry[q].todo = {f}
                                THEN "find" ELSE "send"]
  BY DEF Dns!sendQuery
<1>2. /\ qry[q].pc = "send" /\ UNCHANGED <<ips, waiter, buffer, answered>>
  BY DEF Dns!sendQuery
<1> DEFINE r == Dns!Request(q, f, FALSE)
<1>3. f \in Families[q] /\ f \in Dns!Fams
  BY DEF Dns!TypeOK, DnsTyped
<1>4. r \in Requests /\ r.q = q /\ r.f = f /\ r.id = Dns!newReqID
  BY <1>3, IdType DEF Dns!Request, Requests
<1> HIDE DEF r
<1>5. /\ reqID < MaxReqs /\ reqID' = reqID + 1
      /\ pending' = [pending EXCEPT ![r.id] = r] /\ sent' = sent \cup {r}
  BY <1>1 DEF r, Dns!addPendingRequest, Dns!PendingUnder
<1>6. /\ qry' \in [Queries -> [pc : QueryPCs, todo : SUBSET Dns!Fams,
                               result : Results]]
      /\ qry'[q].pc \in {"find", "send"} /\ qry'[q].todo \subseteq qry[q].todo
      /\ \A p \in Queries \ {q} : qry'[p] = qry[p]
  <2>1. PICK pc \in {"find", "send"} :
           qry' = [qry EXCEPT ![q] = [qry[q] EXCEPT !.todo = qry[q].todo \ {f},
                                                    !.pc = pc]]
    BY <1>1 DEF DnsTyped
  <2>2. PICK new : new = [qry[q] EXCEPT !.todo = qry[q].todo \ {f}, !.pc = pc]
    OBVIOUS
  <2>3. /\ new \in [pc : QueryPCs, todo : SUBSET Dns!Fams, result : Results]
        /\ new.pc = pc /\ new.todo = qry[q].todo \ {f}
    BY <2>2 DEF DnsTyped, QueryPCs
  <2>4. qry' = [qry EXCEPT ![q] = new]
    BY <2>1, <2>2
  <2> QED
    BY <2>3, <2>4, QryBecomes
<1>7. /\ pending' \in [Dns!Ids -> Requests \cup {None}]
      /\ \A i \in Dns!Ids : pending'[i] # None =>
            pending'[i] \in sent' /\ pending'[i].id = i
  BY <1>4, <1>5, IdType DEF DnsTyped, Dns!TypeOK
<1>8. Dns!TypeOK' /\ DnsTyped'
  <2>1. reqID' \in 0 .. MaxReqs
    BY <1>5 DEF Dns!TypeOK, Dns!DnsAssumption
  <2>2. sent' \subseteq Requests
    BY <1>4, <1>5 DEF DnsTyped
  <2> QED
    BY <1>2, <1>6, <1>7, <2>1, <2>2 DEF Dns!TypeOK, DnsTyped, QueryPCs
<1>9. Asking'
  BY <1>2, <1>6 DEF Asking, Dns!Subscribed
<1>10. AskedFor'
  <2>1. \A p \in Queries : qry[p].pc # "new" => qry'[p].pc # "new"
    BY <1>2, <1>6
  <2>2. qry'[q].pc # "new"
    BY <1>6
  <2> QED
    BY <1>2, <1>3, <1>4, <1>5, <2>1, <2>2 DEF AskedFor, DnsTyped, Requests
<1>11. AnswerKept'
  BY <1>2, <1>6 DEF AnswerKept
<1> QED
  BY <1>8, <1>9, <1>10, <1>11

\* The goroutine passes a family when it has emptied its channel.
LEMMA WaiterKeeps ==
    ASSUME DnsInv, NEW q \in Queries, Dns!Waiter(q)
    PROVE  DnsInv'
<1> USE DEF DnsInv
<1>1. PICK f \in Dns!Fams, pc \in WaiterPCs :
         /\ buffer' = [buffer EXCEPT ![q][f] = FALSE]
         /\ waiter' = [waiter EXCEPT ![q] = pc]
         /\ \/ f = 4 /\ pc \in {"six", "done"} /\ waiter[q] = "four"
            \/ f = 6 /\ pc = "done" /\ waiter[q] = "six"
  BY DEF Dns!Waiter, Dns!AfterFour, Dns!Fams, WaiterPCs
<1>2. UNCHANGED <<ips, pending, reqID, sent, qry, answered>>
  BY DEF Dns!Waiter
<1>3. /\ buffer' \in [Queries -> [Dns!Fams -> BOOLEAN]]
      /\ \A g \in Dns!Fams \ {f} : buffer'[q][g] = buffer[q][g]
      /\ \A p \in Queries \ {q} : buffer'[p] = buffer[p]
  BY <1>1 DEF DnsTyped
<1>4. /\ waiter' \in [Queries -> WaiterPCs] /\ waiter'[q] = pc
      /\ \A p \in Queries \ {q} : waiter'[p] = waiter[p]
  BY <1>1 DEF DnsTyped
<1>5. Dns!TypeOK' /\ DnsTyped'
  BY <1>2, <1>3, <1>4 DEF Dns!TypeOK, DnsTyped, WaiterPCs
<1>6. Asking' /\ AskedFor'
  BY <1>1, <1>2, <1>4 DEF Asking, AskedFor, Dns!Subscribed
<1>7. AnswerKept'
  BY <1>1, <1>2, <1>3, <1>4 DEF AnswerKept, Dns!Fams
<1> QED
  BY <1>5, <1>6, <1>7

\* updateIP tells every query that waits for the family of the domain, and
\* takes no answer out of a channel.
LEMMA PublishedKept ==
    ASSUME DnsTyped, NEW r \in Requests,
           buffer' = [q \in Queries |-> IF q \in Dns!Published(Domain[r.q], r.f)
                        THEN [buffer[q] EXCEPT ![r.f] = TRUE] ELSE buffer[q]]
    PROVE  /\ buffer' \in [Queries -> [Dns!Fams -> BOOLEAN]]
           /\ \A q \in Queries, f \in Dns!Fams : buffer[q][f] => buffer'[q][f]
           /\ r.q \in Dns!Published(Domain[r.q], r.f) => buffer'[r.q][r.f]
  BY DEF DnsTyped, Requests

\* HandleResponse: the query of the answered request, if it has not returned,
\* finds the answer in its channel; a truncated answer asks again.
LEMMA HandleResponseKeeps ==
    ASSUME DnsInv, Dns!DnsAssumption, NEW m \in sent, Dns!HandleResponse(m)
    PROVE  DnsInv'
<1> USE DEF DnsInv
<1>1. PICK r : r = pending[m.id] /\ r # None
  BY DEF Dns!HandleResponse
<1>2. UNCHANGED <<qry, waiter>>
  BY DEF Dns!HandleResponse
<1>3. m.id \in Dns!Ids /\ m \in Requests
  BY DEF DnsTyped, Requests
<1>4. r \in Requests /\ r \in sent /\ r.id = m.id
  BY <1>1, <1>3 DEF DnsTyped, Dns!TypeOK
<1>5. r.q \in Queries /\ r.f \in Dns!Fams
  BY <1>4 DEF Requests
<1>6. CASE /\ ~r.edns /\ reqID < MaxReqs /\ reqID' = reqID + 1
           /\ LET again == [r EXCEPT !.id = Dns!newReqID, !.edns = TRUE]
              IN  /\ pending' = [[pending EXCEPT ![m.id] = None]
                                    EXCEPT ![Dns!PendingUnder(again)] = again]
                  /\ sent' = sent \cup {again}
           /\ UNCHANGED <<ips, buffer, answered>>
  <2> DEFINE again == [r EXCEPT !.id = Dns!newReqID, !.edns = TRUE]
  <2>1. /\ again \in Requests /\ again.id = Dns!newReqID
        /\ again.q = r.q /\ again.f = r.f
    BY <1>4, IdType DEF Requests
  <2> HIDE DEF again
  <2>2. /\ pending' = [[pending EXCEPT ![m.id] = None] EXCEPT ![again.id] = again]
        /\ sent' = sent \cup {again}
    BY <1>6 DEF again, Dns!PendingUnder
  <2>3. /\ pending' \in [Dns!Ids -> Requests \cup {None}]
        /\ \A i \in Dns!Ids : pending'[i] # None =>
              pending'[i] \in sent' /\ pending'[i].id = i
    BY <1>3, <2>1, <2>2, IdType DEF DnsTyped, Dns!TypeOK
  <2>4. Dns!TypeOK' /\ DnsTyped'
    <3>1. reqID' \in 0 .. MaxReqs
      BY <1>6 DEF Dns!TypeOK, Dns!DnsAssumption
    <3>2. sent' \subseteq Requests
      BY <2>1, <2>2 DEF DnsTyped
    <3> QED
      BY <1>2, <1>6, <2>3, <3>1, <3>2 DEF Dns!TypeOK, DnsTyped
  <2>5. Asking' /\ AnswerKept'
    BY <1>2, <1>6 DEF Asking, AnswerKept, Dns!Subscribed
  <2>6. AskedFor'
    BY <1>2, <1>4, <1>6, <2>1, <2>2 DEF AskedFor
  <2> QED
    BY <2>4, <2>5, <2>6
<1>7. ASSUME NEW kind \in Answers,
             pending' = [pending EXCEPT ![m.id] = None],
             Dns!updateIP(r, [kind |-> kind, expired |-> FALSE,
                              about |-> <<Domain[m.q], m.f>>]),
             answered' = answered \cup {<<r.q, r.f>>},
             UNCHANGED <<reqID, sent>>
      PROVE  DnsInv'
  <2> DEFINE rec == [kind |-> kind, expired |-> FALSE,
                     about |-> <<Domain[m.q], m.f>>]
  <2>1. rec \in Records
    BY <1>3 DEF Records, Requests, Dns!Domains
  <2>2. ips' = ips \/ ips' = [ips EXCEPT ![Domain[r.q]][r.f] = rec]
    BY <1>7 DEF Dns!updateIP
  <2>3. ips' \in [Dns!Domains -> [Dns!Fams -> Records \cup {None}]]
    <3>1. Domain[r.q] \in Dns!Domains
      BY <1>5 DEF Dns!Domains
    <3> HIDE DEF rec
    <3>2. [ips[Domain[r.q]] EXCEPT ![r.f] = rec] \in [Dns!Fams -> Records \cup {None}]
      BY <1>5, <2>1, <3>1 DEF DnsTyped
    <3>3. CASE ips' = ips
      BY <3>3 DEF DnsTyped
    <3>4. CASE ips' = [ips EXCEPT ![Domain[r.q]][r.f] = rec]
      BY <3>1, <3>2, <3>4 DEF DnsTyped
    <3> QED
      BY <2>2, <3>3, <3>4
  <2>4. /\ buffer' \in [Queries -> [Dns!Fams -> BOOLEAN]]
        /\ \A q \in Queries, f \in Dns!Fams : buffer[q][f] => buffer'[q][f]
        /\ r.q \in Dns!Published(Domain[r.q], r.f) => buffer'[r.q][r.f]
    BY <1>4, <1>7, PublishedKept DEF Dns!updateIP
  <2>5. /\ pending' \in [Dns!Ids -> Requests \cup {None}]
        /\ \A i \in Dns!Ids : pending'[i] # None =>
              pending'[i] \in sent' /\ pending'[i].id = i
    BY <1>3, <1>7 DEF DnsTyped, Dns!TypeOK
  <2>6. Dns!TypeOK' /\ DnsTyped'
    BY <1>2, <1>5, <1>7, <2>3, <2>4, <2>5 DEF Dns!TypeOK, DnsTyped
  <2>7. qry[r.q].pc # "new" /\ r.f \in Families[r.q]
    BY <1>4 DEF AskedFor
  <2>8. Asking' /\ AskedFor'
    BY <1>2, <1>7, <2>7 DEF Asking, AskedFor, Dns!Subscribed
  <2>9. qry[r.q].pc # "over" => buffer'[r.q][r.f]
    <3>1. qry[r.q].pc # "over" => Dns!Subscribed(r.q)
      BY <1>5, <2>7 DEF Asking, DnsTyped, QueryPCs
    <3> QED
      BY <1>5, <2>4, <2>7, <3>1 DEF Dns!Published
  <2>10. AnswerKept'
    <3>1. \A q \in Queries, f \in Dns!Fams :
             <<q, f>> \in answered' => \/ <<q, f>> \in answered
                                       \/ q = r.q /\ f = r.f
      BY <1>7
    <3>2. 4 \in Dns!Fams /\ 6 \in Dns!Fams
      BY DEF Dns!Fams
    <3> QED
      BY <1>2, <2>4, <2>9, <3>1, <3>2 DEF AnswerKept
  <2> QED
    BY <2>6, <2>8, <2>10
<1> QED
  BY <1>1, <1>6, <1>7 DEF Dns!HandleResponse

\* Cleanup and the passing of time take records and requests away.
LEMMA CleanupKeeps ==
    ASSUME DnsInv,
           \/ Dns!Cleanup
           \/ \E d \in Dns!Domains, f \in Dns!Fams : Dns!Expire(d, f)
    PROVE  DnsInv'
<1> USE DEF DnsInv
<1>1. UNCHANGED <<reqID, sent, qry, waiter, buffer, answered>>
  BY DEF Dns!Cleanup, Dns!Expire
<1>2. /\ pending' \in [Dns!Ids -> Requests \cup {None}]
      /\ \A i \in Dns!Ids : pending'[i] # None => pending'[i] = pending[i]
  BY DEF Dns!Cleanup, Dns!Expire, DnsTyped
<1>3. ips' \in [Dns!Domains -> [Dns!Fams -> Records \cup {None}]]
  <2>1. CASE Dns!Cleanup
    BY <2>1 DEF Dns!Cleanup, DnsTyped
  <2>2. ASSUME NEW d \in Dns!Domains, NEW f \in Dns!Fams, Dns!Expire(d, f)
        PROVE  ips' \in [Dns!Domains -> [Dns!Fams -> Records \cup {None}]]
    <3>1. ips[d][f] \in Records
      BY <2>2 DEF Dns!Expire, DnsTyped
    <3>2. [ips[d][f] EXCEPT !.expired = TRUE] \in Records
      BY <3>1 DEF Records
    <3> QED
      BY <2>2, <3>2 DEF Dns!Expire, DnsTyped
  <2> QED
    BY <2>1, <2>2
<1>4. Dns!TypeOK' /\ DnsTyped'
  BY <1>1, <1>2, <1>3 DEF Dns!TypeOK, DnsTyped
<1>5. Asking' /\ AskedFor' /\ AnswerKept'
  BY <1>1 DEF Asking, AskedFor, AnswerKept, Dns!Subscribed
<1> QED
  BY <1>4, <1>5

\* The name server starts with nothing cached and nobody waiting.
LEMMA DnsInit ==
    ASSUME Dns!Init, Dns!DnsAssumption
    PROVE  DnsInv
<1>1. DnsTyped
  BY DEF Dns!Init, DnsTyped, QueryPCs, WaiterPCs, Results
<1>2. \A q \in Queries : qry[q].pc = "new" /\ qry[q].todo = {} /\ waiter[q] = "off"
  BY DEF Dns!Init
<1>3. Dns!TypeOK
  BY <1>2 DEF Dns!Init, Dns!TypeOK, Dns!DnsAssumption
<1>4. Asking /\ AskedFor /\ AnswerKept
  BY <1>2 DEF Dns!Init, Asking, AskedFor, AnswerKept
<1> QED
  BY <1>1, <1>3, <1>4 DEF DnsInv

\* Every step of the name server keeps the invariant.
LEMMA DnsStep ==
    ASSUME DnsInv, Dns!DnsAssumption, [Dns!Next]_(Dns!vars)
    PROVE  DnsInv'
<1>1. CASE UNCHANGED Dns!vars
  BY <1>1 DEF Dns!vars, DnsInv, Dns!TypeOK, DnsTyped, Asking, AskedFor, AnswerKept,
              Dns!Subscribed
<1> QED
  BY <1>1, QueryIPKeeps, SendQueryKeeps, QueryGoesOn, WaiterKeeps,
     HandleResponseKeeps, CleanupKeeps DEF Dns!Next

\* No lost wake-up: a query whose own request for a family was answered does not
\* wait for that family with an empty channel, for any number of queries,
\* repeated and late responses, and ids that wrap.
THEOREM DnsAnswersWake ==
    ASSUME Dns!DnsAssumption
    PROVE  Dns!Spec => [](Dns!TypeOK /\ Dns!AnswerWakes /\ AnswerWakes)
<1>1. Dns!Init => DnsInv
  BY DnsInit
<1>2. DnsInv /\ [Dns!Next]_(Dns!vars) => DnsInv'
  BY DnsStep
<1>3. DnsInv => Dns!TypeOK /\ Dns!AnswerWakes /\ AnswerWakes
  BY DEF DnsInv, AnswerKept, Dns!AnswerWakes, AnswerWakes
<1> QED
  BY <1>1, <1>2, <1>3, PTL DEF Dns!Spec

\* While the ids have not wrapped, an id names one question.
IdsNameQuestions ==
    /\ \A m \in sent : m.id < reqID
    /\ \A m, n \in sent : m.id = n.id => m.q = n.q /\ m.f = n.f

TruthInv == DnsInv /\ IdsNameQuestions /\ Dns!CacheTruth

\* A request with a fresh id leaves the others' ids alone.
LEMMA FreshId ==
    ASSUME DnsInv, IdsNameQuestions, Dns!DnsAssumption, MaxReqs <= IdSpace,
           NEW x \in Requests, x.id = Dns!newReqID, reqID < MaxReqs,
           reqID' = reqID + 1, sent' = sent \cup {x}
    PROVE  IdsNameQuestions'
<1>1. reqID \in Nat /\ MaxReqs \in Nat /\ IdSpace \in Nat
  BY DEF DnsInv, Dns!TypeOK, Dns!DnsAssumption
<1>2. x.id = reqID
  BY <1>1, IdType DEF DnsInv
<1>3. \A m \in sent : m.id \in Nat
  BY DEF DnsInv, DnsTyped, Requests, Dns!Ids, Dns!DnsAssumption
<1>4. \A m \in sent : m.id # x.id /\ m.id < reqID'
  BY <1>1, <1>2, <1>3 DEF IdsNameQuestions
<1>5. x.id < reqID'
  BY <1>1, <1>2
<1> QED
  BY <1>4, <1>5 DEF IdsNameQuestions

\* An answer is about the question of the request pending under its id.
LEMMA TruthStep ==
    ASSUME TruthInv, Dns!DnsAssumption, MaxReqs <= IdSpace, [Dns!Next]_(Dns!vars)
    PROVE  TruthInv'
<1> USE DEF TruthInv
<1>1. DnsInv' /\ DOMAIN ips = Dns!Domains /\ DOMAIN ips' = Dns!Domains
  BY DnsStep DEF DnsInv, DnsTyped
<1>2. CASE /\ UNCHANGED <<ips, reqID, sent>>
  BY <1>1, <1>2 DEF IdsNameQuestions, Dns!CacheTruth
<1>3. ASSUME NEW q \in Queries, Dns!sendQuery(q)
      PROVE  TruthInv'
  <2>1. PICK f \in qry[q].todo : Dns!addPendingRequest(Dns!Request(q, f, FALSE))
    BY <1>3 DEF Dns!sendQuery
  <2>2. f \in Dns!Fams
    BY DEF DnsInv, DnsTyped
  <2> DEFINE x == Dns!Request(q, f, FALSE)
  <2>3. x \in Requests /\ x.id = Dns!newReqID
    BY <2>2, IdType DEF DnsInv, Dns!Request, Requests
  <2> HIDE DEF x
  <2>4. reqID < MaxReqs /\ reqID' = reqID + 1 /\ sent' = sent \cup {x}
    BY <2>1 DEF x, Dns!addPendingRequest
  <2>5. IdsNameQuestions'
    BY <2>3, <2>4, FreshId
  <2>6. Dns!CacheTruth'
    BY <1>1, <1>3 DEF Dns!sendQuery, Dns!CacheTruth
  <2> QED
    BY <1>1, <2>5, <2>6
<1>4. ASSUME NEW m \in sent, Dns!HandleResponse(m)
      PROVE  TruthInv'
  <2>1. PICK r : r = pending[m.id] /\ r # None
    BY <1>4 DEF Dns!HandleResponse
  <2>2. /\ m \in Requests /\ r \in Requests /\ r \in sent /\ r.id = m.id
        /\ r.q \in Queries /\ r.f \in Dns!Fams
    BY <2>1 DEF DnsInv, DnsTyped, Dns!TypeOK, Requests
  <2>3. r.q = m.q /\ r.f = m.f
    BY <2>2 DEF IdsNameQuestions
  <2>4. CASE /\ reqID < MaxReqs /\ reqID' = reqID + 1
             /\ sent' = sent \cup {[r EXCEPT !.id = Dns!newReqID, !.edns = TRUE]}
             /\ UNCHANGED ips
    <3> DEFINE x == [r EXCEPT !.id = Dns!newReqID, !.edns = TRUE]
    <3>1. x \in Requests /\ x.id = Dns!newReqID
      BY <2>2, IdType DEF DnsInv, Requests
    <3> HIDE DEF x
    <3>2. IdsNameQuestions'
      BY <2>4, <3>1, FreshId DEF x
    <3> QED
      BY <1>1, <2>4, <3>2 DEF Dns!CacheTruth
  <2>5. ASSUME NEW kind \in Answers,
               Dns!updateIP(r, [kind |-> kind, expired |-> FALSE,
                                about |-> <<Domain[m.q], m.f>>]),
               UNCHANGED <<reqID, sent>>
        PROVE  TruthInv'
    <3> DEFINE rec == [kind |-> kind, expired |-> FALSE,
                       about |-> <<Domain[m.q], m.f>>]
    <3>1. ips' = ips \/ ips' = [ips EXCEPT ![Domain[r.q]][r.f] = rec]
      BY <2>5 DEF Dns!updateIP
    <3>2. rec.about = <<Domain[r.q], r.f>>
      BY <2>3
    <3> HIDE DEF rec
    <3>3. ips \in [Dns!Domains -> [Dns!Fams -> Records \cup {None}]]
      BY DEF DnsInv, DnsTyped
    <3>4. \A d \in Dns!Domains, f \in Dns!Fams :
             \/ ips'[d][f] = ips[d][f]
             \/ d = Domain[r.q] /\ f = r.f /\ ips'[d][f] = rec
      BY <3>1, <3>3
    <3>5. Dns!CacheTruth'
      BY <1>1, <3>2, <3>4 DEF Dns!CacheTruth
    <3> QED
      BY <1>1, <2>5, <3>5 DEF IdsNameQuestions
  <2> QED
    BY <1>4, <2>1, <2>4, <2>5 DEF Dns!HandleResponse, Dns!PendingUnder
<1>5. CASE Dns!Cleanup
  <2>1. \A d \in Dns!Domains, f \in Dns!Fams :
           ips'[d][f] = None \/ ips'[d][f] = ips[d][f]
    BY <1>5 DEF Dns!Cleanup
  <2> QED
    BY <1>1, <1>5, <2>1 DEF Dns!Cleanup, Dns!CacheTruth, IdsNameQuestions
<1>6. ASSUME NEW d \in Dns!Domains, NEW f \in Dns!Fams, Dns!Expire(d, f)
      PROVE  TruthInv'
  <2>1. ips[d][f] # None /\ ips[d][f] \in Records
    BY <1>6 DEF Dns!Expire, DnsInv, DnsTyped
  <2> DEFINE rec == [ips[d][f] EXCEPT !.expired = TRUE]
  <2>2. rec.about = ips[d][f].about
    BY <2>1 DEF Records
  <2>3. ips' = [ips EXCEPT ![d] = [ips[d] EXCEPT ![f] = rec]]
    BY <1>6 DEF Dns!Expire
  <2> HIDE DEF rec
  <2>4. \A e \in Dns!Domains, g \in Dns!Fams :
           ips'[e][g] = IF e = d /\ g = f THEN rec ELSE ips[e][g]
    BY <2>3 DEF DnsInv, DnsTyped
  <2>5. Dns!CacheTruth'
    BY <1>1, <2>1, <2>2, <2>4 DEF Dns!CacheTruth
  <2> QED
    BY <1>1, <1>6, <2>5 DEF Dns!Expire, IdsNameQuestions
<1>7. ASSUME NEW q \in Queries, \/ Dns!QueryIP(q) \/ Dns!FindAgain(q)
                                \/ Dns!Woken(q) \/ Dns!Waiter(q)
      PROVE  UNCHANGED <<ips, reqID, sent>>
  BY <1>7 DEF Dns!QueryIP, Dns!FindAgain, Dns!Woken, Dns!Waiter
<1>8. CASE UNCHANGED Dns!vars
  BY <1>2, <1>8 DEF Dns!vars
<1> QED
  BY <1>2, <1>3, <1>4, <1>5, <1>6, <1>7, <1>8 DEF Dns!Next

\* The cache tells the truth as long as the ids have not wrapped: a record is an
\* answer to the question it is stored under, although responses are repeated
\* and late, truncated ones are asked for again, and only the id says which
\* request a response belongs to.
THEOREM DnsCacheTruth ==
    ASSUME Dns!DnsAssumption, MaxReqs <= IdSpace
    PROVE  Dns!Spec => [](Dns!CacheTruth /\ CacheTruth)
<1>1. Dns!Init => TruthInv
  <2> SUFFICES ASSUME Dns!Init PROVE TruthInv
    OBVIOUS
  <2>1. DnsInv
    BY DnsInit
  <2>2. IdsNameQuestions /\ Dns!CacheTruth
    BY DEF Dns!Init, IdsNameQuestions, Dns!CacheTruth
  <2> QED
    BY <2>1, <2>2 DEF TruthInv
<1>2. TruthInv /\ [Dns!Next]_(Dns!vars) => TruthInv'
  BY TruthStep
<1>3. TruthInv => Dns!CacheTruth /\ CacheTruth
  BY DEF TruthInv, CacheTruth
<1> QED
  BY <1>1, <1>2, <1>3, PTL DEF Dns!Spec
-----------------------------------------------------------------------------
(* FakeDns, instantiated as Fake *)

\* The most recently used domains are the list, in its order; fewer only when
\* no more were ever used.
FrontIsRecent ==
    /\ Len(list) <= Len(recent)
    /\ Len(list) = lruSize \/ Len(list) = Len(recent)
    /\ \A i \in 1 .. Len(list) : list[i] = recent[i]

KeysOnce(s) ==
    \A i, j \in 1 .. Len(s) : s[i].key = s[j].key => i = j

\* Every element of the list is where both indexes say, and they say nothing
\* of any other.
Indexed ==
    \A i \in 1 .. Len(list) : /\ keyToElement[list[i].key] = list[i]
                              /\ valueToElement[list[i].value] = list[i]
KeysListed ==
    \A d \in LookedUp : keyToElement[d] # None =>
        /\ keyToElement[d].key = d
        /\ \E i \in 1 .. Len(list) : list[i] = keyToElement[d]
ValuesListed ==
    \A a \in Fake!Pool : valueToElement[a] # None =>
        /\ valueToElement[a].value = a
        /\ \E i \in 1 .. Len(list) : list[i] = valueToElement[a]

FakeTypes == /\ Fake!TypeOK /\ recent \in Seq(Fake!Element)
             /\ lruSize \in Nat /\ lruSize < Fake!PoolSize

FakeInv == /\ FakeTypes /\ FrontIsRecent /\ KeysOnce(recent)
           /\ Indexed /\ KeysListed /\ ValuesListed

\* The elements of a sequence that follows one, or another sequence.
LEMMA ConsAt ==
    ASSUME NEW S, NEW e \in S, NEW s \in Seq(S)
    PROVE  /\ <<e>> \o s \in Seq(S) /\ Len(<<e>> \o s) = Len(s) + 1
           /\ (<<e>> \o s)[1] = e
           /\ \A i \in 2 .. Len(s) + 1 : (<<e>> \o s)[i] = s[i - 1]
  OBVIOUS

\* The elements of a sequence after another.
LEMMA ConcatAt ==
    ASSUME NEW S, NEW s \in Seq(S), NEW t \in Seq(S)
    PROVE  /\ s \o t \in Seq(S) /\ Len(s \o t) = Len(s) + Len(t)
           /\ \A i \in 1 .. Len(s) + Len(t) :
                 (s \o t)[i] = IF i <= Len(s) THEN s[i] ELSE t[i - Len(s)]
  OBVIOUS

\* The sequence without its element at k.
LEMMA RemoveAtIs ==
    ASSUME NEW S, NEW s \in Seq(S), NEW k \in 1 .. Len(s)
    PROVE  /\ Fake!RemoveAt(s, k) \in Seq(S)
           /\ Len(Fake!RemoveAt(s, k)) = Len(s) - 1
           /\ \A i \in 1 .. Len(s) - 1 :
                 Fake!RemoveAt(s, k)[i] = IF i < k THEN s[i] ELSE s[i + 1]
<1>1. /\ SubSeq(s, 1, k - 1) \in Seq(S) /\ Len(SubSeq(s, 1, k - 1)) = k - 1
      /\ \A i \in 1 .. k - 1 : SubSeq(s, 1, k - 1)[i] = s[i]
  OBVIOUS
<1>2. /\ SubSeq(s, k + 1, Len(s)) \in Seq(S)
      /\ Len(SubSeq(s, k + 1, Len(s))) = Len(s) - k
      /\ \A i \in 1 .. Len(s) - k : SubSeq(s, k + 1, Len(s))[i] = s[k + i]
  OBVIOUS
<1>3. PICK u \in Seq(S) : /\ u = SubSeq(s, 1, k - 1) /\ Len(u) = k - 1
                          /\ \A i \in 1 .. k - 1 : u[i] = s[i]
  BY <1>1, Zenon
<1>4. PICK v \in Seq(S) : /\ v = SubSeq(s, k + 1, Len(s)) /\ Len(v) = Len(s) - k
                          /\ \A i \in 1 .. Len(s) - k : v[i] = s[k + i]
  BY <1>2, Zenon
<1>5. Len(u) + Len(v) = Len(s) - 1
  <2>1. Len(u) = k - 1 /\ Len(v) = Len(s) - k /\ Len(s) \in Nat
    BY <1>3, <1>4, LenProperties
  <2> QED
    BY <2>1
<1>6. /\ u \o v \in Seq(S) /\ Len(u \o v) = Len(u) + Len(v)
      /\ \A i \in 1 .. Len(u) + Len(v) :
            (u \o v)[i] = IF i <= Len(u) THEN u[i] ELSE v[i - Len(u)]
  BY ConcatAt
<1>7. Fake!RemoveAt(s, k) = u \o v
  BY <1>3, <1>4, Zenon DEF Fake!RemoveAt
<1>8. ASSUME NEW i \in 1 .. Len(s) - 1
      PROVE  Fake!RemoveAt(s, k)[i] = IF i < k THEN s[i] ELSE s[i + 1]
  <2>1. CASE i < k
    BY <1>3, <1>5, <1>6, <1>7, <2>1
  <2>2. CASE ~(i < k)
    <3>1. i - (k - 1) \in 1 .. Len(s) - k /\ k + (i - (k - 1)) = i + 1
      BY <2>2
    <3>2. v[i - (k - 1)] = s[i + 1]
      BY <1>4, <3>1
    <3> QED
      BY <1>3, <1>5, <1>6, <1>7, <2>2, <3>2
  <2> QED
    BY <2>1, <2>2
<1> QED
  BY <1>5, <1>6, <1>7, <1>8

\* An element that is in the sequence goes to its front, those before it move
\* back by one.
LEMMA ToFrontMoves ==
    ASSUME NEW s \in Seq(Fake!Element), NEW e \in Fake!Element, KeysOnce(s),
           NEW k \in 1 .. Len(s), s[k].key = e.key
    PROVE  /\ Fake!ToFront(s, e) \in Seq(Fake!Element)
           /\ Len(Fake!ToFront(s, e)) = Len(s)
           /\ Fake!ToFront(s, e)[1] = e
           /\ \A i \in 2 .. Len(s) :
                 Fake!ToFront(s, e)[i] = IF i <= k THEN s[i - 1] ELSE s[i]
<1>1. Fake!Holds(s, e.key) /\ Fake!Place(s, e.key) = k
  BY DEF KeysOnce, Fake!Holds, Fake!Place
<1>2. PICK w : w = Fake!RemoveAt(s, k)
  OBVIOUS
<1>3. Fake!ToFront(s, e) = <<e>> \o w
  BY <1>1, <1>2 DEF Fake!ToFront, Fake!Without
<1>4. /\ w \in Seq(Fake!Element) /\ Len(w) = Len(s) - 1
      /\ \A i \in 1 .. Len(s) - 1 : w[i] = IF i < k THEN s[i] ELSE s[i + 1]
  BY <1>2, RemoveAtIs
<1>5. /\ <<e>> \o w \in Seq(Fake!Element) /\ Len(<<e>> \o w) = Len(w) + 1
      /\ (<<e>> \o w)[1] = e
      /\ \A i \in 2 .. Len(w) + 1 : (<<e>> \o w)[i] = w[i - 1]
  BY <1>4, ConsAt
<1>6. ASSUME NEW i \in 2 .. Len(s)
      PROVE  w[i - 1] = IF i <= k THEN s[i - 1] ELSE s[i]
  <2>1. i - 1 \in 1 .. Len(s) - 1 /\ (i - 1) + 1 = i
    OBVIOUS
  <2> QED
    BY <1>4, <2>1
<1>7. Len(w) + 1 = Len(s)
  BY <1>4
<1> QED
  BY <1>3, <1>5, <1>6, <1>7

\* One that is not there is put before the rest.
LEMMA ToFrontPuts ==
    ASSUME NEW s \in Seq(Fake!Element), NEW e \in Fake!Element,
           \A k \in 1 .. Len(s) : s[k].key # e.key
    PROVE  /\ Fake!ToFront(s, e) = <<e>> \o s
           /\ <<e>> \o s \in Seq(Fake!Element) /\ Len(<<e>> \o s) = Len(s) + 1
           /\ (<<e>> \o s)[1] = e
           /\ \A i \in 2 .. Len(s) + 1 : (<<e>> \o s)[i] = s[i - 1]
<1>1. Fake!ToFront(s, e) = <<e>> \o s
  BY Zenon DEF Fake!ToFront, Fake!Without, Fake!Holds
<1> QED
  BY <1>1, ConsAt

\* Wherever the domain is, or if it is nowhere: it is first then, no domain is
\* there twice, and the others keep their order.
LEMMA ToFrontOnce ==
    ASSUME NEW s \in Seq(Fake!Element), NEW e \in Fake!Element, KeysOnce(s)
    PROVE  /\ Fake!ToFront(s, e) \in Seq(Fake!Element)
           /\ KeysOnce(Fake!ToFront(s, e))
<1>1. CASE \E k \in 1 .. Len(s) : s[k].key = e.key
  <2>1. PICK k \in 1 .. Len(s) : s[k].key = e.key
    BY <1>1
  <2>2. \A i \in 1 .. Len(s) : s[i].key = e.key => i = k
    BY <2>1 DEF KeysOnce
  <2> DEFINE f == Fake!ToFront(s, e)
  <2>3. /\ f \in Seq(Fake!Element) /\ Len(f) = Len(s) /\ f[1] = e
        /\ \A i \in 2 .. Len(s) : f[i] = IF i <= k THEN s[i - 1] ELSE s[i]
    BY <2>1, ToFrontMoves
  <2> HIDE DEF f
  <2>4. ASSUME NEW i \in 2 .. Len(s)
        PROVE  f[i].key # e.key
    <3>1. CASE i <= k
      <4>1. i - 1 \in 1 .. Len(s) /\ i - 1 # k
        BY <3>1
      <4> QED
        BY <2>2, <2>3, <3>1, <4>1
    <3>2. CASE i > k
      <4>1. i \in 1 .. Len(s) /\ i # k /\ ~(i <= k)
        BY <3>2
      <4> QED
        BY <2>2, <2>3, <4>1
    <3> QED
      BY <3>1, <3>2
  <2>5. \A i, j \in 2 .. Len(s) : f[i].key = f[j].key => i = j
    <3> SUFFICES ASSUME NEW i \in 2 .. Len(s), NEW j \in 2 .. Len(s),
                        f[i].key = f[j].key
                 PROVE  i = j
      OBVIOUS
    <3> DEFINE from(n) == IF n <= k THEN n - 1 ELSE n
    <3>1. /\ from(i) \in 1 .. Len(s) /\ f[i] = s[from(i)]
          /\ from(j) \in 1 .. Len(s) /\ f[j] = s[from(j)]
      BY <2>3
    <3>2. from(i) = from(j)
      BY <3>1 DEF KeysOnce
    <3> QED
      BY <3>2
  <2>6. KeysOnce(f)
    BY <2>3, <2>4, <2>5 DEF KeysOnce
  <2> QED
    BY <2>3, <2>6 DEF f
<1>2. CASE ~\E k \in 1 .. Len(s) : s[k].key = e.key
  <2> DEFINE f == Fake!ToFront(s, e)
  <2>1. /\ f \in Seq(Fake!Element) /\ Len(f) = Len(s) + 1 /\ f[1] = e
        /\ \A i \in 2 .. Len(s) + 1 : f[i] = s[i - 1]
    <3>1. \A k \in 1 .. Len(s) : s[k].key # e.key
      BY <1>2
    <3>2. /\ Fake!ToFront(s, e) = <<e>> \o s
          /\ <<e>> \o s \in Seq(Fake!Element) /\ Len(<<e>> \o s) = Len(s) + 1
          /\ (<<e>> \o s)[1] = e
          /\ \A i \in 2 .. Len(s) + 1 : (<<e>> \o s)[i] = s[i - 1]
      BY <3>1, ToFrontPuts
    <3> QED
      BY <3>2, Zenon
  <2> HIDE DEF f
  <2>2. \A i \in 2 .. Len(s) + 1 : f[i].key # e.key
    <3> SUFFICES ASSUME NEW i \in 2 .. Len(s) + 1
                 PROVE  f[i].key # e.key
      OBVIOUS
    <3>1. f[i] = s[i - 1]
      BY <2>1
    <3>2. i - 1 \in 1 .. Len(s)
      BY LenProperties
    <3> QED
      BY <1>2, <3>1, <3>2
  <2>3. \A i, j \in 2 .. Len(s) + 1 : f[i].key = f[j].key => i = j
    <3> SUFFICES ASSUME NEW i \in 2 .. Len(s) + 1, NEW j \in 2 .. Len(s) + 1,
                        f[i].key = f[j].key
                 PROVE  i = j
      OBVIOUS
    <3>1. i - 1 \in 1 .. Len(s) /\ j - 1 \in 1 .. Len(s)
      OBVIOUS
    <3>2. i - 1 = j - 1
      BY <2>1, <3>1 DEF KeysOnce
    <3> QED
      BY <3>2
  <2>4. KeysOnce(f)
    BY <2>1, <2>2, <2>3 DEF KeysOnce
  <2> QED
    BY <2>1, <2>4 DEF f
<1> QED
  BY <1>1, <1>2

\* The list has no two elements of one domain.
LEMMA ListKeysOnce ==
    ASSUME FakeInv
    PROVE  KeysOnce(list)
<1>1. ASSUME NEW i \in 1 .. Len(list), NEW j \in 1 .. Len(list),
             list[i].key = list[j].key
      PROVE  i = j
  <2>1. /\ i \in 1 .. Len(recent) /\ j \in 1 .. Len(recent)
        /\ recent[i] = list[i] /\ recent[j] = list[j]
    BY DEF FakeInv, FakeTypes, FrontIsRecent, Fake!TypeOK
  <2> QED
    BY <1>1, <2>1 DEF FakeInv, KeysOnce
<1> QED
  BY <1>1 DEF KeysOnce

\* Both indexes hold what they held, and so does the list, in another order.
LEMMA SameElements ==
    ASSUME FakeInv, UNCHANGED <<lruSize, keyToElement, valueToElement>>,
           list' \in Seq(Fake!Element), Len(list') = Len(list),
           \A i \in 1 .. Len(list) : \E j \in 1 .. Len(list) : list'[i] = list[j],
           \A j \in 1 .. Len(list) : \E i \in 1 .. Len(list) : list'[i] = list[j]
    PROVE  Fake!TypeOK' /\ Indexed' /\ KeysListed' /\ ValuesListed'
<1>1. Fake!TypeOK'
  BY DEF FakeInv, FakeTypes, Fake!TypeOK
<1>2. ASSUME NEW i \in 1 .. Len(list')
      PROVE  /\ keyToElement'[list'[i].key] = list'[i]
             /\ valueToElement'[list'[i].value] = list'[i]
  <2>1. PICK j \in 1 .. Len(list) : list'[i] = list[j]
    BY <1>2
  <2>2. /\ keyToElement[list[j].key] = list[j]
        /\ valueToElement[list[j].value] = list[j]
    BY DEF FakeInv, Indexed
  <2>3. keyToElement' = keyToElement /\ valueToElement' = valueToElement
    OBVIOUS
  <2> QED
    BY <2>1, <2>2, <2>3, Zenon
<1>3. ASSUME NEW d \in LookedUp, keyToElement'[d] # None
      PROVE  /\ keyToElement'[d].key = d
             /\ \E i \in 1 .. Len(list') : list'[i] = keyToElement'[d]
  <2>1. PICK j \in 1 .. Len(list) : /\ list[j] = keyToElement'[d]
                                    /\ keyToElement'[d].key = d
    BY <1>3 DEF FakeInv, KeysListed
  <2> QED
    BY <2>1
<1>4. ASSUME NEW a \in Fake!Pool, valueToElement'[a] # None
      PROVE  /\ valueToElement'[a].value = a
             /\ \E i \in 1 .. Len(list') : list'[i] = valueToElement'[a]
  <2>1. PICK j \in 1 .. Len(list) : /\ list[j] = valueToElement'[a]
                                    /\ valueToElement'[a].value = a
    BY <1>4 DEF FakeInv, ValuesListed
  <2> QED
    BY <2>1
<1> QED
  BY <1>1, <1>2, <1>3, <1>4 DEF Indexed, KeysListed, ValuesListed, Fake!Pool,
                               Fake!PoolSize

\* An element of the list is used again: it is the first of both now.
LEMMA UsedAgain ==
    ASSUME FakeInv, NEW k \in 1 .. Len(list),
           list' = Fake!ToFront(list, list[k]),
           recent' = Fake!ToFront(recent, list[k]),
           UNCHANGED <<lruSize, keyToElement, valueToElement>>
    PROVE  FakeInv'
<1>1. /\ list \in Seq(Fake!Element) /\ recent \in Seq(Fake!Element)
      /\ list[k] \in Fake!Element /\ k \in 1 .. Len(recent) /\ recent[k] = list[k]
      /\ Len(list) \in Nat /\ Len(recent) \in Nat /\ Len(list) <= Len(recent)
  BY DEF FakeInv, FakeTypes, Fake!TypeOK, FrontIsRecent
<1>2. /\ list' \in Seq(Fake!Element) /\ Len(list') = Len(list) /\ list'[1] = list[k]
      /\ \A i \in 2 .. Len(list) :
            list'[i] = IF i <= k THEN list[i - 1] ELSE list[i]
  BY <1>1, ListKeysOnce, ToFrontMoves
<1>3. /\ recent' \in Seq(Fake!Element) /\ Len(recent') = Len(recent)
      /\ recent'[1] = list[k]
      /\ \A i \in 2 .. Len(recent) :
            recent'[i] = IF i <= k THEN recent[i - 1] ELSE recent[i]
  <2>1. KeysOnce(recent) /\ recent[k].key = list[k].key
    BY <1>1 DEF FakeInv
  <2> QED
    BY <1>1, <2>1, ToFrontMoves
<1>4. KeysOnce(recent)'
  BY <1>1, ToFrontOnce DEF FakeInv, KeysOnce
<1>5. ASSUME NEW i \in 1 .. Len(list)
      PROVE  list'[i] = recent'[i] /\ \E j \in 1 .. Len(list) : list'[i] = list[j]
  <2>1. CASE i = 1
    BY <1>2, <1>3, <2>1
  <2>2. CASE i # 1
    <3>1. /\ i \in 2 .. Len(list) /\ i \in 2 .. Len(recent)
          /\ i - 1 \in 1 .. Len(list)
      BY <1>1, <2>2
    <3>2. list[i] = recent[i] /\ list[i - 1] = recent[i - 1]
      BY <3>1 DEF FakeInv, FrontIsRecent
    <3> QED
      BY <1>2, <1>3, <3>1, <3>2
  <2> QED
    BY <2>1, <2>2
<1>6. ASSUME NEW j \in 1 .. Len(list)
      PROVE  \E i \in 1 .. Len(list) : list'[i] = list[j]
  <2>1. CASE j = k
    BY <1>1, <1>2, <2>1
  <2>2. CASE j < k
    <3>1. j + 1 \in 2 .. Len(list) /\ j + 1 <= k /\ (j + 1) - 1 = j
      BY <2>2
    <3>2. list'[j + 1] = list[(j + 1) - 1]
      BY <1>2, <3>1
    <3>3. j + 1 \in 1 .. Len(list)
      BY <3>1
    <3> QED
      BY <3>1, <3>2, <3>3, Zenon
  <2>3. CASE j > k
    BY <1>2, <2>3
  <2> QED
    BY <2>1, <2>2, <2>3
<1>7. Fake!TypeOK' /\ Indexed' /\ KeysListed' /\ ValuesListed'
  BY <1>2, <1>5, <1>6, SameElements
<1>8. FrontIsRecent'
  BY <1>1, <1>2, <1>3, <1>5 DEF FakeInv, FrontIsRecent
<1> QED
  BY <1>3, <1>4, <1>7, <1>8 DEF FakeInv, FakeTypes

\* A domain that is new to the list comes first among those used.
LEMMA NewRecent ==
    ASSUME FakeInv, NEW e \in Fake!Element,
           \A i \in 1 .. Len(list) : list[i].key # e.key,
           recent' = Fake!ToFront(recent, e)
    PROVE  /\ recent' \in Seq(Fake!Element) /\ KeysOnce(recent)'
           /\ recent'[1] = e
           /\ \A i \in 1 .. Len(list) : i < lruSize => recent'[i + 1] = list[i]
           /\ Len(list) < lruSize => Len(recent') = Len(list) + 1
           /\ Len(recent') >= Len(list) /\ Len(recent') > 0
<1>1. /\ list \in Seq(Fake!Element) /\ recent \in Seq(Fake!Element)
      /\ Len(list) \in Nat /\ Len(recent) \in Nat /\ Len(list) <= Len(recent)
      /\ lruSize \in Nat
      /\ Len(list) = lruSize \/ Len(list) = Len(recent)
      /\ \A i \in 1 .. Len(list) : list[i] = recent[i]
  BY DEF FakeInv, FakeTypes, Fake!TypeOK, FrontIsRecent
<1>2. recent' \in Seq(Fake!Element) /\ KeysOnce(recent)'
  BY <1>1, ToFrontOnce DEF FakeInv, KeysOnce
<1>3. CASE \E k \in 1 .. Len(recent) : recent[k].key = e.key
  <2>1. PICK k \in 1 .. Len(recent) : recent[k].key = e.key
    BY <1>3
  <2>2. k > Len(list) /\ Len(list) # Len(recent)
    BY <1>1, <2>1
  <2>3. /\ Len(recent') = Len(recent) /\ recent'[1] = e
        /\ \A i \in 2 .. Len(recent) :
              recent'[i] = IF i <= k THEN recent[i - 1] ELSE recent[i]
    BY <1>1, <2>1, ToFrontMoves DEF FakeInv
  <2>4. ASSUME NEW i \in 1 .. Len(list)
        PROVE  recent'[i + 1] = list[i]
    <3>1. i + 1 \in 2 .. Len(recent) /\ i + 1 <= k /\ (i + 1) - 1 = i
      BY <1>1, <2>2
    <3> QED
      BY <1>1, <2>3, <3>1
  <2> QED
    BY <1>1, <1>2, <2>2, <2>3, <2>4
<1>4. CASE ~\E k \in 1 .. Len(recent) : recent[k].key = e.key
  <2>1. /\ Len(recent') = Len(recent) + 1 /\ recent'[1] = e
        /\ \A i \in 2 .. Len(recent) + 1 : recent'[i] = recent[i - 1]
    <3>1. \A k \in 1 .. Len(recent) : recent[k].key # e.key
      BY <1>4
    <3>2. recent' = <<e>> \o recent
      BY <1>1, <3>1, ToFrontPuts
    <3> QED
      BY <1>1, <3>2, ConsAt
  <2>2. ASSUME NEW i \in 1 .. Len(list)
        PROVE  recent'[i + 1] = list[i]
    <3>1. i + 1 \in 2 .. Len(recent) + 1 /\ (i + 1) - 1 = i
      BY <1>1
    <3> QED
      BY <1>1, <2>1, <3>1
  <2> QED
    BY <1>1, <1>2, <2>1, <2>2
<1> QED
  BY <1>3, <1>4

\* A lookup of a domain that has no address puts it, with a free one, before
\* the rest: no index holds either, and the list only after it.
LEMMA NewElement ==
    ASSUME FakeInv, Fake!PoolAssumption, NEW d \in LookedUp, NEW a \in Fake!Pool,
           keyToElement[d] = None, valueToElement[a] = None
    PROVE  /\ [key |-> d, value |-> a] \in Fake!Element
           /\ \A i \in 1 .. Len(list) : /\ list[i] \in Fake!Element
                                        /\ list[i].key # d /\ list[i].value # a
                                        /\ list[i].key \in LookedUp
                                        /\ list[i].value \in Fake!Pool
<1>1. list \in Seq(Fake!Element)
  BY DEF FakeInv, FakeTypes, Fake!TypeOK
<1>2. ASSUME NEW i \in 1 .. Len(list)
      PROVE  /\ list[i] \in Fake!Element /\ list[i] # None
             /\ keyToElement[list[i].key] = list[i]
             /\ valueToElement[list[i].value] = list[i]
  <2>1. list[i] \in Fake!Element
    BY <1>1
  <2> QED
    BY <2>1 DEF FakeInv, Indexed, Fake!PoolAssumption, Fake!Element, Fake!Pool
<1> QED
  BY <1>2 DEF Fake!Element

\* There is room: the list and the indexes gain the element.
LEMMA PutWithRoom ==
    ASSUME FakeInv, Fake!PoolAssumption, NEW d \in LookedUp, NEW a \in Fake!Pool,
           keyToElement[d] = None, valueToElement[a] = None,
           NEW e, e = [key |-> d, value |-> a],
           list' = <<e>> \o list, Len(list) < lruSize,
           keyToElement' = [keyToElement EXCEPT ![d] = e],
           valueToElement' = [valueToElement EXCEPT ![a] = e],
           recent' = Fake!ToFront(recent, e), lruSize' = lruSize
    PROVE  FakeInv'
<1>1. /\ list \in Seq(Fake!Element) /\ Len(list) \in Nat /\ lruSize \in Nat
      /\ lruSize < Fake!PoolSize /\ e \in Fake!Element
      /\ e.key = d /\ e.value = a
      /\ keyToElement \in [LookedUp -> Fake!Element \cup {None}]
      /\ valueToElement \in [Fake!Pool -> Fake!Element \cup {None}]
  BY NewElement DEF FakeInv, FakeTypes, Fake!TypeOK
<1>2. \A i \in 1 .. Len(list) : /\ list[i].key # d /\ list[i].value # a
                                /\ list[i].key \in LookedUp
                                /\ list[i].value \in Fake!Pool
  BY NewElement
<1>3. /\ list' \in Seq(Fake!Element) /\ Len(list') = Len(list) + 1 /\ list'[1] = e
      /\ \A i \in 2 .. Len(list) + 1 : list'[i] = list[i - 1]
  BY <1>1, ConsAt
<1>4. /\ recent' \in Seq(Fake!Element) /\ KeysOnce(recent)' /\ recent'[1] = e
      /\ \A i \in 1 .. Len(list) : recent'[i + 1] = list[i]
      /\ Len(recent') = Len(list) + 1
  BY <1>1, <1>2, NewRecent
<1>5. ASSUME NEW i \in 2 .. Len(list) + 1
      PROVE  /\ i - 1 \in 1 .. Len(list) /\ list'[i] = list[i - 1]
             /\ recent'[i] = list[i - 1]
  <2>1. i - 1 \in 1 .. Len(list) /\ (i - 1) + 1 = i
    BY <1>1
  <2> QED
    BY <1>3, <1>4, <2>1
<1>6. Fake!TypeOK'
  <2>1. /\ keyToElement' \in [LookedUp -> Fake!Element \cup {None}]
        /\ valueToElement' \in [Fake!Pool -> Fake!Element \cup {None}]
    BY <1>1
  <2> QED
    BY <1>1, <1>3, <2>1 DEF FakeInv, FakeTypes, Fake!TypeOK, Fake!Element, Fake!Pool,
                            Fake!PoolSize
<1>7. FrontIsRecent'
  <2>1. \A i \in 1 .. Len(list) + 1 : list'[i] = recent'[i]
    BY <1>3, <1>4, <1>5
  <2> QED
    BY <1>1, <1>3, <1>4, <2>1 DEF FrontIsRecent
<1>8. Indexed'
  <2>1. ASSUME NEW i \in 1 .. Len(list) + 1
        PROVE  /\ keyToElement'[list'[i].key] = list'[i]
               /\ valueToElement'[list'[i].value] = list'[i]
    <3>1. CASE i = 1
      BY <1>1, <1>3, <3>1
    <3>2. CASE i # 1
      <4>1. /\ i - 1 \in 1 .. Len(list) /\ list'[i] = list[i - 1]
        BY <1>5, <3>2
      <4>2. /\ keyToElement[list[i - 1].key] = list[i - 1]
            /\ valueToElement[list[i - 1].value] = list[i - 1]
        BY <4>1 DEF FakeInv, Indexed
      <4> QED
        BY <1>1, <1>2, <4>1, <4>2
    <3> QED
      BY <3>1, <3>2
  <2> QED
    BY <1>3, <2>1 DEF Indexed
<1>9. KeysListed'
  <2>1. ASSUME NEW c \in LookedUp, keyToElement'[c] # None
        PROVE  /\ keyToElement'[c].key = c
               /\ \E i \in 1 .. Len(list) + 1 : list'[i] = keyToElement'[c]
    <3>1. CASE c = d
      BY <1>1, <1>3, <3>1
    <3>2. CASE c # d
      <4>1. keyToElement'[c] = keyToElement[c]
        BY <1>1, <3>2
      <4>2. PICK j \in 1 .. Len(list) : /\ list[j] = keyToElement[c]
                                        /\ keyToElement[c].key = c
        BY <2>1, <4>1 DEF FakeInv, KeysListed
      <4>3. j + 1 \in 2 .. Len(list) + 1 /\ (j + 1) - 1 = j
        BY <1>1
      <4> QED
        BY <1>3, <4>1, <4>2, <4>3
    <3> QED
      BY <3>1, <3>2
  <2> QED
    BY <1>3, <2>1 DEF KeysListed
<1>10. ValuesListed'
  <2>1. ASSUME NEW b \in Fake!Pool, valueToElement'[b] # None
        PROVE  /\ valueToElement'[b].value = b
               /\ \E i \in 1 .. Len(list) + 1 : list'[i] = valueToElement'[b]
    <3>1. CASE b = a
      <4>1. valueToElement'[a] = e
        BY <1>1
      <4>2. 1 \in 1 .. Len(list) + 1
        BY <1>1
      <4> QED
        BY <1>1, <1>3, <3>1, <4>1, <4>2, Zenon
    <3>2. CASE b # a
      <4>1. valueToElement'[b] = valueToElement[b]
        BY <1>1, <3>2
      <4>2. PICK j \in 1 .. Len(list) : /\ list[j] = valueToElement[b]
                                        /\ valueToElement[b].value = b
        BY <2>1, <4>1 DEF FakeInv, ValuesListed
      <4>3. j + 1 \in 2 .. Len(list) + 1 /\ (j + 1) - 1 = j
        BY <1>1
      <4> QED
        BY <1>3, <4>1, <4>2, <4>3
    <3> QED
      BY <3>1, <3>2
  <2> QED
    BY <1>3, <2>1 DEF ValuesListed, Fake!Pool, Fake!PoolSize
<1> QED
  BY <1>1, <1>4, <1>6, <1>7, <1>8, <1>9, <1>10 DEF FakeInv, FakeTypes, Fake!Element,
     Fake!Pool, Fake!PoolSize

\* There is none: the element used longest ago leaves the list, and the indexes
\* forget it.
LEMMA PutWhenFull ==
    ASSUME FakeInv, Fake!PoolAssumption, NEW d \in LookedUp, NEW a \in Fake!Pool,
           keyToElement[d] = None, valueToElement[a] = None,
           NEW e, e = [key |-> d, value |-> a],
           Len(list) = lruSize, lruSize # 0,
           NEW back, back = list[Len(list)],
           list' = SubSeq(<<e>> \o list, 1, Len(list)),
           keyToElement' = [[keyToElement EXCEPT ![d] = e]
                               EXCEPT ![back.key] = None],
           valueToElement' = [[valueToElement EXCEPT ![a] = e]
                               EXCEPT ![back.value] = None],
           recent' = Fake!ToFront(recent, e), lruSize' = lruSize
    PROVE  FakeInv'
<1>1. /\ list \in Seq(Fake!Element) /\ Len(list) \in Nat /\ lruSize \in Nat
      /\ lruSize < Fake!PoolSize /\ e \in Fake!Element
      /\ e.key = d /\ e.value = a /\ Len(list) \in 1 .. Len(list)
      /\ keyToElement \in [LookedUp -> Fake!Element \cup {None}]
      /\ valueToElement \in [Fake!Pool -> Fake!Element \cup {None}]
  BY NewElement DEF FakeInv, FakeTypes, Fake!TypeOK
<1>2. \A i \in 1 .. Len(list) : /\ list[i].key # d /\ list[i].value # a
                                /\ list[i].key \in LookedUp
                                /\ list[i].value \in Fake!Pool
                                /\ keyToElement[list[i].key] = list[i]
                                /\ valueToElement[list[i].value] = list[i]
  BY NewElement DEF FakeInv, Indexed
<1>3. /\ list' \in Seq(Fake!Element) /\ Len(list') = Len(list) /\ list'[1] = e
      /\ \A i \in 2 .. Len(list) : list'[i] = list[i - 1]
  <2>1. PICK u : u = <<e>> \o list
    OBVIOUS
  <2>2. /\ u \in Seq(Fake!Element) /\ Len(u) = Len(list) + 1 /\ u[1] = e
        /\ \A i \in 2 .. Len(list) + 1 : u[i] = list[i - 1]
    BY <1>1, <2>1, ConsAt
  <2>3. list' = SubSeq(u, 1, Len(list))
    BY <2>1
  <2>4. /\ list' \in Seq(Fake!Element) /\ Len(list') = Len(list)
        /\ \A i \in 1 .. Len(list) : list'[i] = u[i]
    BY <1>1, <2>2, <2>3
  <2> QED
    BY <1>1, <2>2, <2>4
<1>4. /\ recent' \in Seq(Fake!Element) /\ KeysOnce(recent)' /\ recent'[1] = e
      /\ \A i \in 1 .. Len(list) : i < lruSize => recent'[i + 1] = list[i]
      /\ Len(recent') >= Len(list)
  BY <1>1, <1>2, NewRecent
<1>5. ASSUME NEW i \in 2 .. Len(list)
      PROVE  /\ i - 1 \in 1 .. Len(list) /\ i - 1 # Len(list)
             /\ list'[i] = list[i - 1] /\ recent'[i] = list[i - 1]
  <2>1. /\ i - 1 \in 1 .. Len(list) /\ (i - 1) + 1 = i /\ i - 1 # Len(list)
        /\ i - 1 < lruSize
    BY <1>1
  <2> QED
    BY <1>3, <1>4, <2>1
<1>6. \A i \in 1 .. Len(list) : i # Len(list) =>
         list[i].key # back.key /\ list[i].value # back.value
  <2>1. \A i \in 1 .. Len(list) : list[i] = back => i = Len(list)
    BY <1>1, ListKeysOnce DEF KeysOnce
  <2> QED
    BY <1>1, <1>2, <2>1
<1>7. /\ \A c \in LookedUp : keyToElement'[c] =
            IF c = back.key THEN None ELSE IF c = d THEN e ELSE keyToElement[c]
      /\ \A b \in Fake!Pool : valueToElement'[b] =
            IF b = back.value THEN None ELSE IF b = a THEN e ELSE valueToElement[b]
      /\ keyToElement' \in [LookedUp -> Fake!Element \cup {None}]
      /\ valueToElement' \in [Fake!Pool -> Fake!Element \cup {None}]
  BY <1>1
<1>8. back.key # d /\ back.value # a
  BY <1>1, <1>2
<1>9. Fake!TypeOK'
  BY <1>1, <1>3, <1>7 DEF FakeInv, FakeTypes, Fake!TypeOK, Fake!Element, Fake!Pool,
                          Fake!PoolSize
<1>10. FrontIsRecent'
  <2>1. \A i \in 1 .. Len(list) : list'[i] = recent'[i]
    BY <1>3, <1>4, <1>5
  <2> QED
    BY <1>1, <1>3, <1>4, <2>1 DEF FrontIsRecent
<1>11. Indexed'
  <2>1. ASSUME NEW i \in 1 .. Len(list)
        PROVE  /\ keyToElement'[list'[i].key] = list'[i]
               /\ valueToElement'[list'[i].value] = list'[i]
    <3>1. CASE i = 1
      BY <1>1, <1>3, <1>7, <1>8, <3>1
    <3>2. CASE i # 1
      <4>1. /\ i - 1 \in 1 .. Len(list) /\ i - 1 # Len(list)
            /\ list'[i] = list[i - 1]
        BY <1>5, <3>2
      <4>2. /\ list[i - 1].key \in LookedUp /\ list[i - 1].key # d
            /\ list[i - 1].key # back.key
            /\ list[i - 1].value \in Fake!Pool /\ list[i - 1].value # a
            /\ list[i - 1].value # back.value
            /\ keyToElement[list[i - 1].key] = list[i - 1]
            /\ valueToElement[list[i - 1].value] = list[i - 1]
        BY <1>2, <1>6, <4>1
      <4> QED
        <5>1. /\ keyToElement'[list[i - 1].key] = keyToElement[list[i - 1].key]
              /\ valueToElement'[list[i - 1].value]
                 = valueToElement[list[i - 1].value]
          BY <1>7, <4>2
        <5> QED
          BY <4>1, <4>2, <5>1
    <3> QED
      BY <3>1, <3>2
  <2> QED
    BY <1>3, <2>1 DEF Indexed
<1>12. ASSUME NEW j \in 1 .. Len(list), j # Len(list)
       PROVE  \E i \in 1 .. Len(list) : list'[i] = list[j]
  <2>1. j + 1 \in 2 .. Len(list) /\ (j + 1) - 1 = j /\ j + 1 \in 1 .. Len(list)
    BY <1>1, <1>12
  <2> QED
    BY <1>3, <2>1
<1>13. KeysListed'
  <2>1. ASSUME NEW c \in LookedUp, keyToElement'[c] # None
        PROVE  /\ keyToElement'[c].key = c
               /\ \E i \in 1 .. Len(list) : list'[i] = keyToElement'[c]
    <3>1. CASE c = d
      <4>1. keyToElement'[c] = e
        BY <1>7, <1>8, <3>1
      <4> QED
        BY <1>1, <1>3, <3>1, <4>1
    <3>2. CASE c # d
      <4>1. keyToElement'[c] = keyToElement[c] /\ c # back.key
        BY <1>7, <2>1, <3>2
      <4>2. PICK j \in 1 .. Len(list) : /\ list[j] = keyToElement[c]
                                        /\ keyToElement[c].key = c
        BY <2>1, <4>1 DEF FakeInv, KeysListed
      <4>3. j # Len(list)
        BY <4>1, <4>2
      <4> QED
        <5>1. j \in 1 .. Len(list) /\ j # Len(list)
          BY <4>2, <4>3
        <5>2. \E i \in 1 .. Len(list) : list'[i] = list[j]
          BY <1>12, <5>1
        <5> QED
          BY <4>1, <4>2, <5>2
    <3> QED
      BY <3>1, <3>2
  <2> QED
    BY <1>3, <2>1 DEF KeysListed
<1>14. ValuesListed'
  <2>1. ASSUME NEW b \in Fake!Pool, valueToElement'[b] # None
        PROVE  /\ valueToElement'[b].value = b
               /\ \E i \in 1 .. Len(list) : list'[i] = valueToElement'[b]
    <3>1. CASE b = a
      <4>1. valueToElement'[b] = e
        BY <1>7, <1>8, <3>1
      <4> QED
        BY <1>1, <1>3, <3>1, <4>1
    <3>2. CASE b # a
      <4>1. valueToElement'[b] = valueToElement[b] /\ b # back.value
        BY <1>7, <2>1, <3>2
      <4>2. PICK j \in 1 .. Len(list) : /\ list[j] = valueToElement[b]
                                        /\ valueToElement[b].value = b
        BY <2>1, <4>1 DEF FakeInv, ValuesListed
      <4>3. j # Len(list)
        BY <4>1, <4>2
      <4> QED
        <5>1. j \in 1 .. Len(list) /\ j # Len(list)
          BY <4>2, <4>3
        <5>2. \E i \in 1 .. Len(list) : list'[i] = list[j]
          BY <1>12, <5>1
        <5> QED
          BY <4>1, <4>2, <5>2
    <3> QED
      BY <3>1, <3>2
  <2> QED
    BY <1>3, <2>1 DEF ValuesListed, Fake!Pool, Fake!PoolSize
<1> QED
  BY <1>1, <1>4, <1>9, <1>10, <1>11, <1>13, <1>14 DEF FakeInv, FakeTypes,
     Fake!Element, Fake!Pool, Fake!PoolSize

\* A lookup uses the domain's element again, or puts a new one.
LEMMA LookupKeeps ==
    ASSUME FakeInv, Fake!PoolAssumption, NEW d \in LookedUp,
           Fake!GetFakeIPForDomain(d)
    PROVE  FakeInv'
<1>1. CASE keyToElement[d] # None
  <2>1. PICK k \in 1 .. Len(list) : list[k] = keyToElement[d]
    BY <1>1 DEF FakeInv, KeysListed
  <2>2. /\ list' = Fake!ToFront(list, list[k]) /\ recent' = Fake!ToFront(recent, list[k])
        /\ UNCHANGED <<lruSize, keyToElement, valueToElement>>
    BY <1>1, <2>1 DEF Fake!GetFakeIPForDomain, Fake!MoveToFront
  <2> QED
    BY <2>2, UsedAgain
<1>2. CASE keyToElement[d] = None
  <2>1. PICK a, e :
          /\ a \in Fake!Pool
          /\ e = [key |-> d, value |-> a] /\ valueToElement[a] = None
          /\ Fake!Put(e) /\ recent' = Fake!ToFront(recent, e)
          /\ lruSize # 0 /\ lruSize' = lruSize
    BY <1>2 DEF Fake!GetFakeIPForDomain, Fake!Free, Fake!Started
  <2>2. /\ list \in Seq(Fake!Element) /\ Len(list) \in Nat /\ lruSize \in Nat
        /\ Len(list) <= lruSize /\ e \in Fake!Element /\ e.key = d /\ e.value = a
    BY <1>2, <2>1, NewElement DEF FakeInv, FakeTypes, Fake!TypeOK
  <2>3. PICK front : front = <<e>> \o list
    OBVIOUS
  <2>4. Len(front) = Len(list) + 1
    BY <2>2, <2>3, ConsAt
  <2>5. CASE Fake!Overflows(front)
    <3>1. Len(list) = lruSize
      BY <2>2, <2>4, <2>5 DEF Fake!Overflows
    <3>2. PICK back : back = list[Len(list)]
      OBVIOUS
    <3>3. Fake!Last(front) = back
      <4>1. Len(list) + 1 \in 2 .. Len(list) + 1
        BY <2>1, <2>2, <3>1
      <4> QED
        BY <2>2, <2>3, <2>4, <3>2, <4>1, ConsAt DEF Fake!Last
    <3>4. Fake!Front(front) = SubSeq(front, 1, Len(list))
      <4>1. Len(front) - 1 = Len(list)
        BY <2>2, <2>4
      <4> QED
        BY <4>1 DEF Fake!Front
    <3>5. /\ list' = SubSeq(<<e>> \o list, 1, Len(list))
          /\ keyToElement' = [[keyToElement EXCEPT ![d] = e]
                                 EXCEPT ![back.key] = None]
          /\ valueToElement' = [[valueToElement EXCEPT ![a] = e]
                                 EXCEPT ![back.value] = None]
      BY <2>1, <2>2, <2>3, <2>5, <3>3, <3>4, Zenon DEF Fake!Put, Fake!Delete
    <3> QED
      BY <1>2, <2>1, <3>1, <3>2, <3>5, PutWhenFull
  <2>6. CASE ~Fake!Overflows(front)
    <3>1. Len(list) < lruSize
      BY <2>2, <2>4, <2>6 DEF Fake!Overflows
    <3>2. /\ list' = <<e>> \o list
          /\ keyToElement' = [keyToElement EXCEPT ![d] = e]
          /\ valueToElement' = [valueToElement EXCEPT ![a] = e]
      BY <2>1, <2>2, <2>3, <2>6, Zenon DEF Fake!Put
    <3> QED
      BY <1>2, <2>1, <3>1, <3>2, PutWithRoom
  <2> QED
    BY <2>5, <2>6
<1> QED
  BY <1>1, <1>2

\* So does a connection to an address, of the domain that has it.
LEMMA ConnectionKeeps ==
    ASSUME FakeInv, NEW a \in Fake!Pool, Fake!GetDomainFromFakeDNS(a)
    PROVE  FakeInv'
<1>1. PICK k \in 1 .. Len(list) : list[k] = valueToElement[a]
  BY DEF FakeInv, ValuesListed, Fake!GetDomainFromFakeDNS
<1>2. /\ list' = Fake!ToFront(list, list[k]) /\ recent' = Fake!ToFront(recent, list[k])
      /\ UNCHANGED <<lruSize, keyToElement, valueToElement>>
  BY <1>1 DEF Fake!GetDomainFromFakeDNS, Fake!MoveToFront
<1> QED
  BY <1>2, UsedAgain

\* A holder starts empty, with less room than addresses.
LEMMA FakeInit ==
    ASSUME Fake!Init, Fake!PoolAssumption
    PROVE  FakeInv
<1>1. list = <<>> /\ recent = <<>> /\ Len(list) = 0 /\ Len(recent) = 0
  BY DEF Fake!Init
<1>2. lruSize \in LruSizes \cup {0} /\ lruSize \in Nat /\ lruSize < Fake!PoolSize
  BY DEF Fake!Init, Fake!Accepts, Fake!PoolAssumption
<1>3. Fake!TypeOK /\ recent \in Seq(Fake!Element)
  BY <1>1, <1>2 DEF Fake!Init, Fake!TypeOK
<1>4. FrontIsRecent /\ KeysOnce(recent) /\ Indexed
  BY <1>1 DEF FrontIsRecent, KeysOnce, Indexed
<1>5. KeysListed /\ ValuesListed
  BY DEF Fake!Init, KeysListed, ValuesListed
<1> QED
  BY <1>2, <1>3, <1>4, <1>5 DEF FakeInv, FakeTypes

\* Fewer elements than addresses: one is free.
LEMMA OneIsFree ==
    ASSUME FakeInv, Fake!PoolAssumption
    PROVE  Fake!SearchEnds
<1>1. SUFFICES ASSUME \A a \in Fake!Pool : valueToElement[a] # None
               PROVE  FALSE
  BY DEF Fake!SearchEnds
<1>2. list \in Seq(Fake!Element) /\ Len(list) \in Nat /\ lruSize \in Nat
      /\ Len(list) <= lruSize /\ lruSize < Fake!PoolSize /\ Fake!PoolSize \in Nat
  BY DEF FakeInv, FakeTypes, Fake!TypeOK, Fake!PoolAssumption
<1>3. PICK f : f = [i \in 1 .. Len(list) |-> list[i].value]
  OBVIOUS
<1>4. f \in Surjection(1 .. Len(list), Fake!Pool)
  <2>1. f \in [1 .. Len(list) -> Fake!Pool]
    <3>1. \A i \in 1 .. Len(list) : list[i].value \in Fake!Pool
      <4>1. \A i \in 1 .. Len(list) : list[i] \in Fake!Element
        BY <1>2
      <4> QED
        BY <4>1 DEF Fake!Element
    <3> QED
      BY <1>3, <3>1
  <2>2. ASSUME NEW a \in Fake!Pool
        PROVE  \E i \in 1 .. Len(list) : f[i] = a
    <3>1. PICK i \in 1 .. Len(list) : /\ list[i] = valueToElement[a]
                                      /\ valueToElement[a].value = a
      BY <1>1 DEF FakeInv, ValuesListed
    <3> QED
      BY <1>3, <3>1
  <2> QED
    BY <2>1, <2>2 DEF Surjection
<1>5. Cardinality(Fake!Pool) <= Len(list)
  BY <1>2, <1>4, FS_SurjCardinalityBound DEF ExistsSurjection
<1>6. Cardinality(Fake!Pool) = Fake!PoolSize
  <2>1. Cardinality(0 .. Fake!PoolSize - 1) = Fake!PoolSize
    BY <1>2, FS_Interval
  <2> QED
    BY <2>1 DEF Fake!Pool
<1> QED
  BY <1>2, <1>5, <1>6

\* An address means one domain: the indexes and the list hold the same
\* elements, each once.
LEMMA OneEach ==
    ASSUME FakeInv, Fake!PoolAssumption
    PROVE  Fake!OneDomainPerAddress
<1>1. /\ list \in Seq(Fake!Element) /\ Len(list) \in Nat
      /\ keyToElement \in [LookedUp -> Fake!Element \cup {None}]
      /\ valueToElement \in [Fake!Pool -> Fake!Element \cup {None}]
  BY DEF FakeInv, FakeTypes, Fake!TypeOK
<1>2. ASSUME NEW i \in 1 .. Len(list)
      PROVE  /\ list[i].key \in LookedUp /\ list[i] # None
             /\ keyToElement[list[i].key] = list[i]
             /\ valueToElement[list[i].value] = list[i]
  <2>1. list[i] \in Fake!Element
    BY <1>1
  <2>2. list[i] # None /\ list[i].key \in LookedUp
    BY <2>1 DEF Fake!Element, Fake!Pool, Fake!PoolAssumption
  <2> QED
    BY <2>2 DEF FakeInv, Indexed
<1>3. ASSUME NEW d \in LookedUp, keyToElement[d] # None
      PROVE  /\ keyToElement[d].key = d
             /\ valueToElement[keyToElement[d].value] = keyToElement[d]
             /\ \E i \in 1 .. Len(list) : list[i] = keyToElement[d]
  <2>1. PICK i \in 1 .. Len(list) : list[i] = keyToElement[d]
    BY <1>3 DEF FakeInv, KeysListed
  <2> QED
    BY <1>2, <1>3, <2>1 DEF FakeInv, KeysListed
<1>4. ASSUME NEW a \in Fake!Pool, valueToElement[a] # None
      PROVE  /\ valueToElement[a].value = a
             /\ keyToElement[valueToElement[a].key] = valueToElement[a]
  <2>1. PICK i \in 1 .. Len(list) : list[i] = valueToElement[a]
    BY <1>4 DEF FakeInv, ValuesListed
  <2> QED
    BY <1>2, <1>4, <2>1 DEF FakeInv, ValuesListed
<1>5. Fake!ToSet(list) = {keyToElement[d] : d \in LookedUp} \ {None}
  <2>1. Fake!ToSet(list) = {list[i] : i \in 1 .. Len(list)}
    BY <1>1 DEF Fake!ToSet
  <2> QED
    BY <1>2, <1>3, <2>1
<1>6. Fake!IsInjective(list)
  BY <1>1, ListKeysOnce DEF Fake!IsInjective, KeysOnce
<1> QED
  BY <1>3, <1>4, <1>5, <1>6 DEF Fake!OneDomainPerAddress

\* The domains used last have the address they were given last.
LEMMA RecentOnes ==
    ASSUME FakeInv
    PROVE  Fake!RecentKept
<1>1. ASSUME NEW i \in 1 .. Len(recent), i <= lruSize
      PROVE  keyToElement[recent[i].key] = recent[i]
  <2>1. i \in 1 .. Len(list)
    BY <1>1 DEF FakeInv, FakeTypes, Fake!TypeOK, FrontIsRecent
  <2> QED
    BY <2>1 DEF FakeInv, FrontIsRecent, Indexed
<1> QED
  BY <1>1 DEF Fake!RecentKept

\* However the clock picks addresses and whatever is looked up or connected to:
\* an address means one domain, the domains used last keep theirs, and there is
\* a free address whenever one is searched.
THEOREM FakeAddresses ==
    ASSUME Fake!PoolAssumption
    PROVE  Fake!Spec => [](Fake!TypeOK /\ Fake!PoolConsistent /\ PoolConsistent)
<1>1. Fake!Init => FakeInv
  BY FakeInit
<1>2. FakeInv /\ [Fake!Next]_(Fake!vars) => FakeInv'
  <2> SUFFICES ASSUME FakeInv, [Fake!Next]_(Fake!vars)
               PROVE  FakeInv'
    OBVIOUS
  <2>1. CASE UNCHANGED Fake!vars
    BY <2>1 DEF Fake!vars, FakeInv, FakeTypes, Fake!TypeOK, FrontIsRecent, KeysOnce,
                Indexed, KeysListed, ValuesListed, Fake!Element, Fake!Pool,
                Fake!PoolSize
  <2> QED
    BY <2>1, LookupKeeps, ConnectionKeeps DEF Fake!Next
<1>3. FakeInv => Fake!TypeOK /\ Fake!PoolConsistent /\ PoolConsistent
  BY OneEach, RecentOnes, OneIsFree
     DEF FakeInv, FakeTypes, Fake!PoolConsistent, PoolConsistent
<1> QED
  BY <1>1, <1>2, <1>3, PTL DEF Fake!Spec

-----------------------------------------------------------------------------
(* HealthPing, instantiated as Ping *)

\* The slot of the j-th of the last n results when the latest is at idx.
Slot(idx, n, j) ==
    IF idx + j > n THEN (idx + j) - n ELSE ((idx + j) - n) + SamplingCount

\* A ring holds the results of a history, each in its slot, and nothing else.
RingHolds(ring, s) ==
    /\ ring \in Ping!Ring /\ s \in Seq(Ping!Outcomes)
    /\ Len(s) \in 1 .. SamplingCount
    /\ Len(s) < SamplingCount => ring.idx = Len(s)
    /\ \A j \in 1 .. Len(s) : ring.rtts[Slot(ring.idx, Len(s), j)] = s[j]
    /\ \A i \in 1 .. SamplingCount : i > Len(s) => ring.rtts[i] = None

Started == [tags : SUBSET Pinged, scheduled : BOOLEAN,
            out : [Pinged -> 0 .. SamplingCount]]

PingInv ==
    /\ valid \subseteq Pinged /\ checked \in BOOLEAN
    /\ round \in [Rounds -> Started \cup {None}]
    /\ results \in [Pinged -> Ping!Ring \cup {None}]
    /\ lastRTTs \in [Pinged -> Seq(Ping!Outcomes)]
    /\ \A t \in Pinged : IF results[t] = None THEN lastRTTs[t] = <<>>
                                              ELSE RingHolds(results[t], lastRTTs[t])

\* Slots are slots, and two results have two.
LEMMA SlotType ==
    ASSUME NEW ring, NEW s, RingHolds(ring, s), Ping!PingAssumption
    PROVE  /\ \A j \in 1 .. Len(s) : Slot(ring.idx, Len(s), j) \in 1 .. SamplingCount
           /\ \A j, k \in 1 .. Len(s) :
                 Slot(ring.idx, Len(s), j) = Slot(ring.idx, Len(s), k) => j = k
           /\ ring.rtts \in [1 .. SamplingCount -> Ping!Outcomes \cup {None}]
           /\ ring.idx \in 1 .. SamplingCount
<1>1. /\ ring.idx \in 1 .. SamplingCount /\ Len(s) \in 1 .. SamplingCount
      /\ SamplingCount \in Nat \ {0}
      /\ Len(s) < SamplingCount => ring.idx = Len(s)
      /\ ring.rtts \in [1 .. SamplingCount -> Ping!Outcomes \cup {None}]
  BY DEF RingHolds, Ping!Ring, Ping!PingAssumption
<1>2. CASE Len(s) < SamplingCount
  BY <1>1, <1>2 DEF Slot
<1>3. CASE Len(s) = SamplingCount
  <2>1. ASSUME NEW j \in 1 .. Len(s)
        PROVE  Slot(ring.idx, Len(s), j) \in 1 .. SamplingCount
    BY <1>1, <1>3 DEF Slot
  <2>2. ASSUME NEW j \in 1 .. Len(s), NEW k \in 1 .. Len(s),
               Slot(ring.idx, Len(s), j) = Slot(ring.idx, Len(s), k)
        PROVE  j = k
    BY <1>1, <1>3, <2>2 DEF Slot
  <2> QED
    BY <1>1, <2>1, <2>2
<1> QED
  BY <1>1, <1>2, <1>3

\* Whatever a slot holds is one of the results.
LEMMA SlotFound ==
    ASSUME NEW ring, NEW s, RingHolds(ring, s), Ping!PingAssumption,
           NEW i \in 1 .. SamplingCount, ring.rtts[i] # None
    PROVE  \E j \in 1 .. Len(s) : Slot(ring.idx, Len(s), j) = i
<1>1. /\ ring.idx \in 1 .. SamplingCount /\ Len(s) \in 1 .. SamplingCount
      /\ SamplingCount \in Nat \ {0} /\ i <= Len(s)
      /\ Len(s) < SamplingCount => ring.idx = Len(s)
  BY DEF RingHolds, Ping!Ring, Ping!PingAssumption
<1>2. CASE Len(s) < SamplingCount
  <2>1. Slot(ring.idx, Len(s), i) = i /\ i \in 1 .. Len(s)
    BY <1>1, <1>2 DEF Slot
  <2> QED
    BY <2>1
<1>3. CASE Len(s) = SamplingCount /\ i > ring.idx
  <2>1. Slot(ring.idx, Len(s), i - ring.idx) = i /\ i - ring.idx \in 1 .. Len(s)
    BY <1>1, <1>3 DEF Slot
  <2> QED
    BY <2>1
<1>4. CASE Len(s) = SamplingCount /\ i <= ring.idx
  <2>1. /\ Slot(ring.idx, Len(s), (i - ring.idx) + SamplingCount) = i
        /\ (i - ring.idx) + SamplingCount \in 1 .. Len(s)
    BY <1>1, <1>4 DEF Slot
  <2> QED
    BY <2>1
<1> QED
  BY <1>1, <1>2, <1>3, <1>4

\* One to one and onto.
LEMMA BijectionBy ==
    ASSUME NEW S, NEW T, NEW f \in [S -> T],
           \A y \in T : \E x \in S : f[x] = y,
           \A x, y \in S : f[x] = f[y] => x = y
    PROVE  ExistsBijection(S, T)
<1>1. f \in Injection(S, T)
  BY DEF Injection, IsInjective
<1>2. f \in Surjection(S, T)
  BY DEF Surjection
<1> QED
  BY <1>1, <1>2 DEF ExistsBijection, Bijection

\* The instance counts as the provers' theorems do.
LEMMA CountedSame == \A S : Ping!Cardinality(S) = Cardinality(S)
  BY DEF Ping!Cardinality, Cardinality

\* What the ring counts is what the history holds, of every outcome.
LEMMA RingCounts ==
    ASSUME NEW ring, NEW s, RingHolds(ring, s), Ping!PingAssumption
    PROVE  /\ Cardinality({i \in 1 .. SamplingCount : ring.rtts[i] # None}) = Len(s)
           /\ Cardinality({i \in 1 .. SamplingCount : ring.rtts[i] = rttFailed})
                 = Cardinality({j \in DOMAIN s : s[j] = rttFailed})
           /\ ring.rtts[ring.idx] = s[Len(s)]
<1>1. /\ Len(s) \in 1 .. SamplingCount /\ DOMAIN s = 1 .. Len(s)
      /\ SamplingCount \in Nat \ {0}
      /\ \A j \in 1 .. Len(s) : s[j] \in Ping!Outcomes
      /\ \A j \in 1 .. Len(s) : ring.rtts[Slot(ring.idx, Len(s), j)] = s[j]
      /\ None \notin Ping!Outcomes /\ rttFailed # None
  BY DEF RingHolds, Ping!PingAssumption, Ping!Outcomes
<1> DEFINE all == {i \in 1 .. SamplingCount : ring.rtts[i] # None}
           failed == {i \in 1 .. SamplingCount : ring.rtts[i] = rttFailed}
           fails == {j \in 1 .. Len(s) : s[j] = rttFailed}
<1>2. ExistsBijection(1 .. Len(s), all)
  <2>1. PICK f : f = [j \in 1 .. Len(s) |-> Slot(ring.idx, Len(s), j)]
    OBVIOUS
  <2>2. f \in [1 .. Len(s) -> all]
    <3>1. \A j \in 1 .. Len(s) : /\ Slot(ring.idx, Len(s), j) \in 1 .. SamplingCount
                                 /\ ring.rtts[Slot(ring.idx, Len(s), j)] # None
      BY <1>1, SlotType
    <3> QED
      BY <2>1, <3>1
  <2>3. \A i \in all : \E j \in 1 .. Len(s) : f[j] = i
    BY <2>1, SlotFound
  <2>4. \A j, k \in 1 .. Len(s) : f[j] = f[k] => j = k
    BY <2>1, SlotType
  <2> HIDE DEF all
  <2> QED
    BY <2>2, <2>3, <2>4, BijectionBy
<1>3. ExistsBijection(fails, failed)
  <2>1. PICK f : f = [j \in fails |-> Slot(ring.idx, Len(s), j)]
    OBVIOUS
  <2>2. f \in [fails -> failed]
    <3>1. \A j \in fails : /\ Slot(ring.idx, Len(s), j) \in 1 .. SamplingCount
                           /\ ring.rtts[Slot(ring.idx, Len(s), j)] = rttFailed
      BY <1>1, SlotType
    <3> QED
      BY <2>1, <3>1
  <2>3. \A i \in failed : \E j \in fails : f[j] = i
    <3> SUFFICES ASSUME NEW i \in failed
                 PROVE  \E j \in fails : f[j] = i
      OBVIOUS
    <3>1. PICK j \in 1 .. Len(s) : Slot(ring.idx, Len(s), j) = i
      BY <1>1, SlotFound
    <3>2. j \in fails
      BY <1>1, <3>1
    <3> QED
      BY <2>1, <3>1, <3>2
  <2>4. \A j, k \in fails : f[j] = f[k] => j = k
    BY <2>1, SlotType
  <2> HIDE DEF fails, failed
  <2> QED
    BY <2>2, <2>3, <2>4, BijectionBy
<1>4. IsFiniteSet(1 .. Len(s)) /\ Cardinality(1 .. Len(s)) = Len(s)
  BY <1>1, FS_Interval
<1>5. IsFiniteSet(fails)
  BY <1>4, FS_Subset
<1>6. Cardinality(all) = Len(s) /\ Cardinality(failed) = Cardinality(fails)
  BY <1>2, <1>3, <1>4, <1>5, FS_Bijection
<1>7. ring.rtts[ring.idx] = s[Len(s)]
  <2>1. Slot(ring.idx, Len(s), Len(s)) = ring.idx
    BY <1>1 DEF RingHolds, Ping!Ring, Slot
  <2> QED
    BY <1>1, <2>1
<1> QED
  BY <1>1, <1>6, <1>7

\* The first result of an outbound makes its ring.
LEMMA FirstResult ==
    ASSUME Ping!PingAssumption, NEW v \in Ping!Outcomes
    PROVE  /\ RingHolds(Ping!NewRing(v), Ping!LastOnes(Append(<<>>, v)))
           /\ Ping!LastOnes(Append(<<>>, v)) = <<v>>
<1>1. Ping!LastOnes(Append(<<>>, v)) = <<v>> /\ Len(<<v>>) = 1 /\ <<v>>[1] = v
  BY DEF Ping!LastOnes, Ping!PingAssumption
<1>2. Ping!NewRing(v) \in Ping!Ring
  BY DEF Ping!NewRing, Ping!Ring, Ping!PingAssumption
<1>3. /\ Ping!NewRing(v).idx = 1 /\ Ping!NewRing(v).rtts[1] = v
      /\ \A i \in 1 .. SamplingCount : i > 1 => Ping!NewRing(v).rtts[i] = None
  BY DEF Ping!NewRing, Ping!PingAssumption
<1>4. Slot(1, 1, 1) = 1
  BY DEF Slot
<1>5. PICK ring, s : ring = Ping!NewRing(v) /\ s = <<v>>
  OBVIOUS
<1>6. /\ s \in Seq(Ping!Outcomes) /\ Len(s) = 1 /\ s[1] = v
      /\ 1 \in 1 .. SamplingCount
  BY <1>5 DEF Ping!PingAssumption
<1>7. \A j \in 1 .. Len(s) : ring.rtts[Slot(ring.idx, Len(s), j)] = s[j]
  BY <1>3, <1>4, <1>5, <1>6
<1>8. RingHolds(ring, s)
  BY <1>2, <1>3, <1>5, <1>6, <1>7 DEF RingHolds
<1> QED
  BY <1>1, <1>5, <1>8

\* Any other goes into the next slot, over the oldest when the ring is full.
LEMMA NextResult ==
    ASSUME Ping!PingAssumption, NEW v \in Ping!Outcomes,
           NEW ring, NEW s, RingHolds(ring, s)
    PROVE  RingHolds(Ping!Put(ring, v), Ping!LastOnes(Append(s, v)))
<1>1. /\ ring.idx \in 1 .. SamplingCount /\ Len(s) \in 1 .. SamplingCount
      /\ SamplingCount \in Nat \ {0} /\ s \in Seq(Ping!Outcomes)
      /\ Len(s) < SamplingCount => ring.idx = Len(s)
      /\ ring.rtts \in [1 .. SamplingCount -> Ping!Outcomes \cup {None}]
  BY SlotType DEF RingHolds, Ping!PingAssumption
<1>2. PICK next : next = Ping!Put(ring, v)
  OBVIOUS
<1>3. PICK idx : idx = IF ring.idx = SamplingCount THEN 1 ELSE ring.idx + 1
  OBVIOUS
<1>4. Ping!calcIndex(ring.idx) = idx /\ idx \in 1 .. SamplingCount
  <2>1. CASE ring.idx < SamplingCount
    <3>1. ring.idx % SamplingCount = ring.idx
      BY <1>1, <2>1
    <3> QED
      BY <1>1, <1>3, <2>1, <3>1 DEF Ping!calcIndex
  <2>2. CASE ring.idx = SamplingCount
    <3>1. SamplingCount % SamplingCount = 0
      BY <1>1
    <3> QED
      BY <1>1, <1>3, <2>2, <3>1 DEF Ping!calcIndex
  <2> QED
    BY <1>1, <2>1, <2>2
<1>5. /\ next.idx = idx /\ next.rtts = [ring.rtts EXCEPT ![idx] = v]
      /\ next \in Ping!Ring /\ next.rtts[idx] = v
      /\ \A i \in 1 .. SamplingCount : i # idx => next.rtts[i] = ring.rtts[i]
  BY <1>1, <1>2, <1>4 DEF Ping!Put, Ping!Ring
<1>6. PICK a : a = Append(s, v)
  OBVIOUS
<1>7. /\ a \in Seq(Ping!Outcomes) /\ Len(a) = Len(s) + 1 /\ a[Len(s) + 1] = v
      /\ \A j \in 1 .. Len(s) : a[j] = s[j]
  BY <1>1, <1>6
<1>8. \A j \in 1 .. Len(s) : /\ Slot(ring.idx, Len(s), j) \in 1 .. SamplingCount
                             /\ ring.rtts[Slot(ring.idx, Len(s), j)] = s[j]
  BY SlotType DEF RingHolds
<1>9. \A i \in 1 .. SamplingCount : i > Len(s) => ring.rtts[i] = None
  BY DEF RingHolds
<1>10. CASE Len(s) < SamplingCount
  <2>1. Ping!LastOnes(a) = a /\ idx = Len(s) + 1
    BY <1>1, <1>3, <1>7, <1>10 DEF Ping!LastOnes
  <2>2. ASSUME NEW j \in 1 .. Len(a)
        PROVE  next.rtts[Slot(idx, Len(a), j)] = a[j]
    <3>1. Slot(idx, Len(a), j) = j
      BY <1>1, <1>7, <2>1 DEF Slot
    <3>2. CASE j = Len(s) + 1
      BY <1>5, <1>7, <2>1, <3>1, <3>2
    <3>3. CASE j # Len(s) + 1
      <4>1. j \in 1 .. Len(s) /\ Slot(ring.idx, Len(s), j) = j
        BY <1>1, <1>7, <1>10, <3>3 DEF Slot
      <4>2. ring.rtts[j] = s[j] /\ j \in 1 .. SamplingCount
        BY <1>8, <4>1
      <4>3. next.rtts[j] = ring.rtts[j]
        BY <1>5, <2>1, <3>3, <4>2
      <4> QED
        BY <1>7, <3>1, <4>1, <4>2, <4>3
    <3> QED
      BY <3>2, <3>3
  <2>3. ASSUME NEW i \in 1 .. SamplingCount, i > Len(a)
        PROVE  next.rtts[i] = None
    <3>1. i > Len(s) /\ i # idx
      BY <1>1, <1>7, <2>1, <2>3
    <3> QED
      BY <1>5, <1>9, <3>1
  <2>4. Len(a) \in 1 .. SamplingCount /\ (Len(a) < SamplingCount => next.idx = Len(a))
    BY <1>1, <1>5, <1>7, <1>10, <2>1
  <2>5. RingHolds(next, a)
    BY <1>5, <1>7, <2>2, <2>3, <2>4 DEF RingHolds
  <2> QED
    BY <1>2, <1>6, <2>1, <2>5
<1>11. CASE Len(s) = SamplingCount
  <2>1. PICK b : b = Tail(a)
    OBVIOUS
  <2>2. Ping!LastOnes(a) = b
    BY <1>1, <1>7, <1>11, <2>1 DEF Ping!LastOnes
  <2>3. /\ b \in Seq(Ping!Outcomes) /\ Len(b) = SamplingCount
        /\ \A j \in 1 .. SamplingCount : b[j] = a[j + 1]
    BY <1>1, <1>7, <1>11, <2>1
  <2>4. ASSUME NEW j \in 1 .. SamplingCount
        PROVE  next.rtts[Slot(idx, SamplingCount, j)] = b[j]
    <3>1. CASE j = SamplingCount
      <4>1. Slot(idx, SamplingCount, j) = idx
        BY <1>1, <1>4, <3>1 DEF Slot
      <4>2. b[j] = v
        BY <1>1, <1>7, <1>11, <2>3, <3>1
      <4> QED
        BY <1>5, <4>1, <4>2
    <3>2. CASE j # SamplingCount
      <4>1. j + 1 \in 1 .. Len(s)
        BY <1>1, <1>11, <3>2
      <4>2. Slot(idx, SamplingCount, j) = Slot(ring.idx, Len(s), j + 1)
        <5>1. CASE ring.idx = SamplingCount
          BY <1>1, <1>3, <1>11, <3>2, <5>1 DEF Slot
        <5>2. CASE ring.idx # SamplingCount
          BY <1>1, <1>3, <1>11, <3>2, <5>2 DEF Slot
        <5> QED
          BY <5>1, <5>2
      <4>3. Slot(idx, SamplingCount, j) # idx
        BY <1>1, <1>4, <3>2 DEF Slot
      <4>4. b[j] = s[j + 1]
        BY <1>7, <2>3, <4>1
      <4> QED
        BY <1>5, <1>8, <4>1, <4>2, <4>3, <4>4
    <3> QED
      BY <3>1, <3>2
  <2>5. RingHolds(next, b)
    BY <1>1, <1>5, <2>3, <2>4 DEF RingHolds
  <2> QED
    BY <1>2, <1>6, <2>2, <2>5
<1> QED
  BY <1>1, <1>10, <1>11

\* A ping that is answered: its result is put, or nothing changes.
LEMMA AnswerKeeps ==
    ASSUME PingInv, Ping!PingAssumption, NEW r \in Rounds, NEW t \in Pinged,
           Ping!Answer(r, t)
    PROVE  PingInv'
<1>1. round[r] \in Started /\ round[r].out \in [Pinged -> 0 .. SamplingCount]
  BY DEF PingInv, Ping!Answer, Started
<1>2. round' \in [Rounds -> Started \cup {None}]
  <2>1. [round[r] EXCEPT !.out[t] = @ - 1] \in Started
    BY <1>1 DEF Ping!Answer, Started, Ping!PingAssumption
  <2> QED
    BY <2>1 DEF PingInv, Ping!Answer
<1>3. CASE UNCHANGED <<results, lastRTTs>>
  <2>1. \A u \in Pinged :
           IF results'[u] = None THEN lastRTTs'[u] = <<>>
                                 ELSE RingHolds(results'[u], lastRTTs'[u])
    BY <1>3 DEF PingInv
  <2> QED
    BY <1>2, <1>3, <2>1 DEF PingInv, Ping!Answer
<1>4. ASSUME NEW v \in Ping!Outcomes, Ping!PutResult(t, v)
      PROVE  PingInv'
  <2>1. PICK ring, s :
          /\ s = Ping!LastOnes(Append(lastRTTs[t], v))
          /\ ring = IF results[t] = None THEN Ping!NewRing(v)
                                         ELSE Ping!Put(results[t], v)
    OBVIOUS
  <2>2. RingHolds(ring, s)
    <3>1. CASE results[t] = None
      BY <2>1, <3>1, FirstResult DEF PingInv
    <3>2. CASE results[t] # None
      BY <2>1, <3>2, NextResult DEF PingInv
    <3> QED
      BY <3>1, <3>2
  <2>3. /\ results' = [results EXCEPT ![t] = ring]
        /\ lastRTTs' = [lastRTTs EXCEPT ![t] = s]
    BY <1>4, <2>1, Zenon DEF Ping!PutResult
  <2>4. ring \in Ping!Ring /\ s \in Seq(Ping!Outcomes) /\ ring # None
    <3>1. ring \in Ping!Ring /\ s \in Seq(Ping!Outcomes)
      BY <2>2 DEF RingHolds
    <3> QED
      BY <3>1 DEF Ping!PingAssumption
  <2>5. /\ results' \in [Pinged -> Ping!Ring \cup {None}]
        /\ lastRTTs' \in [Pinged -> Seq(Ping!Outcomes)]
    BY <2>3, <2>4 DEF PingInv
  <2>6. \A u \in Pinged : IF results'[u] = None THEN lastRTTs'[u] = <<>>
                          ELSE RingHolds(results'[u], lastRTTs'[u])
    BY <2>2, <2>3, <2>4 DEF PingInv
  <2>7. valid' \subseteq Pinged /\ checked' \in BOOLEAN
    BY DEF PingInv, Ping!Answer
  <2> QED
    BY <1>2, <2>5, <2>6, <2>7 DEF PingInv, Started, RingHolds, Slot, Ping!Ring,
                                  Ping!Outcomes
<1> QED
  BY <1>3, <1>4 DEF Ping!Answer

\* A round begins, the one-time check too: the pings are counted, nothing else.
LEMMA RoundKeeps ==
    ASSUME PingInv, Ping!PingAssumption, NEW r \in Rounds,
           Ping!BeginRound(r) \/ Ping!Check(r)
    PROVE  PingInv'
<1>1. PICK n \in 0 .. SamplingCount, how \in BOOLEAN :
        round' = [round EXCEPT ![r] = [tags |-> valid, scheduled |-> how,
                                       out |-> Ping!Outstanding(valid, n)]]
  <2>1. SamplingCount \in 0 .. SamplingCount /\ 1 \in 0 .. SamplingCount
    BY DEF Ping!PingAssumption
  <2> QED
    BY <2>1, Zenon DEF Ping!BeginRound, Ping!Check
<1>2. Ping!Outstanding(valid, n) \in [Pinged -> 0 .. SamplingCount]
  BY DEF Ping!Outstanding, Ping!PingAssumption
<1>3. round' \in [Rounds -> Started \cup {None}]
  BY <1>1, <1>2 DEF PingInv, Started
<1>4. /\ valid' = valid /\ results' = results /\ lastRTTs' = lastRTTs
      /\ checked' \in BOOLEAN
  BY Zenon DEF PingInv, Ping!BeginRound, Ping!Check
<1> QED
  BY <1>3, <1>4 DEF PingInv, Started, RingHolds, Slot, Ping!Ring, Ping!Outcomes

\* A round ends: an outbound that is forgotten loses its results and its history.
LEMMA EndRoundKeeps ==
    ASSUME PingInv, Ping!PingAssumption, NEW r \in Rounds, Ping!EndRound(r)
    PROVE  PingInv'
<1>1. round' \in [Rounds -> Started \cup {None}]
  BY DEF PingInv, Ping!EndRound
<1>2. /\ results' \in [Pinged -> Ping!Ring \cup {None}]
      /\ lastRTTs' \in [Pinged -> Seq(Ping!Outcomes)]
  BY DEF PingInv, Ping!EndRound
<1>3. \A t \in Pinged : \/ results'[t] = None /\ lastRTTs'[t] = <<>>
                        \/ results'[t] = results[t] /\ lastRTTs'[t] = lastRTTs[t]
  BY DEF Ping!EndRound
<1>4. \A t \in Pinged : IF results'[t] = None THEN lastRTTs'[t] = <<>>
                        ELSE RingHolds(results'[t], lastRTTs'[t])
  BY <1>3 DEF PingInv
<1>5. valid' \subseteq Pinged /\ checked' \in BOOLEAN
  BY DEF PingInv, Ping!EndRound
<1> QED
  BY <1>1, <1>2, <1>4, <1>5 DEF PingInv, Started, RingHolds, Slot, Ping!Ring,
                                Ping!Outcomes

\* However rounds overlap, whichever outbounds come and go and however often a
\* ring went around, statistics are those of the last results.
THEOREM PingStatistics ==
    ASSUME Ping!PingAssumption
    PROVE  Ping!Spec => [](Ping!TypeOK /\ Ping!StatisticsOfTheLast /\ StatisticsOfTheLast)
<1>1. Ping!Init => PingInv
  <2> SUFFICES ASSUME Ping!Init
               PROVE  PingInv
    OBVIOUS
  <2>1. /\ valid \subseteq Pinged /\ checked \in BOOLEAN
        /\ round \in [Rounds -> Started \cup {None}]
        /\ results \in [Pinged -> Ping!Ring \cup {None}]
        /\ \A t \in Pinged : results[t] = None /\ lastRTTs[t] = <<>>
    BY DEF Ping!Init
  <2>2. lastRTTs \in [Pinged -> Seq(Ping!Outcomes)]
    BY DEF Ping!Init
  <2> QED
    BY <2>1, <2>2 DEF PingInv
<1>2. PingInv /\ [Ping!Next]_(Ping!vars) => PingInv'
  <2> SUFFICES ASSUME PingInv, [Ping!Next]_(Ping!vars)
               PROVE  PingInv'
    OBVIOUS
  <2>1. CASE UNCHANGED Ping!vars
    BY <2>1 DEF Ping!vars, PingInv, Started, RingHolds, Slot, Ping!Ring,
                Ping!Outcomes
  <2>2. ASSUME NEW t \in Pinged, Ping!AddOrRemove(t)
        PROVE  PingInv'
    <3>1. valid' \subseteq Pinged
      BY <2>2 DEF PingInv, Ping!AddOrRemove
    <3> QED
      BY <2>2, <3>1 DEF PingInv, Ping!AddOrRemove, Started, RingHolds, Slot,
                        Ping!Ring, Ping!Outcomes
  <2> QED
    BY <2>1, <2>2, RoundKeeps, EndRoundKeeps, AnswerKeeps DEF Ping!Next, Ping!Step
<1>3. PingInv => Ping!TypeOK /\ Ping!StatisticsOfTheLast /\ StatisticsOfTheLast
  <2> SUFFICES ASSUME PingInv
               PROVE  Ping!TypeOK /\ Ping!StatisticsOfTheLast
    BY DEF StatisticsOfTheLast
  <2>1. Ping!TypeOK
    BY DEF PingInv, Ping!TypeOK, Started
  <2>2. ASSUME NEW t \in Pinged, results[t] # None
        PROVE  /\ Ping!getStatistics(results[t]).All = Len(lastRTTs[t])
               /\ Ping!getStatistics(results[t]).Fail =
                     Ping!Cardinality({i \in DOMAIN lastRTTs[t] :
                                         lastRTTs[t][i] = rttFailed})
               /\ results[t].rtts[results[t].idx] = Ping!Last(lastRTTs[t])
    <3>1. RingHolds(results[t], lastRTTs[t])
      BY <2>2 DEF PingInv
    <3> QED
      <4>1. /\ Cardinality({i \in 1 .. SamplingCount : results[t].rtts[i] # None})
                  = Len(lastRTTs[t])
            /\ Cardinality({i \in 1 .. SamplingCount :
                              results[t].rtts[i] = rttFailed})
                  = Cardinality({j \in DOMAIN lastRTTs[t] :
                                   lastRTTs[t][j] = rttFailed})
            /\ results[t].rtts[results[t].idx] = lastRTTs[t][Len(lastRTTs[t])]
        BY <3>1, RingCounts
      <4>2. /\ Ping!Cardinality({i \in 1 .. SamplingCount :
                                   results[t].rtts[i] # None}) = Len(lastRTTs[t])
            /\ Ping!Cardinality({i \in 1 .. SamplingCount :
                                   results[t].rtts[i] = rttFailed})
                  = Ping!Cardinality({i \in DOMAIN lastRTTs[t] :
                                        lastRTTs[t][i] = rttFailed})
        BY <4>1, CountedSame, Zenon
      <4>3. /\ Ping!getStatistics(results[t]).All
                  = Ping!Cardinality({i \in 1 .. SamplingCount :
                                        results[t].rtts[i] # None})
            /\ Ping!getStatistics(results[t]).Fail
                  = Ping!Cardinality({i \in 1 .. SamplingCount :
                                        results[t].rtts[i] = rttFailed})
        BY DEF Ping!getStatistics
      <4> QED
        BY <4>1, <4>2, <4>3, Zenon DEF Ping!Last
  <2>3. \A t \in Pinged : results[t] = None => lastRTTs[t] = <<>>
    BY DEF PingInv
  <2> QED
    BY <2>1, <2>2, <2>3 DEF Ping!StatisticsOfTheLast
<1> QED
  BY <1>1, <1>2, <1>3, PTL DEF Ping!Spec

-----------------------------------------------------------------------------
(* LeastLoad, instantiated as Load *)

\* The inputs of a call, which no step changes.
LoadInputs == /\ status \in [Outbounds -> Load!Observation]
              /\ candidates \subseteq Outbounds
              /\ settings.Expected \in Int
              /\ settings.Baselines \in Seq(Lines)

\* Load's Cardinality and IsFiniteSet are the ones of the standard module.
LEMMA LoadCounts == \A S : Load!Cardinality(S) = Cardinality(S)
  BY DEF Load!Cardinality, Cardinality

LEMMA LoadFinite == \A S : Load!IsFiniteSet(S) <=> IsFiniteSet(S)
  BY DEF Load!IsFiniteSet, IsFiniteSet

\* Less is a strict order of the outbounds, and total.
LEMMA LessOrder ==
    ASSUME LoadInputs, Load!LoadAssumption,
           NEW a \in Outbounds, NEW b \in Outbounds, NEW c \in Outbounds
    PROVE  /\ ~Load!Less(a, a)
           /\ Load!Less(a, b) /\ Load!Less(b, c) => Load!Less(a, c)
           /\ a = b \/ Load!Less(a, b) \/ Load!Less(b, a)
           /\ Load!Less(a, b) => status[a].cost <= status[b].cost
<1>1. /\ {status[a].cost, status[b].cost, status[c].cost} \subseteq Nat
      /\ {status[a].delay, status[b].delay, status[c].delay} \subseteq Nat
      /\ {a, b, c} \subseteq Nat
  <2>1. \A t \in Outbounds : status[t].cost \in Nat /\ status[t].delay \in Nat
    BY DEF LoadInputs, Load!Observation, Load!LoadAssumption
  <2> QED
    BY <2>1 DEF Load!LoadAssumption
<1> QED
  BY <1>1 DEF Load!Less

\* The qualified outbounds, and any part of them, can be counted.
LEMMA QualifiedFinite ==
    ASSUME Load!LoadAssumption, NEW T \in SUBSET Load!Qualified
    PROVE  IsFiniteSet(T) /\ Cardinality(T) \in Nat
<1>1. IsFiniteSet(Outbounds) /\ T \in SUBSET Outbounds
  BY LoadFinite DEF Load!LoadAssumption, Load!Qualified
<1> QED
  BY <1>1, FS_Subset, FS_CardinalityType

\* A node that goes before another has fewer before it.
LEMMA BeforeGrows ==
    ASSUME LoadInputs, Load!LoadAssumption,
           NEW a \in Load!Qualified, NEW b \in Load!Qualified, Load!Less(a, b)
    PROVE  Load!Before(a) < Load!Before(b)
<1>1. Load!Qualified \subseteq Outbounds
  BY DEF Load!Qualified
<1> DEFINE A == {u \in Load!Qualified : Load!Less(u, a)}
           B == {u \in Load!Qualified : Load!Less(u, b)}
<1>2. A \subseteq B
  BY <1>1, LessOrder
<1>3. a \in B /\ a \notin A
  BY <1>1, LessOrder
<1>4. A \in SUBSET Load!Qualified /\ B \in SUBSET Load!Qualified
  OBVIOUS
<1>5. Load!Before(a) = Cardinality(A) /\ Load!Before(b) = Cardinality(B)
  BY LoadCounts DEF Load!Before
<1> HIDE DEF A, B
<1>6. IsFiniteSet(B) /\ Cardinality(A) \in Nat /\ Cardinality(B) \in Nat
  BY <1>4, QualifiedFinite
<1>7. Cardinality(A) <= Cardinality(B) /\ Cardinality(A) # Cardinality(B)
  <2>1. A \in SUBSET B
    BY <1>2
  <2> QED
    BY <1>3, <1>6, <2>1, FS_Subset
<1> QED
  BY <1>5, <1>6, <1>7

\* Every place is taken by one node.
LEMMA EveryPlace ==
    ASSUME LoadInputs, Load!LoadAssumption,
           NEW n, n = Cardinality(Load!Qualified)
    PROVE  /\ n \in Nat
           /\ \A t \in Load!Qualified : Load!Before(t) \in 0 .. n - 1
           /\ \A i \in 0 .. n - 1 : \E t \in Load!Qualified : Load!Before(t) = i
<1>1. IsFiniteSet(Load!Qualified) /\ n \in Nat
  BY QualifiedFinite
<1>2. ASSUME NEW t \in Load!Qualified
      PROVE  Load!Before(t) \in 0 .. n - 1
  <2> DEFINE A == {u \in Load!Qualified : Load!Less(u, t)}
  <2>1. A \in SUBSET Load!Qualified /\ t \notin A
    BY LessOrder DEF Load!Qualified
  <2>2. Load!Before(t) = Cardinality(A)
    BY LoadCounts DEF Load!Before
  <2> HIDE DEF A
  <2>3. Cardinality(A) \in Nat /\ Cardinality(A) <= n /\ Cardinality(A) # n
    BY <1>1, <2>1, QualifiedFinite, FS_Subset
  <2> QED
    BY <1>1, <2>2, <2>3
<1>3. ASSUME NEW t \in Load!Qualified, NEW u \in Load!Qualified,
             Load!Before(t) = Load!Before(u)
      PROVE  t = u
  <2>1. t \in Outbounds /\ u \in Outbounds
    BY DEF Load!Qualified
  <2>2. Load!Before(t) \in Int
    BY <1>1, <1>2
  <2> QED
    BY <1>3, <2>1, <2>2, LessOrder, BeforeGrows
<1>4. PICK f : f = [t \in Load!Qualified |-> Load!Before(t)]
  OBVIOUS
<1>5. f \in Injection(Load!Qualified, 0 .. n - 1)
  <2>1. f \in [Load!Qualified -> 0 .. n - 1]
    BY <1>2, <1>4
  <2>2. \A t, u \in Load!Qualified : f[t] = f[u] => t = u
    BY <1>3, <1>4
  <2> QED
    BY <2>1, <2>2 DEF Injection, IsInjective
<1>6. IsFiniteSet(0 .. n - 1) /\ Cardinality(0 .. n - 1) = n
  <2>1. 0 \in Int /\ n - 1 \in Int
    BY <1>1
  <2>2. /\ IsFiniteSet(0 .. n - 1)
        /\ Cardinality(0 .. n - 1) = IF 0 > n - 1 THEN 0 ELSE (n - 1) - 0 + 1
    BY <2>1, FS_Interval, Zenon
  <2>3. (IF 0 > n - 1 THEN 0 ELSE (n - 1) - 0 + 1) = n
    BY <1>1
  <2> QED
    BY <2>2, <2>3
<1>7. f \in Surjection(Load!Qualified, 0 .. n - 1)
  BY <1>1, <1>5, <1>6, FS_Injection
<1>8. \A i \in 0 .. n - 1 : \E t \in Load!Qualified : f[t] = i
  BY <1>7 DEF Surjection
<1> QED
  BY <1>1, <1>2, <1>4, <1>8

\* How many nodes are below a baseline.
BelowCount(baseline) == Cardinality(Load!Below(baseline))

\* The list is that of the qualified outbounds, none twice, the cheapest first:
\* those below a baseline are the first ones.
Sorted(s) ==
    /\ s \in Seq(Load!Qualified)
    /\ Len(s) = Cardinality(Load!Qualified)
    /\ \A i, j \in 1 .. Len(s) : s[i] = s[j] => i = j
    /\ \A t \in Load!Qualified : \E i \in 1 .. Len(s) : s[i] = t
    /\ \A i, j \in 1 .. Len(s) :
          i < j => status[s[i]].cost <= status[s[j]].cost
    /\ \A baseline \in Lines :
          /\ BelowCount(baseline) \in 0 .. Len(s)
          /\ \A i \in 1 .. Len(s) :
                status[s[i]].cost < baseline <=> i <= BelowCount(baseline)

\* What getNodes returns, place by place.
LEMMA NodesPlaced ==
    ASSUME LoadInputs, Load!LoadAssumption,
           NEW s, s = Load!getNodes, NEW n, n = Cardinality(Load!Qualified)
    PROVE  /\ n \in Nat /\ s \in Seq(Load!Qualified) /\ Len(s) = n
           /\ \A i \in 1 .. n : s[i] \in Load!Qualified /\ Load!Before(s[i]) = i - 1
           /\ \A t \in Load!Qualified : \E i \in 1 .. n : s[i] = t
<1>1. /\ n \in Nat
      /\ \A t \in Load!Qualified : Load!Before(t) \in 0 .. n - 1
      /\ \A i \in 0 .. n - 1 : \E t \in Load!Qualified : Load!Before(t) = i
  BY EveryPlace
<1>2. s = [i \in 1 .. n |-> CHOOSE t \in Load!Qualified : Load!Before(t) = i - 1]
  BY LoadCounts, Zenon DEF Load!getNodes
<1>3. ASSUME NEW i \in 1 .. n
      PROVE  s[i] \in Load!Qualified /\ Load!Before(s[i]) = i - 1
  <2>1. i - 1 \in 0 .. n - 1
    BY <1>1
  <2>2. \E t \in Load!Qualified : Load!Before(t) = i - 1
    BY <1>1, <2>1
  <2>3. s[i] = CHOOSE t \in Load!Qualified : Load!Before(t) = i - 1
    BY <1>2
  <2> QED
    BY <2>2, <2>3, Zenon
<1>4. s \in [1 .. n -> Load!Qualified]
  BY <1>2, <1>3
<1>5. s \in Seq(Load!Qualified) /\ Len(s) = n
  BY <1>1, <1>4
<1>6. ASSUME NEW t \in Load!Qualified
      PROVE  \E i \in 1 .. n : s[i] = t
  <2>1. PICK i \in 1 .. n : i = Load!Before(t) + 1
    BY <1>1
  <2>2. Load!Before(s[i]) = Load!Before(t) /\ s[i] \in Load!Qualified
    BY <1>1, <1>3, <2>1
  <2>3. s[i] \in Outbounds /\ t \in Outbounds
    BY <2>2 DEF Load!Qualified
  <2>4. Load!Before(t) \in Int
    BY <1>1
  <2>5. s[i] = t
    BY <2>2, <2>3, <2>4, LessOrder, BeforeGrows
  <2> QED
    BY <2>5
<1> QED
  BY <1>1, <1>3, <1>5, <1>6

\* The nodes below a baseline are counted by the place of the first that is not.
LEMMA BelowFirst ==
    ASSUME LoadInputs, Load!LoadAssumption, NEW baseline \in Lines,
           NEW t \in Load!Qualified
    PROVE  /\ BelowCount(baseline) \in 0 .. Cardinality(Load!Qualified)
           /\ status[t].cost < baseline <=>
                 Load!Before(t) + 1 <= BelowCount(baseline)
<1> DEFINE A == {u \in Load!Qualified : Load!Less(u, t)}
<1>1. baseline \in Nat /\ \A u \in Load!Qualified : u \in Outbounds
                                                   /\ status[u].cost \in Nat
  BY DEF Load!LoadAssumption, LoadInputs, Load!Observation, Load!Qualified
<1>2. Load!Before(t) = Cardinality(A)
  BY LoadCounts DEF Load!Before
<1>3. A \in SUBSET Load!Qualified /\ Load!Below(baseline) \in SUBSET Load!Qualified
  BY DEF Load!Below
<1>4. /\ IsFiniteSet(A) /\ Cardinality(A) \in Nat
      /\ IsFiniteSet(Load!Below(baseline)) /\ BelowCount(baseline) \in Nat
      /\ BelowCount(baseline) <= Cardinality(Load!Qualified)
      /\ Cardinality(Load!Qualified) \in Nat
  <2> HIDE DEF A
  <2> QED
    BY <1>3, QualifiedFinite, FS_Subset DEF BelowCount
<1>5. CASE status[t].cost < baseline
  <2>1. A \in SUBSET Load!Below(baseline) /\ t \in Load!Below(baseline) /\ t \notin A
    BY <1>1, <1>5, LessOrder DEF Load!Below
  <2> HIDE DEF A
  <2>2. Cardinality(A) <= BelowCount(baseline) /\ Cardinality(A) # BelowCount(baseline)
    BY <1>4, <2>1, FS_Subset DEF BelowCount
  <2> QED
    BY <1>2, <1>4, <1>5, <2>2
<1>6. CASE ~(status[t].cost < baseline)
  <2>1. Load!Below(baseline) \in SUBSET A
    BY <1>1, <1>6 DEF Load!Below, Load!Less
  <2> HIDE DEF A
  <2>2. BelowCount(baseline) <= Cardinality(A)
    BY <1>4, <2>1, FS_Subset DEF BelowCount
  <2> QED
    BY <1>2, <1>4, <1>6, <2>2
<1> QED
  BY <1>4, <1>5, <1>6

\* The sort.
LEMMA GetNodesSorts ==
    ASSUME LoadInputs, Load!LoadAssumption, NEW s, s = Load!getNodes
    PROVE  Sorted(s)
<1>1. PICK n : n = Cardinality(Load!Qualified)
  OBVIOUS
<1>2. /\ n \in Nat /\ s \in Seq(Load!Qualified) /\ Len(s) = n
      /\ \A i \in 1 .. n : /\ s[i] \in Load!Qualified
                           /\ Load!Before(s[i]) = i - 1
      /\ \A t \in Load!Qualified : \E i \in 1 .. n : s[i] = t
  BY <1>1, NodesPlaced
<1>3. ASSUME NEW i \in 1 .. n, NEW j \in 1 .. n, s[i] = s[j]
      PROVE  i = j
  BY <1>2, <1>3
<1>4. ASSUME NEW i \in 1 .. n, NEW j \in 1 .. n, i < j
      PROVE  status[s[i]].cost <= status[s[j]].cost
  <2>1. /\ s[i] \in Load!Qualified /\ s[j] \in Load!Qualified
        /\ ~(Load!Before(s[j]) < Load!Before(s[i]))
        /\ s[i] # s[j]
    BY <1>2, <1>3, <1>4
  <2>2. Load!Less(s[i], s[j])
    <3>1. s[i] \in Outbounds /\ s[j] \in Outbounds
      BY <2>1 DEF Load!Qualified
    <3> QED
      BY <2>1, <3>1, LessOrder, BeforeGrows
  <2> QED
    BY <2>1, <2>2, LessOrder DEF Load!Qualified
<1>5. ASSUME NEW baseline \in Lines
      PROVE  /\ BelowCount(baseline) \in 0 .. n
             /\ \A i \in 1 .. n :
                   status[s[i]].cost < baseline <=> i <= BelowCount(baseline)
  <2>1. BelowCount(baseline) \in 0 .. n
    <3>1. CASE Load!Qualified = {}
      <4>1. Load!Below(baseline) = {}
        BY <3>1 DEF Load!Below
      <4> QED
        BY <1>2, <4>1, FS_EmptySet DEF BelowCount
    <3>2. CASE Load!Qualified # {}
      BY <1>1, <3>2, BelowFirst
    <3> QED
      BY <3>1, <3>2
  <2>2. ASSUME NEW i \in 1 .. n
        PROVE  status[s[i]].cost < baseline <=> i <= BelowCount(baseline)
    <3>1. s[i] \in Load!Qualified /\ Load!Before(s[i]) + 1 = i
      BY <1>2
    <3> QED
      BY <3>1, BelowFirst
  <2> QED
    BY <2>1, <2>2
<1> QED
  BY <1>1, <1>2, <1>3, <1>4, <1>5 DEF Sorted

\* What the comment asks of a result: how many it has, and which.
CountFits(n) ==
    LET matching == {i \in 1 .. Len(settings.Baselines) :
                        BelowCount(settings.Baselines[i]) >= Load!Wanted}
        all == Cardinality(Load!Qualified)
        least == IF Load!Wanted < all THEN Load!Wanted ELSE all
    IN  n = IF settings.Baselines = <<>> THEN least
            ELSE IF matching = {} THEN IF settings.Expected > 0 THEN least ELSE 0
            ELSE LET i == CHOOSE j \in matching : \A k \in matching : j <= k
                 IN  BelowCount(settings.Baselines[i])

Cheapest(s) ==
    /\ \A i \in DOMAIN s : s[i] \in Load!Qualified
    /\ \A i, j \in DOMAIN s : s[i] = s[j] => i = j
    /\ \A i \in DOMAIN s, u \in Load!Qualified :
          (\A j \in DOMAIN s : s[j] # u) => status[s[i]].cost <= status[u].cost

\* No baseline before the last one gone through matched, and the last did if
\* the count is enough: then the count is its.
LinesGone ==
    /\ \A j \in 1 .. line : /\ BelowCount(settings.Baselines[j]) <= count
                            /\ BelowCount(settings.Baselines[j]) >= Load!Wanted
                                  => j = line
    /\ Load!Enough(count) => line > 0 /\ count = BelowCount(settings.Baselines[line])

InLoop == /\ Sorted(nodes) /\ nodes # <<>> /\ settings.Expected <= Len(nodes)
          /\ settings.Baselines # <<>>
          /\ line \in 0 .. Len(settings.Baselines) /\ count \in 0 .. Len(nodes)
          /\ LinesGone

LoadInv == /\ LoadInputs
           /\ stage \in {"called", "loop", "done"}
           /\ stage = "called" => count = 0 /\ line = 0
           /\ stage = "loop" => InLoop
           /\ stage = "done" => CountFits(Len(selects)) /\ Cheapest(selects)

\* The number of nodes wanted is at least one.
LEMMA WantedIs ==
    ASSUME LoadInputs
    PROVE  /\ Load!Wanted \in Nat \ {0}
           /\ settings.Expected > 0 => Load!Wanted = settings.Expected
           /\ settings.Expected <= 0 => Load!Wanted = 1
  BY DEF LoadInputs, Load!Wanted, Load!AtLeastOne

\* A prefix of the sorted list has the cheapest nodes.
LEMMA PrefixIsCheapest ==
    ASSUME LoadInputs, NEW all, Sorted(all), NEW k \in 0 .. Len(all),
           NEW s, s = SubSeq(all, 1, k)
    PROVE  Len(s) = k /\ Cheapest(s)
<1>1. all \in Seq(Load!Qualified) /\ Len(all) \in Nat
  BY DEF Sorted
<1>2. Len(s) = k /\ DOMAIN s = 1 .. k /\ \A i \in 1 .. k : s[i] = all[i]
  BY <1>1
<1>3. \A i \in 1 .. k : i \in 1 .. Len(all)
  BY <1>1
<1>4. \A i \in 1 .. k : s[i] \in Load!Qualified
  BY <1>1, <1>2, <1>3
<1>5. \A i, j \in 1 .. k : s[i] = s[j] => i = j
  BY <1>2, <1>3 DEF Sorted
<1>6. ASSUME NEW i \in 1 .. k, NEW u \in Load!Qualified,
             \A j \in 1 .. k : s[j] # u
      PROVE  status[s[i]].cost <= status[u].cost
  <2>1. PICK j \in 1 .. Len(all) : all[j] = u
    BY DEF Sorted
  <2>2. j \notin 1 .. k
    BY <1>2, <1>6, <2>1
  <2>3. i < j /\ i \in 1 .. Len(all)
    BY <1>1, <2>2
  <2> QED
    BY <1>2, <2>1, <2>3 DEF Sorted
<1> QED
  BY <1>2, <1>4, <1>5, <1>6 DEF Cheapest

\* The inputs stay: so does what is defined from them alone.
LEMMA InputsStay ==
    ASSUME UNCHANGED <<status, candidates, settings>>
    PROVE  /\ LoadInputs' <=> LoadInputs
           /\ \A n : CountFits(n)' <=> CountFits(n)
           /\ \A s : Cheapest(s)' <=> Cheapest(s)
           /\ \A b : BelowCount(b)' = BelowCount(b)
           /\ Load!Wanted' = Load!Wanted /\ Load!Qualified' = Load!Qualified
           /\ \A n : Load!Enough(n)' <=> Load!Enough(n)
<1>1. Load!Wanted' = Load!Wanted /\ Load!Qualified' = Load!Qualified
  BY DEF Load!Wanted, Load!AtLeastOne, Load!Qualified, Load!Qualifies
<1>2. \A b : BelowCount(b)' = BelowCount(b)
  BY <1>1 DEF BelowCount, Load!Below
<1>3. \A n : CountFits(n)' <=> CountFits(n)
  BY <1>1, <1>2 DEF CountFits
<1>4. \A s : Cheapest(s)' <=> Cheapest(s)
  BY <1>1 DEF Cheapest
<1>5. \A n : Load!Enough(n)' <=> Load!Enough(n)
  BY <1>1 DEF Load!Enough
<1>6. LoadInputs' <=> LoadInputs
  BY DEF LoadInputs, Load!Observation
<1> QED
  BY <1>1, <1>2, <1>3, <1>4, <1>5, <1>6

\* What is returned fits the comment.
LEMMA ReturnFits ==
    ASSUME LoadInputs, UNCHANGED <<status, candidates, settings, line, count>>,
           NEW s, Load!Return(s), CountFits(Len(s)), Cheapest(s)
    PROVE  LoadInv'
<1>1. stage' = "done" /\ selects' = s
  BY DEF Load!Return
<1>2. LoadInputs'
  BY InputsStay
<1>3. /\ Load!Wanted' = Load!Wanted /\ Load!Qualified' = Load!Qualified
      /\ \A b : BelowCount(b)' = BelowCount(b)
  BY InputsStay
<1>4. (CountFits(Len(selects)))'
  BY <1>1, <1>3 DEF CountFits
<1>5. (Cheapest(selects))'
  BY <1>1, <1>3 DEF Cheapest
<1> QED
  BY <1>1, <1>2, <1>4, <1>5 DEF LoadInv

\* Costs and baselines are numbers.
LEMMA LoadNumbers ==
    ASSUME LoadInputs, Load!LoadAssumption, Sorted(nodes)
    PROVE  /\ \A i \in 1 .. Len(nodes) : status[nodes[i]].cost \in Int
           /\ \A baseline \in Lines : baseline \in Int
<1>1. \A i \in 1 .. Len(nodes) : nodes[i] \in Outbounds
  BY DEF Sorted, Load!Qualified
<1>2. \A t \in Outbounds : status[t].cost \in Nat
  BY DEF LoadInputs, Load!Observation, Load!LoadAssumption
<1>3. Lines \subseteq Nat
  BY DEF Load!LoadAssumption
<1> QED
  BY <1>1, <1>2, <1>3

\* No baseline has more nodes below it than there are.
LEMMA BelowAtMost ==
    ASSUME LoadInputs, Load!LoadAssumption, NEW baseline \in Lines
    PROVE  BelowCount(baseline) \in 0 .. Cardinality(Load!Qualified)
<1>1. Load!Below(baseline) \in SUBSET Load!Qualified
  BY DEF Load!Below
<1>2. IsFiniteSet(Load!Qualified) /\ Cardinality(Load!Qualified) \in Nat
  BY QualifiedFinite
<1>3. /\ Cardinality(Load!Below(baseline)) \in Nat
      /\ Cardinality(Load!Below(baseline)) <= Cardinality(Load!Qualified)
  BY <1>1, <1>2, QualifiedFinite, FS_Subset
<1> QED
  BY <1>2, <1>3 DEF BelowCount

\* A sorted list stays one while the inputs stay.
LEMMA SortedStays ==
    ASSUME LoadInputs, Load!LoadAssumption, Sorted(nodes'),
           UNCHANGED <<status, candidates, settings>>
    PROVE  (Sorted(nodes))'
<1>1. /\ Load!Qualified' = Load!Qualified
      /\ \A b : BelowCount(b)' = BelowCount(b)
  BY InputsStay
<1> QED
  BY <1>1 DEF Sorted

\* Before the loop: no list, too short a list, or no baseline.
LEMMA PickKeeps ==
    ASSUME LoadInv, Load!LoadAssumption, Load!pickOutbounds
    PROVE  LoadInv'
<1>1. /\ LoadInputs /\ count = 0 /\ line = 0 /\ nodes' = Load!getNodes
      /\ UNCHANGED <<status, candidates, settings, count, line>>
  BY DEF LoadInv, Load!pickOutbounds
<1>2. PICK s, n : s = Load!getNodes /\ n = Cardinality(Load!Qualified)
  OBVIOUS
<1>3. /\ n \in Nat /\ s \in Seq(Load!Qualified) /\ Len(s) = n
  BY <1>1, <1>2, NodesPlaced
<1>4. /\ Load!Wanted \in Nat \ {0}
      /\ settings.Expected > 0 => Load!Wanted = settings.Expected
      /\ settings.Expected <= 0 => Load!Wanted = 1
      /\ settings.Expected \in Int
  BY <1>1, WantedIs DEF LoadInputs
<1>5. Sorted(s)
  BY <1>1, <1>2, GetNodesSorts
<1>6. \A k \in 0 .. n : Len(SubSeq(s, 1, k)) = k /\ Cheapest(SubSeq(s, 1, k))
  BY <1>1, <1>3, <1>5, PrefixIsCheapest
<1>7. CASE settings.Expected > n \/ s = <<>>
  <2>1. Load!Return(s)
    BY <1>1, <1>2, <1>3, <1>7 DEF Load!pickOutbounds
  <2>2. SubSeq(s, 1, n) = s /\ n \in 0 .. n
    BY <1>3, SubSeqFull
  <2>3. n < Load!Wanted \/ n = 0
    BY <1>3, <1>4, <1>7
  <2>4. \A i \in 1 .. Len(settings.Baselines) :
           ~(BelowCount(settings.Baselines[i]) >= Load!Wanted)
    <3> SUFFICES ASSUME NEW i \in 1 .. Len(settings.Baselines)
                 PROVE  ~(BelowCount(settings.Baselines[i]) >= Load!Wanted)
      OBVIOUS
    <3>1. settings.Baselines[i] \in Lines
      BY <1>1 DEF LoadInputs
    <3>2. BelowCount(settings.Baselines[i]) \in 0 .. n
      BY <1>1, <1>2, <3>1, BelowAtMost
    <3> QED
      BY <1>3, <1>4, <2>3, <3>2
  <2>5. settings.Expected <= 0 => n = 0
    <3>1. s = <<>> => n = 0
      BY <1>3
    <3>2. settings.Expected <= 0 => ~(settings.Expected > n)
      BY <1>3, <1>4
    <3> QED
      BY <1>7, <3>1, <3>2
  <2>6. CountFits(n)
    BY <1>2, <1>3, <1>4, <2>3, <2>4, <2>5 DEF CountFits
  <2> QED
    BY <1>1, <1>3, <1>6, <2>1, <2>2, <2>6, ReturnFits
<1>8. CASE ~(settings.Expected > n \/ s = <<>>) /\ settings.Baselines = <<>>
  <2>1. Load!Return(SubSeq(s, 1, Load!Wanted))
    <3>1. ~(settings.Expected > Len(nodes') \/ nodes' = <<>>)
      BY <1>1, <1>2, <1>3, <1>8
    <3>2. Load!Return(SubSeq(nodes', 1, Load!Wanted))
      BY <1>8, <3>1, Zenon DEF Load!pickOutbounds
    <3> QED
      BY <1>1, <1>2, <3>2
  <2>2. Load!Wanted \in 0 .. n
    BY <1>3, <1>4, <1>8
  <2>3. CountFits(Load!Wanted)
    BY <1>2, <1>3, <1>4, <1>8, <2>2 DEF CountFits
  <2>4. /\ Len(SubSeq(s, 1, Load!Wanted)) = Load!Wanted
        /\ Cheapest(SubSeq(s, 1, Load!Wanted))
    BY <1>6, <2>2
  <2> QED
    BY <1>1, <2>1, <2>3, <2>4, ReturnFits
<1>9. CASE ~(settings.Expected > n \/ s = <<>>) /\ settings.Baselines # <<>>
  <2>1. stage' = "loop" /\ selects' = selects
    BY <1>1, <1>2, <1>3, <1>9 DEF Load!pickOutbounds
  <2>2. LoadInputs'
    BY <1>1, InputsStay
  <2>3. LinesGone'
    <3>1. Load!Enough(0) = FALSE
      BY <1>4 DEF Load!Enough
    <3>2. (~Load!Enough(count))'
      BY <1>1, <1>4, InputsStay DEF Load!Enough
    <3> QED
      BY <1>1, <3>2 DEF LinesGone
  <2>4. /\ nodes' # <<>> /\ settings'.Expected <= Len(nodes')
        /\ settings'.Baselines # <<>> /\ line' = 0 /\ count' = 0
        /\ Len(settings'.Baselines) \in Nat /\ Len(nodes') \in Nat
    BY <1>1, <1>2, <1>3, <1>4, <1>9 DEF LoadInputs
  <2>5. InLoop'
    <3>1. (Sorted(nodes))'
      BY <1>1, <1>2, <1>5, SortedStays
    <3> QED
      BY <2>3, <2>4, <3>1 DEF InLoop
  <2> QED
    BY <2>1, <2>2, <2>5 DEF LoadInv
<1> QED
  BY <1>7, <1>8, <1>9

\* One baseline: the count becomes that of the nodes below it, if they are more.
LEMMA ExtendedIs ==
    ASSUME LoadInputs, Load!LoadAssumption, InLoop, NEW baseline \in Lines
    PROVE  /\ Load!Extended(baseline) \in count .. Len(nodes)
           /\ Load!Extended(baseline) = IF BelowCount(baseline) > count
                                        THEN BelowCount(baseline) ELSE count
<1> DEFINE stop == IF BelowCount(baseline) > count THEN BelowCount(baseline) ELSE count
           Good(n) == /\ \A i \in count + 1 .. n : status[nodes[i]].cost < baseline
                      /\ n < Len(nodes) => status[nodes[n + 1]].cost >= baseline
<1>1. /\ count \in 0 .. Len(nodes) /\ Len(nodes) \in Nat
      /\ BelowCount(baseline) \in 0 .. Len(nodes)
      /\ \A i \in 1 .. Len(nodes) :
            status[nodes[i]].cost < baseline <=> i <= BelowCount(baseline)
  BY DEF InLoop, Sorted
<1>2. \A i \in 1 .. Len(nodes) : status[nodes[i]].cost \in Int /\ baseline \in Int
  BY LoadNumbers DEF InLoop
<1>3. stop \in count .. Len(nodes) /\ Good(stop)
  <2>1. stop \in count .. Len(nodes)
    BY <1>1
  <2>2. \A i \in count + 1 .. stop : i \in 1 .. Len(nodes) /\ i <= BelowCount(baseline)
    BY <1>1
  <2>3. stop < Len(nodes) => /\ stop + 1 \in 1 .. Len(nodes)
                             /\ ~(stop + 1 <= BelowCount(baseline))
    BY <1>1
  <2>4. stop < Len(nodes) => status[nodes[stop + 1]].cost >= baseline
    BY <1>1, <1>2, <2>3
  <2>5. \A i \in count + 1 .. stop : status[nodes[i]].cost < baseline
    BY <1>1, <2>2
  <2> QED
    BY <2>1, <2>4, <2>5
<1>4. ASSUME NEW n \in count .. Len(nodes), Good(n)
      PROVE  n = stop
  <2>1. CASE n < stop
    <3>1. /\ n + 1 \in 1 .. Len(nodes) /\ n + 1 <= BelowCount(baseline)
          /\ n < Len(nodes)
      BY <1>1, <2>1
    <3>2. /\ status[nodes[n + 1]].cost < baseline
          /\ status[nodes[n + 1]].cost >= baseline
      BY <1>1, <1>4, <3>1
    <3> QED
      BY <1>2, <3>1, <3>2
  <2>2. CASE n > stop
    <3>1. n \in count + 1 .. n /\ n \in 1 .. Len(nodes) /\ ~(n <= BelowCount(baseline))
      BY <1>1, <2>2
    <3>2. status[nodes[n]].cost < baseline
      BY <1>4, <3>1
    <3> QED
      BY <1>1, <3>1, <3>2
  <2> QED
    BY <1>1, <2>1, <2>2
<1>5. Load!Extended(baseline) = CHOOSE n \in count .. Len(nodes) : Good(n)
  BY DEF Load!Extended
<1> HIDE DEF Good
<1>6. (CHOOSE n \in count .. Len(nodes) : Good(n)) = stop
  BY <1>3, <1>4, Zenon
<1> QED
  BY <1>3, <1>5, <1>6

\* The baselines gone through are a prefix; the next one is a number.
LEMMA NextLine ==
    ASSUME LoadInputs, Load!LoadAssumption, InLoop,
           line < Len(settings.Baselines)
    PROVE  /\ settings.Baselines[line + 1] \in Lines
           /\ line + 1 \in 1 .. Len(settings.Baselines)
           /\ BelowCount(settings.Baselines[line + 1]) \in 0 .. Len(nodes)
<1>1. settings.Baselines \in Seq(Lines) /\ line \in 0 .. Len(settings.Baselines)
  BY DEF LoadInputs, InLoop
<1>2. line + 1 \in 1 .. Len(settings.Baselines)
  BY <1>1
<1>3. settings.Baselines[line + 1] \in Lines
  BY <1>1, <1>2
<1>4. BelowCount(settings.Baselines[line + 1]) \in 0 .. Len(nodes)
  BY <1>3 DEF InLoop, Sorted
<1> QED
  BY <1>2, <1>3, <1>4

\* A turn of the loop.
LEMMA BaselineKeeps ==
    ASSUME LoadInv, Load!LoadAssumption, Load!Baseline
    PROVE  LoadInv'
<1>1. /\ LoadInputs /\ InLoop /\ stage = "loop" /\ stage' = "loop"
      /\ line < Len(settings.Baselines) /\ ~Load!Enough(count)
      /\ line' = line + 1 /\ count' = Load!Extended(settings.Baselines[line'])
      /\ UNCHANGED <<status, candidates, settings, nodes>>
  BY DEF LoadInv, Load!Baseline
<1>2. PICK m : m = line + 1
  OBVIOUS
<1>3. PICK b : b = BelowCount(settings.Baselines[m])
  OBVIOUS
<1>4. /\ settings.Baselines[m] \in Lines /\ m \in 1 .. Len(settings.Baselines)
      /\ b \in 0 .. Len(nodes)
  BY <1>1, <1>2, <1>3, NextLine
<1>5. /\ count' \in count .. Len(nodes)
      /\ count' = IF b > count THEN b ELSE count
  <2>1. count' = Load!Extended(settings.Baselines[m])
    BY <1>1, <1>2
  <2>2. Load!Extended(settings.Baselines[m])
           = IF BelowCount(settings.Baselines[m]) > count
             THEN BelowCount(settings.Baselines[m]) ELSE count
    BY <1>1, <1>4, ExtendedIs
  <2>3. count' = IF b > count THEN b ELSE count
    BY <1>3, <2>1, <2>2
  <2>4. count \in 0 .. Len(nodes) /\ Len(nodes) \in Nat
    BY <1>1 DEF InLoop, Sorted
  <2> QED
    BY <1>4, <2>3, <2>4
<1>6. /\ line \in 0 .. Len(settings.Baselines) /\ count \in 0 .. Len(nodes)
      /\ Len(nodes) \in Nat /\ LinesGone /\ Sorted(nodes)
  BY <1>1 DEF InLoop, Sorted
<1>7. Load!Wanted \in Nat \ {0} /\ count < Load!Wanted
  BY <1>1, <1>6, WantedIs DEF Load!Enough
<1>8. ASSUME NEW j \in 1 .. m
      PROVE  /\ BelowCount(settings.Baselines[j]) <= count'
             /\ BelowCount(settings.Baselines[j]) >= Load!Wanted => j = m
  <2>1. CASE j = m
    BY <1>3, <1>4, <1>5, <1>6, <2>1
  <2>2. CASE j # m
    <3>1. j \in 1 .. line
      BY <1>2, <1>6, <2>2
    <3>2. j \in 1 .. Len(settings.Baselines)
      BY <1>4
    <3>3. settings.Baselines[j] \in Lines
      BY <1>1, <3>2 DEF LoadInputs
    <3>4. BelowCount(settings.Baselines[j]) \in 0 .. Len(nodes)
      BY <1>6, <3>3 DEF Sorted
    <3>5. BelowCount(settings.Baselines[j]) <= count
      BY <1>6, <3>1 DEF LinesGone
    <3> QED
      BY <1>5, <1>6, <1>7, <3>4, <3>5
  <2> QED
    BY <2>1, <2>2
<1>9. count' >= Load!Wanted => count' = b
  BY <1>4, <1>5, <1>6, <1>7
<1>10. LinesGone'
  <2>1. /\ Load!Wanted' = Load!Wanted
        /\ \A x : BelowCount(x)' = BelowCount(x)
        /\ \A n : Load!Enough(n)' <=> Load!Enough(n)
    BY <1>1, InputsStay
  <2>2. \A j \in 1 .. m : BelowCount(settings.Baselines[j])' = BelowCount(settings.Baselines[j])
    BY <1>1, <2>1
  <2>3. line' = m /\ settings' = settings /\ m > 0
    BY <1>1, <1>2, <1>4
  <2>4. (Load!Enough(count))' => count' = (BelowCount(settings.Baselines[line]))'
    BY <1>3, <1>9, <2>1, <2>3 DEF Load!Enough
  <2>5. \A j \in 1 .. line' : /\ (BelowCount(settings.Baselines[j]))' <= count'
                              /\ (BelowCount(settings.Baselines[j]))' >= Load!Wanted'
                                    => j = line'
    BY <1>8, <2>1, <2>3
  <2> QED
    BY <2>3, <2>4, <2>5 DEF LinesGone
<1>11. (Sorted(nodes))'
  <2>1. Sorted(nodes')
    BY <1>1, <1>6
  <2> QED
    BY <1>1, <2>1, SortedStays
<1>12. InLoop'
  BY <1>1, <1>2, <1>4, <1>5, <1>6, <1>10, <1>11 DEF InLoop
<1> QED
  BY <1>1, <1>12, InputsStay DEF LoadInv

\* After the loop: the first baseline that matches is the last gone through, or
\* none matches.
LEMMA CutFits ==
    ASSUME LoadInputs, Load!LoadAssumption, InLoop,
           line = Len(settings.Baselines) \/ Load!Enough(count),
           NEW k, k = IF settings.Expected > 0 /\ count < Load!Wanted
                      THEN Load!Wanted ELSE count
    PROVE  k \in 0 .. Len(nodes) /\ CountFits(k)
<1>1. /\ line \in 0 .. Len(settings.Baselines) /\ count \in 0 .. Len(nodes)
      /\ Len(nodes) = Cardinality(Load!Qualified) /\ Len(nodes) \in Nat \ {0}
      /\ settings.Expected <= Len(nodes) /\ settings.Baselines # <<>>
      /\ Len(settings.Baselines) \in Nat
  BY DEF InLoop, Sorted, LoadInputs
<1>2. /\ Load!Wanted \in Nat \ {0} /\ settings.Expected \in Int
      /\ settings.Expected > 0 => Load!Wanted = settings.Expected
      /\ settings.Expected <= 0 => Load!Wanted = 1
  BY WantedIs DEF LoadInputs
<1>3. Load!Wanted <= Len(nodes)
  BY <1>1, <1>2
<1>4. k \in 0 .. Len(nodes)
  BY <1>1, <1>2, <1>3
<1>5. ASSUME NEW j \in 1 .. Len(settings.Baselines)
      PROVE  BelowCount(settings.Baselines[j]) \in 0 .. Len(nodes)
  <2>1. settings.Baselines[j] \in Lines
    BY DEF LoadInputs
  <2> QED
    BY <2>1 DEF InLoop, Sorted
<1> DEFINE matching == {i \in 1 .. Len(settings.Baselines) :
                           BelowCount(settings.Baselines[i]) >= Load!Wanted}
<1>6. CASE Load!Enough(count)
  <2>1. line \in 1 .. Len(settings.Baselines)
        /\ count = BelowCount(settings.Baselines[line]) /\ count >= Load!Wanted
    BY <1>1, <1>6 DEF InLoop, LinesGone, Load!Enough
  <2>2. line \in matching
    BY <2>1
  <2>3. ASSUME NEW j \in matching
        PROVE  line <= j /\ (j <= line => j = line)
    <3>1. j \in 1 .. Len(settings.Baselines)
      OBVIOUS
    <3>2. j \in 1 .. line => j = line
      BY DEF InLoop, LinesGone
    <3> QED
      BY <1>1, <3>1, <3>2
  <2> HIDE DEF matching
  <2>4. (CHOOSE j \in matching : \A i \in matching : j <= i) = line
    BY <2>2, <2>3
  <2>5. k = count
    BY <1>1, <1>2, <2>1
  <2>6. matching # {} /\ count = BelowCount(settings.Baselines[
                             CHOOSE j \in matching : \A i \in matching : j <= i])
    BY <2>1, <2>2, <2>4
  <2>7. CountFits(k)
    BY <1>1, <2>5, <2>6, Zenon DEF CountFits, matching
  <2> QED
    BY <1>4, <2>7
<1>7. CASE ~Load!Enough(count)
  <2>1. line = Len(settings.Baselines) /\ count < Load!Wanted
    BY <1>1, <1>2, <1>7 DEF Load!Enough
  <2>2. matching = {}
    <3> SUFFICES ASSUME NEW j \in 1 .. Len(settings.Baselines)
                 PROVE  ~(BelowCount(settings.Baselines[j]) >= Load!Wanted)
      OBVIOUS
    <3>1. BelowCount(settings.Baselines[j]) <= count
      BY <2>1 DEF InLoop, LinesGone
    <3> QED
      BY <1>1, <1>2, <1>5, <2>1, <3>1
  <2>3. k = IF settings.Expected > 0 THEN Load!Wanted ELSE 0
    BY <1>1, <1>2, <2>1
  <2>4. k = IF settings.Expected > 0
            THEN IF Load!Wanted < Cardinality(Load!Qualified) THEN Load!Wanted
                 ELSE Cardinality(Load!Qualified)
            ELSE 0
    BY <1>1, <1>2, <1>3, <2>3
  <2> HIDE DEF matching
  <2>5. CountFits(k)
    BY <1>1, <2>2, <2>4, Zenon DEF CountFits, matching
  <2> QED
    BY <1>4, <2>5
<1> QED
  BY <1>6, <1>7

\* The end of the loop.
LEMMA CutKeeps ==
    ASSUME LoadInv, Load!LoadAssumption, Load!Cut
    PROVE  LoadInv'
<1>1. PICK k : k = IF settings.Expected > 0 /\ count < Load!Wanted
                   THEN Load!Wanted ELSE count
  OBVIOUS
<1>2. /\ LoadInputs /\ InLoop
      /\ line = Len(settings.Baselines) \/ Load!Enough(count)
      /\ UNCHANGED <<status, candidates, settings, line, count>>
  BY DEF LoadInv, Load!Cut
<1>3. PICK s : s = SubSeq(nodes, 1, k)
  OBVIOUS
<1>4. Load!Return(s)
  BY <1>1, <1>3, Zenon DEF Load!Cut
<1>5. k \in 0 .. Len(nodes) /\ CountFits(k)
  BY <1>1, <1>2, CutFits
<1>6. Len(s) = k /\ Cheapest(s)
  BY <1>2, <1>3, <1>5, PrefixIsCheapest DEF InLoop
<1>7. CountFits(Len(s))
  BY <1>5, <1>6
<1> QED
  BY <1>2, <1>4, <1>6, <1>7, ReturnFits

\* A call gets its inputs from the configuration.
LEMMA LoadInit ==
    ASSUME Load!LoadAssumption, Load!Init
    PROVE  LoadInv
<1>1. /\ status \in [Outbounds -> Load!Observation] /\ candidates \subseteq Outbounds
      /\ settings \in Load!Settings /\ stage = "called" /\ count = 0 /\ line = 0
  BY DEF Load!Init
<1>2. settings.Expected \in Int
  BY <1>1 DEF Load!Settings, Load!LoadAssumption
<1>3. settings.Baselines \in Seq(Lines)
  <2>1. settings.Baselines \in UNION {[1 .. n -> Lines] : n \in 0 .. MaxLines}
    BY <1>1 DEF Load!Settings
  <2>2. PICK n \in 0 .. MaxLines : settings.Baselines \in [1 .. n -> Lines]
    BY <2>1
  <2>3. n \in Nat
    BY <2>2 DEF Load!LoadAssumption
  <2> QED
    BY <2>2, <2>3
<1> QED
  BY <1>1, <1>2, <1>3 DEF LoadInv, LoadInputs

\* Nothing happens.
LEMMA UnchangedLoad ==
    ASSUME LoadInv, Load!LoadAssumption, UNCHANGED Load!vars
    PROVE  LoadInv'
<1>1. UNCHANGED <<status, candidates, settings, stage, nodes, count, line, selects>>
  BY DEF Load!vars
<1>2. LoadInputs'
  BY <1>1, InputsStay DEF LoadInv
<1>3. stage = "loop" => InLoop'
  <2> SUFFICES ASSUME stage = "loop" PROVE InLoop'
    OBVIOUS
  <2>1. InLoop /\ LoadInputs
    BY DEF LoadInv
  <2>2. (Sorted(nodes))'
    BY <1>1, <2>1, SortedStays DEF InLoop
  <2>3. /\ Load!Wanted' = Load!Wanted
        /\ \A x : BelowCount(x)' = BelowCount(x)
        /\ \A n : Load!Enough(n)' <=> Load!Enough(n)
    BY <1>1, InputsStay
  <2>4. (Load!Enough(count))' <=> Load!Enough(count)
    BY <1>1, <2>3 DEF Load!Enough
  <2>5. LinesGone'
    BY <1>1, <2>1, <2>3, <2>4 DEF InLoop, LinesGone
  <2> QED
    BY <1>1, <2>1, <2>2, <2>5 DEF InLoop
<1>4. stage = "done" => (CountFits(Len(selects)))' /\ (Cheapest(selects))'
  <2>1. Load!Wanted' = Load!Wanted /\ Load!Qualified' = Load!Qualified
        /\ \A x : BelowCount(x)' = BelowCount(x)
    BY <1>1, InputsStay
  <2> QED
    BY <1>1, <2>1 DEF LoadInv, CountFits, Cheapest
<1> QED
  BY <1>1, <1>2, <1>3, <1>4 DEF LoadInv

\* The least-load selection: as many outbounds as the comment above
\* selectLeastLoad documents for its three modes, and none that is dearer than
\* one that is left out.
THEOREM SelectionDocumented ==
    ASSUME Load!LoadAssumption
    PROVE  Load!Spec => [](Load!SelectsAsDocumented /\ SelectsAsDocumented)
<1>1. Load!Init => LoadInv
  BY LoadInit
<1>2. LoadInv /\ [Load!Next]_(Load!vars) => LoadInv'
  <2> SUFFICES ASSUME LoadInv, [Load!Next]_(Load!vars)
               PROVE  LoadInv'
    OBVIOUS
  <2>1. CASE Load!pickOutbounds
    BY <2>1, PickKeeps
  <2>2. CASE Load!Baseline
    BY <2>2, BaselineKeeps
  <2>3. CASE Load!Cut
    BY <2>3, CutKeeps
  <2>4. CASE UNCHANGED Load!vars
    BY <2>4, UnchangedLoad
  <2> QED
    BY <2>1, <2>2, <2>3, <2>4 DEF Load!Next
<1>3. LoadInv => Load!SelectsAsDocumented /\ SelectsAsDocumented
  <2> SUFFICES ASSUME LoadInv, Load!Picked
               PROVE  Load!SelectsAsDocumented
    BY DEF Load!SelectsAsDocumented, Load!CountAsDocumented, Load!CheapestPicked,
           SelectsAsDocumented
  <2>1. CountFits(Len(selects)) /\ Cheapest(selects)
    BY DEF LoadInv, Load!Picked
  <2>2. Load!CountAsDocumented
    BY <2>1, LoadCounts, Zenon DEF CountFits, BelowCount, Load!CountAsDocumented
  <2>3. Load!CheapestPicked
    BY <2>1 DEF Cheapest, Load!CheapestPicked, Load!ToSet, Load!IsInjective
  <2> QED
    BY <2>2, <2>3 DEF Load!SelectsAsDocumented
<1> QED
  BY <1>1, <1>2, <1>3, PTL DEF Load!Spec

=============================================================================
