---------------------------- MODULE CoreInstance ----------------------------
(***************************************************************************)
(* How an Xray instance is put together, started and closed (core/xray.go). *)
(*                                                                          *)
(* The apps of the configuration are created one after the other, in        *)
(* whatever order the configuration has, and each is then added as a        *)
(* feature.  Creating one registers callbacks that want other features: a   *)
(* callback is called at once when they are all there, or by the AddFeature *)
(* that completes them.  Essential features are added when no app provides  *)
(* them; after that no required callback may be pending.                    *)
(***************************************************************************)
EXTENDS Integers, Sequences, FiniteSets, SequencesExt

CONSTANTS
    Types,       \* types of features
    Essential,   \* the types initInstanceWithConfig adds by itself
    MaxDeps,     \* bound: features an app wants
    MaxErrors,   \* bound: callbacks that fail
    NoOne

TypesAssumption ==
    /\ Essential \subseteq Types /\ NoOne \notin Types
    /\ {MaxDeps, MaxErrors} \subseteq Nat

VARIABLES
    phase,            \* of initInstanceWithConfig, then of the instance
    config,           \* config[t][kind]: what the app of type t wants
    todo,             \* apps not created yet
    adding,           \* the app between its creation and its AddFeature
    features,         \* server.features, by type
    pending,          \* pendingResolutions and pendingOptionalResolutions:
                      \* pending[kind], apps whose callback waits
    called,           \* callbacks, in the order they were called
    erred,            \* callbacks that returned an error
    live              \* features that are started

vars == <<phase, config, todo, adding, features, pending, called, erred, live>>

Kinds == {"required", "optional"}
Wants == {w \in [Kinds -> SUBSET Types] :
             Cardinality(w["required"]) + Cardinality(w["optional"]) <= MaxDeps}

\* An empty set of wanted features: the app registers no such callback.
Init ==
    /\ phase = "apps"
    /\ todo \in SUBSET Types
    /\ config \in [todo -> Wants]
    /\ adding = NoOne
    /\ features = <<>> /\ called = <<>>
    /\ pending = [kind \in Kinds |-> <<>>]
    /\ erred = {} /\ live = {}

-----------------------------------------------------------------------------
Registered == ToSet(features)
FoundAll(t, kind, have) == config[t][kind] \subseteq have

Fail == phase' = "failed"

\* RequireFeatures, called by New of the app: the error of a callback that is
\* called at once is the error of the creation.
Require(t, kind) ==
    IF config[t][kind] # {} /\ FoundAll(t, kind, Registered)
    THEN << <<t, kind>> >> ELSE <<>>
Waiting(t, kind) ==
    IF config[t][kind] # {} /\ ~FoundAll(t, kind, Registered)
    THEN Append(pending[kind], t) ELSE pending[kind]

CreateObject(t) ==
    /\ phase = "apps" /\ adding = NoOne /\ t \in todo
    /\ todo' = todo \ {t}
    /\ pending' = [kind \in Kinds |-> Waiting(t, kind)]
    /\ \/ /\ called' = called \o Require(t, "required") \o Require(t, "optional")
          /\ adding' = t
          /\ UNCHANGED <<phase, erred>>
       \/ \E kind \in Kinds :
             /\ Require(t, kind) # <<>> /\ Cardinality(erred) < MaxErrors
             /\ called' = called \o (IF kind = "optional" THEN Require(t, "required")
                                     ELSE <<>>) \o Require(t, kind)
             /\ erred' = erred \cup {<<t, kind>>}
             /\ Fail /\ UNCHANGED adding
    /\ UNCHANGED <<config, features, live>>

\* The entries of a list at the places I, in their order.
Place(I, n) == CHOOSE i \in I : Cardinality({j \in I : j < i}) = n - 1
At(list, I) == [n \in 1 .. Cardinality(I) |-> list[Place(I, n)]]

\* AddFeature: the callbacks that t completes are called, those of the
\* required list first; of their errors only the last one's counts.
Ready(kind, have) ==
    {i \in DOMAIN pending[kind] : FoundAll(pending[kind][i], kind, have)}
Completed(kind, have) == At(pending[kind], Ready(kind, have))
StillPending(kind, have) ==
    At(pending[kind], DOMAIN pending[kind] \ Ready(kind, have))
CallbacksOf(kind, have) ==
    [i \in 1 .. Len(Completed(kind, have)) |-> <<Completed(kind, have)[i], kind>>]
Available(have) == CallbacksOf("required", have) \o CallbacksOf("optional", have)

AddFeature(t, next) ==
    LET have == Registered \cup {t}
        ready == Available(have)
    IN  /\ features' = Append(features, t)
        /\ pending' = [kind \in Kinds |-> StillPending(kind, have)]
        /\ called' = called \o ready
        /\ \E errs \in SUBSET ToSet(ready) :
              /\ erred' = erred \cup errs /\ Cardinality(erred') <= MaxErrors
              /\ IF ready # <<>> /\ Last(ready) \in errs THEN Fail
                                                         ELSE phase' = next
        /\ UNCHANGED <<config, todo, live>>

AddApp == adding # NoOne /\ AddFeature(adding, "apps") /\ adding' = NoOne

AddEssential ==
    /\ phase \in {"apps", "essential"} /\ todo = {} /\ adding = NoOne
    /\ \E t \in Essential \ Registered : AddFeature(t, "essential")
    /\ UNCHANGED adding

ResolvedBoth == \A kind \in Kinds : pending[kind] = <<>>
Resolved == pending["required"] = <<>>

\* "not all dependencies are resolved."
CheckPending ==
    /\ phase \in {"apps", "essential"} /\ todo = {} /\ adding = NoOne
    /\ Essential \subseteq Registered
    /\ IF Resolved THEN phase' = "ready" ELSE Fail
    /\ UNCHANGED <<config, todo, adding, features, pending, called, erred, live>>

-----------------------------------------------------------------------------
\* The features are started in order; one that fails ends Start.
Start ==
    /\ phase = "ready"
    /\ \E n \in 0 .. Len(features) :
          /\ live' = ToSet(SubSeq(features, 1, n))
          /\ phase' = IF n = Len(features) THEN "started" ELSE "broken"
    /\ UNCHANGED <<config, todo, adding, features, pending, called, erred>>

Close ==
    /\ phase \in {"ready", "started", "broken"}
    /\ phase' = "closed"
    /\ live' = live \ Registered
    /\ UNCHANGED <<config, todo, adding, features, pending, called, erred>>

Next == \/ \E t \in Types : CreateObject(t)
        \/ AddApp \/ AddEssential \/ CheckPending \/ Start \/ Close

Spec == Init /\ [][Next]_vars

-----------------------------------------------------------------------------
Apps == DOMAIN config
Created == Apps \ todo

\* A callback is called once, and all its features are registered by then:
\* an app may use what it asked for (callbackResolution panics otherwise).
CalledWhenReady ==
    /\ IsInjective(called)
    /\ \A i \in DOMAIN called :
          config[called[i][1]][called[i][2]] \subseteq Registered

\* "RequireFeatures registers a callback, which will be called when all
\* dependent features are registered": none is forgotten, the optional ones
\* included, in whatever order the features arrive.
NoneForgotten ==
    phase # "failed" =>
        \A t \in Created, kind \in Kinds :
            (config[t][kind] # {} /\ config[t][kind] \subseteq Registered)
                => <<t, kind>> \in ToSet(called)

\* The order of the apps in the configuration does not decide whether the
\* instance comes up: it does when every required feature is configured or
\* essential, and no callback fails.
OrderIrrelevant ==
    LET provided == Apps \cup Essential
        complete == \A t \in Apps : config[t]["required"] \subseteq provided
    IN  /\ phase \in {"ready", "started", "broken", "closed"} => complete
        /\ (phase = "failed" /\ erred = {}) => ~complete

=============================================================================
