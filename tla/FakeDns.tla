------------------------------- MODULE FakeDns -------------------------------
(***************************************************************************)
(* A pool of fake addresses (app/dns/fakedns/fake.go) over an LRU cache     *)
(* with an index in each direction (common/cache/lru.go).  A lookup of a    *)
(* domain hands out an address of the pool; a connection to that address is *)
(* turned back into the domain.                                             *)
(*                                                                          *)
(* Addresses are offsets into the pool.  The clock picks where the search   *)
(* for a free address begins, so any offset may.  `recent' is history: the  *)
(* domains in the order of their last use, with the address last given.     *)
(***************************************************************************)
EXTENDS Integers, Sequences, FiniteSets, SequencesExt

CONSTANTS
    Domains,
    None,
    rooms,    \* bits of the pool's host part
    LruSizes  \* configured sizes that are tried

\* Addresses of the pool; that a power of two is a positive number is said
\* here because the provers do not know `^'.
PoolSize == 2 ^ rooms

PoolAssumption == /\ rooms \in Nat /\ PoolSize \in Nat \ {0}
                  /\ LruSizes \subseteq Nat \ {0}
                  /\ None \notin [key : Domains, value : 0 .. PoolSize - 1]

VARIABLES
    lruSize,         \* capacity, 0: Start refused the configuration
    list,            \* doubleLinkedlist: [key, value], most recent first
    keyToElement,    \* domain -> element
    valueToElement,  \* address -> element
    recent

vars == <<lruSize, list, keyToElement, valueToElement, recent>>

Pool == 0 .. PoolSize - 1
Element == [key : Domains, value : Pool]

\* initialize: log2(lruSize) >= rooms is refused.
Accepts(size) == size < PoolSize

Init ==
    /\ \E size \in LruSizes : lruSize = IF Accepts(size) THEN size ELSE 0
    /\ list = <<>>
    /\ keyToElement = [d \in Domains |-> None]
    /\ valueToElement = [a \in Pool |-> None]
    /\ recent = <<>>

-----------------------------------------------------------------------------
(* The cache *)
Holds(s, d) == \E i \in 1 .. Len(s) : s[i].key = d
Place(s, d) == CHOOSE i \in 1 .. Len(s) : s[i].key = d
Without(s, d) == IF Holds(s, d) THEN RemoveAt(s, Place(s, d)) ELSE s
ToFront(s, e) == <<e>> \o Without(s, e.key)

MoveToFrontNot(e) == list
MoveToFront(e) == ToFront(list, e)

Overflows(s) == Len(s) > lruSize

Delete(m, k) == [m EXCEPT ![k] = None]
\* Put of a key that is not there; the oldest element goes when it is full.
Put(e) ==
    LET front == <<e>> \o list
        keys == [keyToElement EXCEPT ![e.key] = e]
        values == [valueToElement EXCEPT ![e.value] = e]
        back == Last(front)
    IN  IF Overflows(front)
        THEN /\ list' = Front(front)
             /\ keyToElement' = Delete(keys, back.key)
             /\ valueToElement' = Delete(values, back.value)
        ELSE list' = front /\ keyToElement' = keys /\ valueToElement' = values

-----------------------------------------------------------------------------
(* The holder *)
Started == lruSize # 0

\* The first address from `start' on, around the end of the pool, that has
\* no domain.
Free(start, a) ==
    /\ valueToElement[a] = None
    /\ \A n \in Pool :
          LET b == (start + n) % PoolSize
          IN  (\A m \in 0 .. n : (start + m) % PoolSize # a)
                => valueToElement[b] # None

GetFakeIPForDomain(d) ==
    /\ Started
    /\ \/ /\ keyToElement[d] # None
          /\ list' = MoveToFront(keyToElement[d])
          /\ recent' = ToFront(recent, keyToElement[d])
          /\ UNCHANGED <<keyToElement, valueToElement>>
       \/ /\ keyToElement[d] = None
          /\ \E start, a \in Pool :
                /\ Free(start, a)
                /\ Put([key |-> d, value |-> a])
                /\ recent' = ToFront(recent, [key |-> d, value |-> a])
    /\ UNCHANGED lruSize

GetDomainFromFakeDNS(a) ==
    /\ Started
    /\ valueToElement[a] # None
    /\ list' = MoveToFront(valueToElement[a])
    /\ recent' = ToFront(recent, valueToElement[a])
    /\ UNCHANGED <<lruSize, keyToElement, valueToElement>>

Next == \/ \E d \in Domains : GetFakeIPForDomain(d)
        \/ \E a \in Pool : GetDomainFromFakeDNS(a)

Spec == Init /\ [][Next]_vars

-----------------------------------------------------------------------------
\* Types, and the size of the cache.
TypeOK ==
    /\ lruSize \in LruSizes \cup {0}
    /\ list \in Seq(Element)
    /\ Len(list) <= lruSize
    /\ keyToElement \in [Domains -> Element \cup {None}]
    /\ valueToElement \in [Pool -> Element \cup {None}]

\* An address means one domain: the list and the two indexes hold the same
\* elements, no two with one domain or one address.
OneDomainPerAddress ==
    /\ \A d \in Domains : keyToElement[d] # None =>
          /\ keyToElement[d].key = d
          /\ valueToElement[keyToElement[d].value] = keyToElement[d]
    /\ \A a \in Pool : valueToElement[a] # None =>
          /\ valueToElement[a].value = a
          /\ keyToElement[valueToElement[a].key] = valueToElement[a]
    /\ ToSet(list) = {keyToElement[d] : d \in Domains} \ {None}
    /\ IsInjective(list)

\* What was used last is kept: the lruSize domains used most recently, by a
\* lookup or by a connection, still have the address they were given.
RecentKept ==
    \A i \in 1 .. Len(recent) : i <= lruSize =>
        keyToElement[recent[i].key] = recent[i]

\* The search for a free address ends, with the largest cache initialize
\* accepts as well.
SearchEnds == Started => \E a \in Pool : valueToElement[a] = None

\* All of it.
PoolConsistent == OneDomainPerAddress /\ RecentKept /\ SearchEnds

=============================================================================
