------------------------------ MODULE Admission ------------------------------
(***************************************************************************)
(* Admission control of one API instance (api/security.rs): a window of 60 *)
(* seconds per group of paths and client address, started by the first     *)
(* request, in a map of bounded size.                                      *)
(***************************************************************************)
EXTENDS Integers, Sequences, FiniteSets

CONSTANTS
    Addresses,      \* of clients, or of the proxy before them
    NoHeader,       \* no cf-connecting-ip, or not an address
    TrustCloudflare,
    Paths,          \* paths under /v1/
    Groups,         \* register, login and api
    GroupOf,        \* by path
    Limit,          \* of each group: 5, 10 and 600
    Window,         \* 60 seconds
    Capacity,       \* 4096 keys
    Horizon         \* bound: the last instant

VARIABLES
    now,
    buckets,        \* the map: when the window of a key started, and its requests
    log,            \* history: when requests of each key were admitted
    verdict         \* why the latest request was refused, in this instant

admissionVars == <<now, buckets, log, verdict>>

Keys == Groups \X Addresses
LimitOf(k) == Limit[k[1]]
NoVerdict == [key |-> NoHeader, kind |-> "none"]

ASSUME AdmissionAssumption ==
    /\ IsFiniteSet(Addresses) /\ IsFiniteSet(Groups) /\ NoHeader \notin Addresses
    /\ TrustCloudflare \in BOOLEAN
    /\ GroupOf \in [Paths -> Groups]
    /\ Limit \in [Groups -> Nat \ {0}]
    /\ Window \in Nat \ {0} /\ Capacity \in Nat /\ Horizon \in Nat

AdmissionInit ==
    /\ now = 0
    /\ buckets = << >>
    /\ log = [k \in Keys |-> << >>]
    /\ verdict = NoVerdict

\* `ip` of protect.
AddressOf(peer, header) == IF TrustCloudflare /\ header # NoHeader THEN header ELSE peer

\* Faulty: forgets a window while it lasts.
KeepsShort(start) == now - start < Window - 1

\* The condition of retain.
Keeps(start) == now - start < Window

Kept == [k \in {k \in DOMAIN buckets : Keeps(buckets[k].start)} |-> buckets[k]]

\* Faulty: the size is tested before expired windows are dropped.
FitsBefore(k) == Cardinality(DOMAIN buckets) < Capacity \/ k \in DOMAIN buckets

Fits(k) == Cardinality(DOMAIN Kept) < Capacity \/ k \in DOMAIN Kept

Bucket(k) == IF k \in DOMAIN Kept THEN Kept[k] ELSE [start |-> now, count |-> 0]

Below(k) == Bucket(k).count < LimitOf(k)

\* Kept, with a bucket for k.
With(k, bucket) == [j \in DOMAIN Kept \cup {k} |-> IF j = k THEN bucket ELSE Kept[j]]

CountedIn(k) == [start |-> Bucket(k).start, count |-> Bucket(k).count + 1]

Admit(k) ==
    /\ Fits(k) /\ Below(k)
    /\ buckets' = With(k, CountedIn(k))
    /\ log' = [log EXCEPT ![k] = Append(@, now)]
    /\ verdict' = NoVerdict

\* 429, with Retry-After: 60, although the client may have sent nothing before.
RefuseFull(k) ==
    /\ ~Fits(k)
    /\ buckets' = Kept
    /\ verdict' = [key |-> k, kind |-> "full"]
    /\ UNCHANGED log

\* The same answer.
RefuseLimited(k) ==
    /\ Fits(k) /\ ~Below(k)
    /\ buckets' = With(k, Bucket(k))
    /\ verdict' = [key |-> k, kind |-> "limited"]
    /\ UNCHANGED log

Request(path, peer, header) ==
    LET k == <<GroupOf[path], AddressOf(peer, header)>>
    IN (Admit(k) \/ RefuseFull(k) \/ RefuseLimited(k)) /\ UNCHANGED now

Advance ==
    /\ now < Horizon
    /\ now' = now + 1
    /\ verdict' = NoVerdict
    /\ UNCHANGED <<buckets, log>>

AdmissionNext ==
    \/ \E path \in Paths, peer \in Addresses, header \in Addresses \cup {NoHeader} :
          Request(path, peer, header)
    \/ Advance

AdmissionSpec == AdmissionInit /\ [][AdmissionNext]_admissionVars

-----------------------------------------------------------------------------
(* Properties                                                              *)

AdmissionTypeOK ==
    /\ now \in Nat
    /\ DOMAIN buckets \subseteq Keys
    /\ \A k \in DOMAIN buckets : buckets[k] \in [start : Nat, count : Nat]
    /\ log \in [Keys -> Seq(Nat)]
    /\ verdict = NoVerdict \/ verdict \in [key : Keys, kind : {"full", "limited"}]

\* Times of a log, from the past and in order.
InOrder(k) ==
    /\ \A i \in 1 .. Len(log[k]) : log[k][i] =< now
    /\ \A i, j \in 1 .. Len(log[k]) : i =< j => log[k][i] =< log[k][j]

\* A bucket counts the latest entries of its log, the first of which started it
\* a window after the one Limit entries before.
Explained(k) ==
    LET n == Len(log[k])
        first == n - buckets[k].count + 1
    IN /\ buckets[k].count \in 1 .. LimitOf(k) /\ first >= 1
       /\ log[k][first] = buckets[k].start
       /\ first > LimitOf(k) => log[k][first - LimitOf(k)] + Window =< buckets[k].start

\* A key without a bucket has had less than Limit requests in the last window.
Forgotten(k) ==
    Len(log[k]) >= LimitOf(k) => log[k][Len(log[k]) - LimitOf(k) + 1] + Window =< now

\* Nobody gets more than two limits, less one, into any 60 seconds: windows
\* neither overlap nor are forgotten early (security.rs:39).
InAnyMinute ==
    \A k \in Keys : \A i \in 1 .. Len(log[k]) :
        LET j == i + 2 * LimitOf(k) - 1
        IN j =< Len(log[k]) => log[k][j] - log[k][i] >= Window

AdmissionInv ==
    /\ AdmissionTypeOK
    /\ \A k \in Keys : InOrder(k) /\ (IF k \in DOMAIN buckets THEN Explained(k) ELSE Forgotten(k))
    /\ InAnyMinute

\* The limit of a key was used up within the last window.
LimitUsedUp ==
    verdict.kind = "limited" =>
        LET k == verdict.key n == Len(log[k])
        IN n >= LimitOf(k) /\ now - log[k][n - LimitOf(k) + 1] < Window

\* Storage is bounded, and only requests of as many other clients within the last
\* window fill it (security.rs:40).
Recent(k) == log[k] # << >> /\ now - log[k][Len(log[k])] < Window
FullWithOthers ==
    /\ Cardinality(DOMAIN buckets) =< Capacity
    /\ verdict.kind = "full" =>
          Cardinality({k \in Keys \ {verdict.key} : Recent(k)}) >= Capacity

\* There are two reasons to refuse a request, answered alike: Limit requests of
\* the client within the last window, or as many other keys as the map holds with
\* requests in it (security.rs:40-45).  Windows that have ended refuse nobody; but
\* Retry-After is a promise only to who was limited, not against a full map.
NoEarlyRefusal == LimitUsedUp /\ FullWithOthers
==============================================================================
