----------------------------- MODULE ServingProofs -----------------------------
(***************************************************************************)
(* What a request meets, for any number of clients, attempts, hosts,     *)
(* files and renders: what the limiters let through (LoginThrottle),     *)
(* where the panel acts (Dispatch) and what a page is made of            *)
(* (TemplateCache).                                                      *)
(***************************************************************************)
EXTENDS LoginThrottle, Dispatch, TemplateCache, FiniteSetTheorems, SequenceTheorems, TLAPS

-----------------------------------------------------------------------------
(* LoginThrottle.                                                        *)
(*                                                                       *)
(* Buckets: the time a bucket has been paid for is what lies between its *)
(* birth and its last refill, and what was rewound in between; what it   *)
(* admitted and what is left in it never exceed the burst and that       *)
(* time's tokens (Metered).                                              *)
(*                                                                       *)
(* Guesses: the attempts that can still slip in while a pair is locked   *)
(* are the ones that were past the check when the lock fell (Slipping).  *)
(* They only get fewer, and the lock that lets them slip pays for all of *)
(* them at once: a trip of the counter leaves at most one fewer than     *)
(* there are requests.                                                   *)

Verifying == {"limit", "check", "pair", "verify", "failed", "spray"}

Attempted == [pc : Verifying, client : Clients, name : Names, now : 1..clock]

AttemptsTyped ==
    /\ clock \in 1..MaxTime
    /\ attempt \in [Attempts -> {NoAttempt} \cup Attempted]

Metered(b, m) ==
    /\ b \in [tokens : 0..Burst, last : 1..clock]
    /\ m \in [born : 1..clock, admitted : Nat, rewound : Nat]
    /\ m.born <= b.last + m.rewound
    /\ m.admitted + b.tokens <= Burst + Rate * (b.last + m.rewound - m.born)

BucketsSound ==
    /\ DOMAIN buckets \subseteq Clients /\ DOMAIN meter = DOMAIN buckets
    /\ \A c \in DOMAIN buckets : Metered(buckets[c], meter[c])

PairEntry == [failures : 0..(MaxFailures - 1), lockouts : Nat, seen : Nat, until : Nat]
Tale == [born : Nat, tried : Nat, due : Nat]

Tracked(table) == IsFiniteSet(DOMAIN table) /\ Cardinality(DOMAIN table) <= MaxTracked

\* The attempts whose failure a lock of the pair will overtake.
Slipping(p) ==
    {r \in Attempts :
        \/ Stands(r, "verify") /\ Pair(r) = p /\ pairs[p].until > clock
        \/ Stands(r, "failed") /\ Pair(r) = p /\ pairs[p].until > attempt[r].now}

Price == MaxFailures + Cardinality(Attempts) - 1

Paid(e, s) ==
    /\ e.lockouts = 0 => s.due = 0
    /\ e.lockouts > 0 => e.until >= s.born + s.due

PairsSound ==
    /\ Tracked(pairs)
    /\ DOMAIN pairs \subseteq Pairs /\ DOMAIN slate = DOMAIN pairs
    /\ \A p \in DOMAIN pairs : /\ pairs[p] \in PairEntry /\ slate[p] \in Tale
                               /\ Paid(pairs[p], slate[p])

SlipsPaid ==
    \A p \in DOMAIN pairs :
        slate[p].tried + Cardinality(Slipping(p)) <= Price * pairs[p].lockouts + pairs[p].failures

SprayEntry(e) ==
    /\ e = [recent |-> e.recent, until |-> e.until]
    /\ e.until \in Nat
    /\ Len(e.recent) < SprayFailures

SpraysSound ==
    /\ Tracked(sprays)
    /\ DOMAIN sprays \subseteq Clients
    /\ \A c \in DOMAIN sprays : SprayEntry(sprays[c])

ThrottleInv == AttemptsTyped /\ BucketsSound /\ PairsSound /\ SlipsPaid /\ SpraysSound

-----------------------------------------------------------------------------
(* Tables.                                                               *)

\* The keys a table keeps when key comes in: live are those that are not stale.
Survivors(keys, live, key) ==
    IF key \in keys \/ Cardinality(keys) < MaxTracked THEN keys
    ELSE IF Cardinality(live) < MaxTracked THEN live ELSE {}

LEMMA KeptFits ==
  ASSUME NEW keys, IsFiniteSet(keys), Cardinality(keys) <= MaxTracked, NEW key,
         NEW live, live \subseteq keys
  PROVE  /\ Survivors(keys, live, key) \subseteq keys
         /\ IsFiniteSet(Survivors(keys, live, key) \cup {key})
         /\ Cardinality(Survivors(keys, live, key) \cup {key}) <= MaxTracked
         /\ Survivors(keys, live, key) # keys => key \notin keys /\ Cardinality(keys) = MaxTracked
         /\ key \in keys => key \in Survivors(keys, live, key)
<1> DEFINE kept == Survivors(keys, live, key)
<1> USE DEF Survivors
<1> USE ThrottleAssumption
<1>0. Cardinality(keys) \in Nat
  BY FS_CardinalityType
<1>1. CASE key \in keys
  <2>1. kept = keys /\ kept \cup {key} = keys
    BY <1>1
  <2> QED BY <1>1, <2>1
<1>2. CASE key \notin keys /\ Cardinality(keys) < MaxTracked
  <2>1. kept = keys
    BY <1>2
  <2>2. IsFiniteSet(keys \cup {key}) /\ Cardinality(keys \cup {key}) = Cardinality(keys) + 1
    BY <1>2, FS_AddElement
  <2> QED BY <1>0, <1>2, <2>1, <2>2
<1>3. CASE key \notin keys /\ ~(Cardinality(keys) < MaxTracked) /\ Cardinality(live) < MaxTracked
  <2>1. kept = live
    BY <1>3
  <2>2. IsFiniteSet(live) /\ Cardinality(live) \in Nat
    BY FS_Subset, FS_CardinalityType
  <2>3. IsFiniteSet(live \cup {key}) /\ Cardinality(live \cup {key}) = Cardinality(live) + 1
    BY <1>3, <2>2, FS_AddElement
  <2> QED BY <1>0, <1>3, <2>1, <2>2, <2>3
<1>4. CASE key \notin keys /\ ~(Cardinality(keys) < MaxTracked) /\ ~(Cardinality(live) < MaxTracked)
  <2>1. kept = {}
    BY <1>4
  <2>2. kept \cup {key} = {key}
    BY <2>1
  <2>3. IsFiniteSet({key}) /\ Cardinality({key}) = 1
    BY FS_Singleton
  <2> QED BY <1>0, <1>4, <2>1, <2>2, <2>3
<1> QED BY <1>1, <1>2, <1>3, <1>4

-----------------------------------------------------------------------------
(* What an attempt does to the others.                                   *)

\* A stage after the first one comes with an address and a name.
LEMMA Standing ==
  ASSUME AttemptsTyped, NEW r \in Attempts, attempt[r].pc # "idle"
  PROVE  attempt[r] \in Attempted
BY DEF AttemptsTyped, NoAttempt

\* An attempt that moves leaves the others where they are.
LEMMA Moves ==
  ASSUME AttemptsTyped, NEW r \in Attempts, NEW new \in {NoAttempt} \cup Attempted,
         attempt' = [attempt EXCEPT ![r] = new], clock' = clock
  PROVE  /\ AttemptsTyped'
         /\ attempt'[r] = new
         /\ \A q \in Attempts : q # r => attempt'[q] = attempt[q]
<1>1. attempt' \in [Attempts -> {NoAttempt} \cup Attempted] /\ Attempted' = Attempted
  BY DEF AttemptsTyped, Attempted
<1> QED BY <1>1 DEF AttemptsTyped

LEMMA ProceedMoves ==
  ASSUME AttemptsTyped, NEW r \in Attempts, attempt[r].pc # "idle", NEW pc \in Verifying,
         Leave(r) \/ Proceed(r, pc), clock' = clock
  PROVE  /\ AttemptsTyped'
         /\ \/ attempt'[r] = NoAttempt
            \/ attempt'[r] = [attempt[r] EXCEPT !.pc = pc]
         /\ \A q \in Attempts : q # r => attempt'[q] = attempt[q]
<1>1. CASE Leave(r)
  BY <1>1, Moves DEF Leave
<1>2. CASE Proceed(r, pc)
  <2> DEFINE new == [attempt[r] EXCEPT !.pc = pc]
  <2>1. new \in Attempted
    BY Standing DEF Attempted
  <2>2. attempt' = [attempt EXCEPT ![r] = new]
    BY <1>2 DEF Proceed
  <2> HIDE DEF new
  <2>3. AttemptsTyped' /\ attempt'[r] = new /\ \A q \in Attempts : q # r => attempt'[q] = attempt[q]
    BY <2>1, <2>2, Moves
  <2> QED BY <2>3 DEF new
<1> QED BY <1>1, <1>2

LEMMA SlippingFinite ==
  ASSUME NEW p
  PROVE  /\ Slipping(p) \subseteq Attempts
         /\ IsFiniteSet(Slipping(p)) /\ Cardinality(Slipping(p)) \in 0..Cardinality(Attempts)
<1>1. Slipping(p) \subseteq Attempts
  BY DEF Slipping
<1>2. IsFiniteSet(Slipping(p)) /\ Cardinality(Slipping(p)) <= Cardinality(Attempts)
  BY <1>1, ThrottleAssumption, FS_Subset
<1> QED BY <1>1, <1>2, ThrottleAssumption, FS_CardinalityType

\* The pairs nothing was recorded on: nobody new slips in.
LEMMA FewerSlip ==
  ASSUME NEW p, Slipping(p)' \subseteq Slipping(p)
  PROVE  Cardinality(Slipping(p))' <= Cardinality(Slipping(p))
<1>1. IsFiniteSet(Slipping(p))
  BY SlippingFinite
<1> DEFINE after == Slipping(p)'
<1> HIDE DEF after
<1>2. Cardinality(after) <= Cardinality(Slipping(p))
  BY <1>1, FS_Subset DEF after
<1> QED BY <1>2 DEF after

LEMMA Priced ==
  ASSUME PairsSound
  PROVE  /\ Price \in Nat /\ Price >= MaxFailures /\ Price = MaxFailures - 1 + Cardinality(Attempts)
         /\ \A p \in DOMAIN pairs :
               /\ slate[p].tried \in Nat
               /\ Price * pairs[p].lockouts + pairs[p].failures \in Nat
<1>1. Cardinality(Attempts) \in Nat /\ Cardinality(Attempts) # 0
  BY ThrottleAssumption, FS_CardinalityType, FS_EmptySet
<1>2. Price \in Nat /\ Price >= MaxFailures /\ Price = MaxFailures - 1 + Cardinality(Attempts)
  BY <1>1, ThrottleAssumption DEF Price
<1> QED BY <1>2, ThrottleAssumption DEF PairsSound, PairEntry, Tale

\* Fewer that slip in keep what was paid sufficient.
LEMMA StillPaid ==
  ASSUME PairsSound, SlipsPaid, NEW p \in DOMAIN pairs, Slipping(p)' \subseteq Slipping(p)
  PROVE  slate[p].tried + Cardinality(Slipping(p)') <= Price * pairs[p].lockouts + pairs[p].failures
<1>1. Cardinality(Slipping(p)') <= Cardinality(Slipping(p))
  BY FewerSlip
<1>2. Cardinality(Slipping(p)) \in Nat /\ Cardinality(Slipping(p)') \in Nat
  <2>1. Cardinality(Slipping(p)) \in Nat
    BY SlippingFinite, ThrottleAssumption, FS_CardinalityType
  <2>2. IsFiniteSet(Slipping(p)')
    BY SlippingFinite, FS_Subset
  <2> QED BY <2>1, <2>2, FS_CardinalityType
<1>3. slate[p].tried + Cardinality(Slipping(p)) <= Price * pairs[p].lockouts + pairs[p].failures
  BY DEF SlipsPaid
<1>4. slate[p].tried \in Nat /\ Price * pairs[p].lockouts + pairs[p].failures \in Nat
  BY Priced
<1> DEFINE cap == Price * pairs[p].lockouts + pairs[p].failures
<1> HIDE DEF cap
<1>5. slate[p].tried + Cardinality(Slipping(p)) <= cap /\ cap \in Nat
  BY <1>3, <1>4 DEF cap
<1>6. slate[p].tried + Cardinality(Slipping(p)') <= cap
  BY <1>1, <1>2, <1>4, <1>5
<1> QED BY <1>6 DEF cap

-----------------------------------------------------------------------------
(* The steps.                                                            *)

LEMMA ThrottleInitInv == ThrottleInit => ThrottleInv
<1> SUFFICES ASSUME ThrottleInit PROVE ThrottleInv
  OBVIOUS
<1> USE ThrottleAssumption DEF ThrottleInit
<1>1. \A table : table = <<>> => DOMAIN table = {}
  OBVIOUS
<1>2. AttemptsTyped
  BY DEF AttemptsTyped
<1>3. BucketsSound
  BY <1>1 DEF BucketsSound
<1>4. \A table : DOMAIN table = {} => Tracked(table)
  BY FS_EmptySet DEF Tracked
<1>5. PairsSound /\ SpraysSound
  BY <1>1, <1>4 DEF PairsSound, SpraysSound
<1>6. SlipsPaid
  BY <1>1 DEF SlipsPaid
<1> QED BY <1>2, <1>3, <1>5, <1>6 DEF ThrottleInv

\* The steps that record nothing on a pair.
LEMMA PairsKept ==
  ASSUME ThrottleInv, UNCHANGED <<clock, pairs, slate>>,
         \A p \in DOMAIN pairs : Slipping(p)' \subseteq Slipping(p)
  PROVE  PairsSound' /\ SlipsPaid'
<1> USE DEF ThrottleInv
<1>1. PairsSound'
  BY DEF PairsSound, Tracked
<1>2. SlipsPaid'
  <2> SUFFICES ASSUME NEW p \in DOMAIN pairs
               PROVE  slate[p].tried + Cardinality(Slipping(p))' <=
                         Price * pairs[p].lockouts + pairs[p].failures
    BY DEF SlipsPaid, Price
  <2> QED BY StillPaid
<1> QED BY <1>1, <1>2

\* The steps that only take an attempt further.
LEMMA NothingRecorded ==
  ASSUME ThrottleInv, AttemptsTyped', UNCHANGED <<clock, buckets, meter, pairs, slate, sprays>>,
         \A p \in DOMAIN pairs : Slipping(p)' \subseteq Slipping(p)
  PROVE  ThrottleInv'
<1> USE DEF ThrottleInv
<1>1. BucketsSound'
  BY DEF BucketsSound, Metered
<1>2. SpraysSound'
  BY DEF SpraysSound, Tracked
<1> QED BY <1>1, <1>2, PairsKept

\* An attempt that goes elsewhere than behind the check does not slip in.
LEMMA NotSlipping ==
  ASSUME NEW r \in Attempts, attempt'[r].pc \notin {"verify", "failed"},
         \A q \in Attempts : q # r => attempt'[q] = attempt[q],
         UNCHANGED clock, NEW p, pairs'[p].until = pairs[p].until
  PROVE  Slipping(p)' \subseteq Slipping(p) \ {r}
BY DEF Slipping, Stands, Pair

LEMMA TickStep == ThrottleInv /\ Tick => ThrottleInv'
<1> SUFFICES ASSUME ThrottleInv, Tick PROVE ThrottleInv'
  OBVIOUS
<1> USE ThrottleAssumption DEF ThrottleInv, Tick
<1>1. clock \in Nat /\ clock' = clock + 1 /\ clock' \in 1..MaxTime
  BY DEF AttemptsTyped
<1>2. 1..clock \subseteq 1..clock'
  BY <1>1
<1>3. AttemptsTyped'
  BY <1>1, <1>2 DEF AttemptsTyped, Attempted
<1>4. BucketsSound'
  <2>1. \A c \in DOMAIN buckets : Metered(buckets[c], meter[c])'
    BY <1>1, <1>2 DEF BucketsSound, Metered
  <2> QED BY <2>1 DEF BucketsSound
<1>5. PairsSound' /\ SpraysSound'
  BY DEF PairsSound, SpraysSound, Tracked
<1>6. SlipsPaid'
  <2> SUFFICES ASSUME NEW p \in DOMAIN pairs
               PROVE  slate[p].tried + Cardinality(Slipping(p))' <=
                         Price * pairs[p].lockouts + pairs[p].failures
    BY DEF SlipsPaid, Price
  <2>1. Slipping(p)' \subseteq Slipping(p)
    BY <1>1 DEF Slipping, Stands, Pair, PairsSound, PairEntry
  <2> QED BY <2>1, StillPaid
<1> QED BY <1>3, <1>4, <1>5, <1>6
LEMMA AttemptStep ==
  ASSUME ThrottleInv, NEW r \in Attempts, NEW c \in Clients, NEW n \in Names, Attempt(r, c, n)
  PROVE  ThrottleInv'
<1> USE DEF ThrottleInv
<1> DEFINE new == [pc |-> "limit", client |-> c, name |-> n, now |-> clock]
<1>1. new \in Attempted
  BY DEF Attempted, Verifying, AttemptsTyped
<1>2. new.pc = "limit" /\ attempt' = [attempt EXCEPT ![r] = new] /\ clock' = clock
  BY DEF Attempt
<1> HIDE DEF new
<1>3. AttemptsTyped' /\ attempt'[r] = new /\ \A q \in Attempts : q # r => attempt'[q] = attempt[q]
  BY <1>1, <1>2, Moves
<1>4. \A p \in DOMAIN pairs : Slipping(p)' \subseteq Slipping(p)
  BY <1>2, <1>3, NotSlipping DEF Attempt
<1> QED BY <1>3, <1>4, NothingRecorded DEF Attempt

LEMMA CheckAddressStep ==
  ASSUME ThrottleInv, NEW r \in Attempts, CheckAddress(r)
  PROVE  ThrottleInv'
<1> USE DEF ThrottleInv
<1> DEFINE new == IF Locked(sprays, attempt[r].client, clock) THEN NoAttempt
                  ELSE [attempt[r] EXCEPT !.pc = "pair", !.now = clock]
<1>1. attempt[r] \in Attempted
  BY Standing DEF CheckAddress, Stands
<1>2. new \in {NoAttempt} \cup Attempted /\ new.pc \in {"idle", "pair"}
  <2>1. clock \in 1..clock
    BY DEF AttemptsTyped
  <2>2. CASE Locked(sprays, attempt[r].client, clock)
    BY <2>2 DEF NoAttempt
  <2>3. CASE ~Locked(sprays, attempt[r].client, clock)
    <3>1. new = [attempt[r] EXCEPT !.pc = "pair", !.now = clock]
      BY <2>3
    <3> QED BY <1>1, <2>1, <3>1 DEF Attempted, Verifying
  <2> QED BY <2>2, <2>3
<1>3. attempt' = [attempt EXCEPT ![r] = new] /\ clock' = clock
  BY DEF CheckAddress, Leave, AttemptsTyped
<1> HIDE DEF new
<1>4. AttemptsTyped' /\ attempt'[r] = new /\ \A q \in Attempts : q # r => attempt'[q] = attempt[q]
  BY <1>2, <1>3, Moves
<1>5. \A p \in DOMAIN pairs : Slipping(p)' \subseteq Slipping(p)
  BY <1>2, <1>3, <1>4, NotSlipping DEF CheckAddress
<1> QED BY <1>4, <1>5, NothingRecorded DEF CheckAddress

\* Nobody passes the check of a locked pair, however old the instant is that
\* the check compares with.
LEMMA CheckPairStep ==
  ASSUME ThrottleInv, NEW r \in Attempts, CheckPair(r)
  PROVE  ThrottleInv'
<1> USE DEF ThrottleInv
<1>1. attempt[r] \in Attempted
  BY Standing DEF CheckPair, Stands
<1>2. AttemptsTyped' /\ (attempt'[r] = NoAttempt \/ attempt'[r] = [attempt[r] EXCEPT !.pc = "verify"])
      /\ \A q \in Attempts : q # r => attempt'[q] = attempt[q]
  BY ProceedMoves DEF CheckPair, Stands, Verifying
<1>3. \A p \in DOMAIN pairs : Slipping(p)' \subseteq Slipping(p)
  <2> SUFFICES ASSUME NEW p \in DOMAIN pairs PROVE Slipping(p)' \subseteq Slipping(p)
    OBVIOUS
  <2>1. UNCHANGED <<clock, pairs>>
    BY DEF CheckPair
  <2>2. CASE attempt'[r] = NoAttempt
    BY <1>2, <2>1, <2>2, NotSlipping DEF NoAttempt
  <2>3. CASE attempt'[r] # NoAttempt
    <3>1. attempt'[r] = [attempt[r] EXCEPT !.pc = "verify"] /\ ~Locked(pairs, Pair(r), attempt[r].now)
      BY <1>1, <1>2, <2>3 DEF CheckPair, Leave, AttemptsTyped
    <3>2. Pair(r)' = Pair(r) /\ attempt'[r].pc = "verify" /\ attempt[r].now \in 1..clock
      BY <1>1, <3>1 DEF Attempted, Pair
    <3>3. pairs[p].until \in Nat /\ clock \in Nat
      BY DEF PairsSound, PairEntry, AttemptsTyped
    <3>4. Pair(r) = p => ~(pairs[p].until > clock)
      BY <3>1, <3>2, <3>3 DEF Locked
    <3>5. r \notin Slipping(p)'
      BY <2>1, <3>2, <3>4 DEF Slipping, Stands
    <3>6. \A q \in Attempts \ {r} : q \in Slipping(p)' => q \in Slipping(p)
      BY <1>2, <2>1 DEF Slipping, Stands, Pair
    <3> QED BY <3>5, <3>6 DEF Slipping
  <2> QED BY <2>2, <2>3
<1> QED BY <1>2, <1>3, NothingRecorded DEF CheckPair

LEMMA HiccupStep ==
  ASSUME ThrottleInv, NEW r \in Attempts, Hiccup(r)
  PROVE  ThrottleInv'
<1> USE DEF ThrottleInv
<1>1. attempt' = [attempt EXCEPT ![r] = NoAttempt] /\ clock' = clock
  BY DEF Hiccup, Leave
<1>2. AttemptsTyped' /\ attempt'[r] = NoAttempt /\ \A q \in Attempts : q # r => attempt'[q] = attempt[q]
  BY <1>1, Moves
<1>3. \A p \in DOMAIN pairs : Slipping(p)' \subseteq Slipping(p)
  BY <1>1, <1>2, NotSlipping DEF Hiccup, NoAttempt
<1> QED BY <1>2, <1>3, NothingRecorded DEF Hiccup

\* The instant of the record is the one at which the verification ends.
LEMMA FailStep ==
  ASSUME ThrottleInv, NEW r \in Attempts, Fail(r)
  PROVE  ThrottleInv'
<1> USE DEF ThrottleInv
<1> DEFINE new == [attempt[r] EXCEPT !.pc = "failed", !.now = clock]
<1>1. attempt[r] \in Attempted
  BY Standing DEF Fail, Stands
<1>2. /\ new \in Attempted /\ new.pc = "failed" /\ new.now = clock
      /\ new.client = attempt[r].client /\ new.name = attempt[r].name
  <2>1. clock \in 1..clock
    BY DEF AttemptsTyped
  <2> QED BY <1>1, <2>1 DEF Attempted, Verifying
<1>3. attempt' = [attempt EXCEPT ![r] = new] /\ UNCHANGED <<clock, pairs>>
  BY DEF Fail, AttemptsTyped
<1> HIDE DEF new
<1>4. AttemptsTyped' /\ attempt'[r] = new /\ \A q \in Attempts : q # r => attempt'[q] = attempt[q]
  BY <1>2, <1>3, Moves
<1>5. Stands(r, "verify") /\ Pair(r)' = Pair(r)
  BY <1>2, <1>4 DEF Fail, Pair
<1>6. \A p \in DOMAIN pairs : Slipping(p)' \subseteq Slipping(p)
  BY <1>2, <1>3, <1>4, <1>5 DEF Slipping, Stands, Pair
<1> QED BY <1>4, <1>6, NothingRecorded DEF Fail
LEMMA MeterMoves ==
  ASSUME NEW Born, NEW m \in [born : Born, admitted : Nat, rewound : Nat],
         NEW takes \in Nat, NEW back \in Nat, NEW n,
         n = [m EXCEPT !.admitted = @ + takes, !.rewound = @ + back]
  PROVE  /\ n \in [born : Born, admitted : Nat, rewound : Nat]
         /\ n.born = m.born /\ n.admitted = m.admitted + takes /\ n.rewound = m.rewound + back
<1> DEFINE one == [m EXCEPT !.admitted = m.admitted + takes]
<1>1. /\ one \in [born : Born, admitted : Nat, rewound : Nat]
      /\ one.born = m.born /\ one.admitted = m.admitted + takes /\ one.rewound = m.rewound
  OBVIOUS
<1>2. n = [one EXCEPT !.rewound = one.rewound + back]
  OBVIOUS
<1> HIDE DEF one
<1> QED BY <1>1, <1>2

\* The bucket pays for what it admits.
LEMMA BucketPays ==
  ASSUME clock \in Nat, NEW b, NEW m, Metered(b, m), NEW now \in 1..clock,
         NEW filled, filled = Refilled(b, now), NEW takes,
         takes = IF filled.tokens >= 1 THEN 1 ELSE 0
  PROVE  Metered([tokens |-> filled.tokens - takes, last |-> filled.last],
                 [m EXCEPT !.admitted = @ + takes, !.rewound = @ + filled.rewound])
<1>0. m \in [born : 1..clock, admitted : Nat, rewound : Nat]
  BY DEF Metered
<1> USE ThrottleAssumption DEF Metered
<1>1. /\ b.tokens \in 0..Burst /\ b.last \in 1..clock /\ m.born \in 1..clock
      /\ m.admitted \in Nat /\ m.rewound \in Nat
  OBVIOUS
<1>2. /\ filled.tokens = Least(b.tokens + Since(now, b.last) * Rate, Burst) /\ filled.last = now
      /\ filled.rewound = IF now < b.last THEN b.last - now ELSE 0
  BY DEF Refilled
<1> DEFINE gap == Since(now, b.last)
<1> DEFINE income == gap * Rate
<1> DEFINE before == b.last + m.rewound - m.born
<1> DEFINE beyond == now + (m.rewound + filled.rewound) - m.born
<1>3. gap \in Nat /\ filled.rewound \in Nat /\ before \in Nat /\ beyond = before + gap
  BY <1>1, <1>2 DEF Since
<1>4. income \in Nat /\ Rate * beyond = Rate * before + income
  <2> HIDE DEF gap, before, beyond
  <2> QED BY <1>3
<1> HIDE DEF gap, income
<1>5. /\ filled.tokens \in 0..Burst /\ filled.tokens <= b.tokens + income
      /\ takes \in 0..1 /\ filled.tokens - takes \in 0..Burst
  BY <1>1, <1>2, <1>4 DEF Least, gap, income
<1> DEFINE paid == Rate * before
<1>6. m.admitted + b.tokens <= Burst + paid /\ paid \in Int
  <2>1. Rate * before \in Int
    <3> HIDE DEF before
    <3> QED BY <1>3
  <2> QED BY <2>1
<1> HIDE DEF paid
<1>7. (m.admitted + takes) + (filled.tokens - takes) <= Burst + (paid + income)
  BY <1>1, <1>4, <1>5, <1>6
<1>8. paid + income = Rate * beyond /\ m.born <= now + (m.rewound + filled.rewound)
  BY <1>1, <1>2, <1>3, <1>4 DEF paid
<1> DEFINE q == [tokens |-> filled.tokens - takes, last |-> filled.last]
<1> DEFINE n == [m EXCEPT !.admitted = @ + takes, !.rewound = @ + filled.rewound]
<1>9. /\ q.tokens = filled.tokens - takes /\ q.last = now
      /\ n.born = m.born /\ n.admitted = m.admitted + takes /\ n.rewound = m.rewound + filled.rewound
      /\ q \in [tokens : 0..Burst, last : 1..clock]
      /\ n \in [born : 1..clock, admitted : Nat, rewound : Nat]
  <2>1. takes \in Nat /\ filled.rewound \in Nat
    BY <1>3, <1>5
  <2>2. /\ n.born = m.born /\ n.admitted = m.admitted + takes
        /\ n.rewound = m.rewound + filled.rewound
        /\ n \in [born : 1..clock, admitted : Nat, rewound : Nat]
    BY <1>0, <2>1, MeterMoves DEF n
  <2>3. /\ q.tokens = filled.tokens - takes /\ q.last = now
        /\ q \in [tokens : 0..Burst, last : 1..clock]
    BY <1>2, <1>5
  <2> QED BY <2>2, <2>3
<1> HIDE DEF q, n
<1>10. n.admitted + q.tokens <= Burst + Rate * (q.last + n.rewound - n.born)
  BY <1>7, <1>8, <1>9 DEF beyond
<1>11. Metered(q, n)
  BY <1>8, <1>9, <1>10
<1> QED BY <1>11 DEF q, n

LEMMA LimitStep ==
  ASSUME ThrottleInv, NEW r \in Attempts, Limit(r)
  PROVE  ThrottleInv'
<1> USE DEF ThrottleInv
<1> DEFINE c == attempt[r].client
           now == attempt[r].now
           kept == Kept(buckets, c, FullAgain)
           bucket == IF c \in kept THEN buckets[c] ELSE [tokens |-> Burst, last |-> now]
           record == IF c \in kept THEN meter[c] ELSE [born |-> now, admitted |-> 0, rewound |-> 0]
           filled == Refilled(bucket, now)
           takes == IF filled.tokens >= 1 THEN 1 ELSE 0
           left == [tokens |-> filled.tokens - takes, last |-> filled.last]
           noted == [record EXCEPT !.admitted = @ + takes, !.rewound = @ + filled.rewound]
<1>1. /\ Stands(r, "limit") /\ UNCHANGED <<clock, pairs, slate, sprays>>
      /\ buckets' = Put(Only(buckets, kept), c, left)
      /\ meter' = Put(Only(meter, kept), c, noted)
      /\ Proceed(r, "check") \/ Leave(r)
  BY DEF Limit
<1>2. attempt[r] \in Attempted /\ c \in Clients /\ now \in 1..clock /\ clock \in Nat
  <2>1. attempt[r] \in Attempted
    BY <1>1, Standing DEF Stands
  <2> QED BY <2>1 DEF Attempted, AttemptsTyped
<1>3. AttemptsTyped' /\ (attempt'[r] = NoAttempt \/ attempt'[r] = [attempt[r] EXCEPT !.pc = "check"])
      /\ \A q \in Attempts : q # r => attempt'[q] = attempt[q]
  BY <1>1, ProceedMoves DEF Stands, Verifying
<1>4. kept \subseteq DOMAIN buckets
  BY DEF Kept
<1> HIDE DEF kept
<1>5. Metered(bucket, record)
  <2>1. CASE c \in kept
    BY <1>4, <2>1 DEF BucketsSound
  <2>2. CASE c \notin kept
    <3>1. bucket = [tokens |-> Burst, last |-> now] /\ record = [born |-> now, admitted |-> 0, rewound |-> 0]
      BY <2>2
    <3>2. Burst + Rate * (now + 0 - now) = Burst
      BY <1>2, ThrottleAssumption
    <3>3. /\ bucket.tokens = Burst /\ bucket.last = now
          /\ record.born = now /\ record.admitted = 0 /\ record.rewound = 0
      BY <3>1
    <3>4. /\ bucket \in [tokens : 0..Burst, last : 1..clock]
          /\ record \in [born : 1..clock, admitted : Nat, rewound : Nat]
      BY <1>2, <3>1, ThrottleAssumption
    <3> HIDE DEF bucket, record, now
    <3>5. record.born <= bucket.last + record.rewound
      BY <1>2, <3>3
    <3>6. record.admitted + bucket.tokens <=
             Burst + Rate * (bucket.last + record.rewound - record.born)
      BY <3>2, <3>3, ThrottleAssumption
    <3> QED BY <3>4, <3>5, <3>6 DEF Metered
  <2> QED BY <2>1, <2>2
<1>6. Metered(left, noted)
  <2> HIDE DEF bucket, record, now
  <2> QED BY <1>2, <1>5, BucketPays
<1> HIDE DEF bucket, record, filled, takes, left, noted
<1>7. BucketsSound'
  <2> HIDE DEF c
  <2>0. kept \subseteq DOMAIN meter
    BY <1>4 DEF BucketsSound
  <2>1. /\ DOMAIN buckets' = kept \cup {c} /\ buckets'[c] = left
        /\ \A k \in kept : k # c => buckets'[k] = buckets[k]
    <3>1. buckets' = Put(Only(buckets, kept), c, left)
      BY <1>1
    <3> QED BY <1>4, <3>1 DEF Put, Only
  <2>2. /\ DOMAIN meter' = kept \cup {c} /\ meter'[c] = noted
        /\ \A k \in kept : k # c => meter'[k] = meter[k]
    <3>1. meter' = Put(Only(meter, kept), c, noted)
      BY <1>1
    <3> QED BY <2>0, <3>1 DEF Put, Only
  <2>3. \A k \in DOMAIN buckets' : Metered(buckets'[k], meter'[k])
    BY <1>4, <1>6, <2>1, <2>2 DEF BucketsSound
  <2>4. \A k \in DOMAIN buckets' : Metered(buckets[k], meter[k])'
    BY <1>1, <2>3 DEF Metered
  <2> QED BY <1>2, <1>4, <2>1, <2>2, <2>4 DEF BucketsSound
<1>8. \A p \in DOMAIN pairs : Slipping(p)' \subseteq Slipping(p)
  <2>1. attempt'[r].pc \notin {"verify", "failed"}
    BY <1>2, <1>3 DEF NoAttempt, Attempted
  <2> QED BY <1>1, <1>3, <2>1, NotSlipping
<1>9. SpraysSound'
  BY <1>1 DEF SpraysSound, Tracked
<1> QED BY <1>1, <1>3, <1>7, <1>8, <1>9, PairsKept
\* A success forgets the pair, and whoever is in flight on it owes nothing.
LEMMA SucceedStep ==
  ASSUME ThrottleInv, NEW r \in Attempts, Succeed(r)
  PROVE  ThrottleInv'
<1> USE DEF ThrottleInv
<1>1. attempt' = [attempt EXCEPT ![r] = NoAttempt] /\ clock' = clock
  BY DEF Succeed, Leave
<1>2. AttemptsTyped' /\ attempt'[r] = NoAttempt /\ \A q \in Attempts : q # r => attempt'[q] = attempt[q]
  BY <1>1, Moves
<1> DEFINE others == DOMAIN pairs \ {Pair(r)}
<1>3. /\ DOMAIN pairs' = others /\ \A p \in others : pairs'[p] = pairs[p]
      /\ DOMAIN slate' = others /\ \A p \in others : slate'[p] = slate[p]
  <2>1. DOMAIN pairs \subseteq Pairs /\ DOMAIN slate = DOMAIN pairs
    BY DEF PairsSound
  <2> QED BY <2>1 DEF Succeed, Only
<1> HIDE DEF others
<1>4. others \subseteq DOMAIN pairs
  BY DEF others
<1>5. PairsSound'
  <2>1. Tracked(pairs)'
    <3>1. IsFiniteSet(others) /\ Cardinality(others) <= Cardinality(DOMAIN pairs)
      BY <1>4, FS_Subset DEF PairsSound, Tracked
    <3>2. Cardinality(others) \in Nat /\ Cardinality(DOMAIN pairs) \in Nat
      BY <3>1, FS_CardinalityType DEF PairsSound, Tracked
    <3> QED BY <1>3, <3>1, <3>2, ThrottleAssumption DEF PairsSound, Tracked
  <2> QED BY <1>3, <1>4, <2>1 DEF PairsSound
<1>6. SlipsPaid'
  <2> SUFFICES ASSUME NEW p \in others
               PROVE  slate[p].tried + Cardinality(Slipping(p)') <=
                         Price * pairs[p].lockouts + pairs[p].failures
    BY <1>3 DEF SlipsPaid, Price
  <2>1. Slipping(p)' \subseteq Slipping(p)
    BY <1>1, <1>2, <1>3, NotSlipping DEF NoAttempt
  <2> QED BY <1>4, <2>1, StillPaid
<1>7. BucketsSound' /\ SpraysSound'
  BY DEF BucketsSound, Metered, SpraysSound, Tracked, Succeed
<1> QED BY <1>2, <1>5, <1>6, <1>7

LEMMA LockoutTyped ==
  ASSUME NEW n \in Nat
  PROVE  Lockout(n + 1) \in Nat
<1> DEFINE k == Least(n + 1 - 1, 6)
<1>1. k \in {0, 1, 2, 3, 4, 5, 6}
  BY DEF Least
<1>2. 2 ^ k \in Nat
  <2> HIDE DEF k
  <2>1. CASE k = 0 BY <2>1
  <2>2. CASE k = 1 BY <2>2
  <2>3. CASE k = 2 BY <2>3
  <2>4. CASE k = 3 BY <2>4
  <2>5. CASE k = 4 BY <2>5
  <2>6. CASE k = 5 BY <2>6
  <2>7. CASE k = 6 BY <2>7
  <2> QED BY <1>1, <2>1, <2>2, <2>3, <2>4, <2>5, <2>6, <2>7
<1>3. Lockout(n + 1) = Least(2 ^ k, MaxLockout)
  BY DEF Lockout
<1> HIDE DEF k
<1> QED BY <1>2, <1>3, ThrottleAssumption DEF Least

\* A failure is overtaken by the lock, counts towards the next, or is the one
\* that locks.
Overtaken(entry, after, now) ==
    /\ entry.until > now
    /\ after.until = entry.until /\ after.lockouts = entry.lockouts
    /\ after.failures = entry.failures

Counted(entry, after, now) ==
    /\ ~(entry.until > now)
    /\ after.until = entry.until /\ after.lockouts = entry.lockouts
    /\ after.failures = entry.failures + 1

Tripped(entry, after, now) ==
    /\ ~(entry.until > now)
    /\ entry.failures = MaxFailures - 1 /\ after.failures = 0
    /\ after.lockouts = entry.lockouts + 1
    /\ after.until = now + Lockout(entry.lockouts + 1)

LEMMA FailureCases ==
  ASSUME NEW entry \in PairEntry, NEW now \in Nat, NEW after, after = Failure(entry, now)
  PROVE  /\ after \in PairEntry
         /\ Overtaken(entry, after, now) \/ Counted(entry, after, now) \/ Tripped(entry, after, now)
<1> USE ThrottleAssumption DEF PairEntry
<1>1. CASE entry.until > now
  <2>1. after = [entry EXCEPT !.seen = now]
    BY <1>1 DEF Failure
  <2> QED BY <1>1, <2>1 DEF Overtaken
<1>2. CASE ~(entry.until > now) /\ entry.failures + 1 < MaxFailures
  <2>1. after = [[entry EXCEPT !.failures = entry.failures + 1] EXCEPT !.seen = now]
    BY <1>2 DEF Failure
  <2> DEFINE one == [entry EXCEPT !.failures = entry.failures + 1]
  <2>2. one \in PairEntry /\ one.failures = entry.failures + 1 /\ one.until = entry.until
        /\ one.lockouts = entry.lockouts
    BY <1>2
  <2>3. after = [one EXCEPT !.seen = now]
    BY <2>1
  <2> HIDE DEF one
  <2> QED BY <1>2, <2>2, <2>3 DEF Counted
<1>3. CASE ~(entry.until > now) /\ ~(entry.failures + 1 < MaxFailures)
  <2>1. after = [failures |-> 0, lockouts |-> entry.lockouts + 1, seen |-> now,
                 until |-> now + Lockout(entry.lockouts + 1)]
    BY <1>3 DEF Failure
  <2>2. Lockout(entry.lockouts + 1) \in Nat
    BY LockoutTyped
  <2>3. after \in PairEntry
    BY <2>1, <2>2
  <2>4. entry.failures = MaxFailures - 1
    BY <1>3
  <2> QED BY <1>3, <2>1, <2>3, <2>4 DEF Tripped
<1> QED BY <1>1, <1>2, <1>3
\* Nobody but the others can slip in past a lock that has just fallen.
LEMMA AtMostTheOthers ==
  ASSUME NEW r \in Attempts, NEW S, S \subseteq Attempts \ {r}
  PROVE  Cardinality(S) \in Nat /\ Cardinality(S) <= Cardinality(Attempts) - 1
<1>1. IsFiniteSet(Attempts \ {r}) /\ Cardinality(Attempts \ {r}) = Cardinality(Attempts) - 1
  BY ThrottleAssumption, FS_RemoveElement
<1>2. IsFiniteSet(S) /\ Cardinality(S) <= Cardinality(Attempts \ {r})
  BY <1>1, FS_Subset
<1> QED BY <1>1, <1>2, FS_CardinalityType

\* One of those that could slip in does.
LEMMA OneSlips ==
  ASSUME NEW p, NEW r \in Slipping(p), NEW S, S \subseteq Slipping(p) \ {r}
  PROVE  Cardinality(S) \in Nat /\ Cardinality(S) + 1 <= Cardinality(Slipping(p))
<1>1. IsFiniteSet(Slipping(p)) /\ Cardinality(Slipping(p)) \in Nat
  BY SlippingFinite, FS_CardinalityType
<1>2. IsFiniteSet(Slipping(p) \ {r}) /\ Cardinality(Slipping(p) \ {r}) = Cardinality(Slipping(p)) - 1
  BY <1>1, FS_RemoveElement
<1>3. IsFiniteSet(S) /\ Cardinality(S) <= Cardinality(Slipping(p) \ {r})
  BY <1>2, FS_Subset
<1> QED BY <1>1, <1>2, <1>3, FS_CardinalityType

\* The price of a trip covers the failures that led to it and all that slip in.
LEMMA TripPays ==
  ASSUME NEW price \in Nat, NEW lockouts \in Nat, NEW failures \in Nat, NEW tried \in Nat,
         NEW before \in Nat, NEW slips \in Nat,
         tried + before <= price * lockouts + failures,
         slips + 1 + failures <= price
  PROVE  tried + 1 + slips <= price * (lockouts + 1) + 0
<1>1. price * (lockouts + 1) = price * lockouts + price
  OBVIOUS
<1> DEFINE paid == price * lockouts
<1>2. paid \in Nat
  OBVIOUS
<1> HIDE DEF paid
<1>3. tried <= paid + failures
  BY <1>2 DEF paid
<1>4. tried + 1 + slips <= paid + price
  BY <1>2, <1>3
<1> QED BY <1>1, <1>4 DEF paid

\* What a lock owes is served before the next one can fall.
LEMMA TurnsServed ==
  ASSUME NEW entry \in PairEntry, NEW tale \in Tale, Paid(entry, tale), NEW now \in Nat,
         NEW after \in PairEntry,
         Overtaken(entry, after, now) \/ Counted(entry, after, now) \/ Tripped(entry, after, now),
         NEW price, price = IF after.lockouts > entry.lockouts THEN Lockout(after.lockouts) ELSE 0,
         NEW new, new = [born |-> Least(tale.born, now), tried |-> tale.tried + 1,
                         due |-> tale.due + price]
  PROVE  new \in Tale /\ Paid(after, new)
<1> USE DEF PairEntry, Tale
<1>1. /\ tale.born \in Nat /\ tale.tried \in Nat /\ tale.due \in Nat
      /\ entry.lockouts \in Nat /\ entry.until \in Nat
  OBVIOUS
<1>2. /\ new.born = Least(tale.born, now) /\ new.due = tale.due + price /\ new.tried = tale.tried + 1
      /\ new = [born |-> new.born, tried |-> new.tried, due |-> new.due]
  OBVIOUS
<1>3. Least(tale.born, now) \in Nat /\ Least(tale.born, now) <= tale.born /\ Least(tale.born, now) <= now
  BY <1>1 DEF Least
<1>4. CASE Overtaken(entry, after, now) \/ Counted(entry, after, now)
  <2>1. after.lockouts = entry.lockouts /\ after.until = entry.until /\ price = 0
    BY <1>1, <1>4 DEF Overtaken, Counted
  <2> QED BY <1>1, <1>2, <1>3, <2>1 DEF Paid
<1>5. CASE Tripped(entry, after, now)
  <2>1. after.lockouts = entry.lockouts + 1 /\ price = Lockout(entry.lockouts + 1)
        /\ after.until = now + price /\ ~(entry.until > now)
    BY <1>1, <1>5 DEF Tripped
  <2>2. price \in Nat
    BY <1>1, <2>1, LockoutTyped
  <2>3. new \in Tale
    BY <1>1, <1>2, <1>3, <2>2
  <2>4. after.until >= new.born + new.due
    BY <1>1, <1>2, <1>3, <2>1, <2>2 DEF Paid
  <2> QED BY <1>1, <2>1, <2>3, <2>4 DEF Paid
<1> QED BY <1>4, <1>5
LEMMA RecordPairStep ==
  ASSUME ThrottleInv, NEW r \in Attempts, RecordPair(r)
  PROVE  ThrottleInv' /\ LocksHold
<1> USE DEF ThrottleInv
<1> DEFINE p == Pair(r)
           now == attempt[r].now
           Stale(e) == e.until <= now /\ Since(now, e.seen) >= MaxLockout
           live == {k \in DOMAIN pairs : ~Stale(pairs[k])}
           kept == Kept(pairs, p, Stale)
           fresh == [failures |-> 0, lockouts |-> 0, until |-> 0, seen |-> now]
           blank == [born |-> now, tried |-> 0, due |-> 0]
           entry == IF p \in kept THEN pairs[p] ELSE fresh
           after == Failure(entry, now)
           price == IF after.lockouts > entry.lockouts THEN Lockout(after.lockouts) ELSE 0
           tale == IF p \in kept THEN slate[p] ELSE blank
           new == [born |-> Least(tale.born, now), tried |-> tale.tried + 1,
                   due |-> tale.due + price]
<1>1. /\ Stands(r, "failed") /\ UNCHANGED <<clock, buckets, meter, sprays>>
      /\ pairs' = Put(Only(pairs, kept), p, after)
      /\ slate' = Put(Only(slate, kept), p, new)
      /\ Proceed(r, "spray") \/ Leave(r)
  BY DEF RecordPair
<1>2. kept = Survivors(DOMAIN pairs, live, p)
  BY DEF Kept, Survivors
<1>3. attempt[r] \in Attempted /\ p \in Pairs /\ now \in 1..clock /\ clock \in Nat /\ now \in Nat
  <2>1. attempt[r] \in Attempted
    BY <1>1, Standing DEF Stands
  <2>2. clock \in Nat
    BY DEF AttemptsTyped
  <2> QED BY <2>1, <2>2 DEF Attempted, Pair, Pairs
<1>4. live \subseteq DOMAIN pairs
  OBVIOUS
<1> HIDE DEF kept, live, Stale
<1>5. /\ kept \subseteq DOMAIN pairs
      /\ IsFiniteSet(kept \cup {p}) /\ Cardinality(kept \cup {p}) <= MaxTracked
      /\ kept # DOMAIN pairs => p \notin DOMAIN pairs /\ Cardinality(DOMAIN pairs) = MaxTracked
      /\ p \in DOMAIN pairs => p \in kept
  <2> HIDE DEF p
  <2>1. IsFiniteSet(DOMAIN pairs) /\ Cardinality(DOMAIN pairs) <= MaxTracked
    BY DEF PairsSound, Tracked
  <2> QED BY <1>2, <1>4, <2>1, KeptFits
<1> HIDE DEF p, now
<1>6. AttemptsTyped' /\ (attempt'[r] = NoAttempt \/ attempt'[r] = [attempt[r] EXCEPT !.pc = "spray"])
      /\ \A q \in Attempts : q # r => attempt'[q] = attempt[q]
  BY <1>1, ProceedMoves DEF Stands, Verifying
<1>7. attempt'[r].pc \notin {"verify", "failed"}
  BY <1>3, <1>6 DEF NoAttempt, Attempted
<1>8. /\ entry \in PairEntry /\ tale \in Tale /\ Paid(entry, tale)
      /\ p \notin kept => entry.until = 0 /\ entry.lockouts = 0 /\ entry.failures = 0 /\ tale.tried = 0
  <2>1. CASE p \in kept
    BY <1>5, <2>1 DEF PairsSound
  <2>2. CASE p \notin kept
    <3>1. entry = fresh /\ tale = blank
      BY <2>2
    <3> QED BY <1>3, <2>2, <3>1, ThrottleAssumption DEF PairEntry, Tale, Paid
  <2> QED BY <2>1, <2>2
<1> DEFINE slips == IF p \in kept THEN Cardinality(Slipping(p)) ELSE 0
<1>9. /\ slips \in Nat /\ tale.tried + slips <= Price * entry.lockouts + entry.failures
  <2>1. CASE p \in kept
    <3>1. Cardinality(Slipping(p)) \in Nat
      BY SlippingFinite, FS_CardinalityType
    <3>2. slips = Cardinality(Slipping(p)) /\ tale = slate[p] /\ entry = pairs[p]
      BY <2>1
    <3>3. slate[p].tried + Cardinality(Slipping(p)) <= Price * pairs[p].lockouts + pairs[p].failures
      BY <1>5, <2>1 DEF SlipsPaid
    <3> QED BY <3>1, <3>2, <3>3
  <2>2. CASE p \notin kept
    <3>1. slips = 0 /\ tale.tried = 0 /\ entry.lockouts = 0 /\ entry.failures = 0
      BY <1>8, <2>2
    <3> HIDE DEF slips, tale, entry
    <3> QED BY <3>1, Priced
  <2> QED BY <2>1, <2>2
<1>10. p \in kept => entry = pairs[p]
  OBVIOUS
<1>11. p \in kept => slips = Cardinality(Slipping(p))
  OBVIOUS
<1>12. p \notin kept => slips = 0
  OBVIOUS
<1> HIDE DEF entry, tale, slips
<1>13. /\ after \in PairEntry
       /\ Overtaken(entry, after, now) \/ Counted(entry, after, now) \/ Tripped(entry, after, now)
  <2> DEFINE a == Failure(entry, now)
  <2> HIDE DEF a
  <2>1. a = Failure(entry, now)
    BY DEF a
  <2>2. a \in PairEntry /\ (Overtaken(entry, a, now) \/ Counted(entry, a, now) \/ Tripped(entry, a, now))
    BY <1>3, <1>8, <2>1, FailureCases
  <2> QED BY <2>2 DEF a
<1> HIDE DEF after
<1>14. new \in Tale /\ Paid(after, new) /\ new.tried = tale.tried + 1
  <2> DEFINE due == price
  <2>1. due = IF after.lockouts > entry.lockouts THEN Lockout(after.lockouts) ELSE 0
    OBVIOUS
  <2> DEFINE n == [born |-> Least(tale.born, now), tried |-> tale.tried + 1, due |-> tale.due + due]
  <2>2. n.tried = tale.tried + 1
    OBVIOUS
  <2> HIDE DEF due, n
  <2>3. n = [born |-> Least(tale.born, now), tried |-> tale.tried + 1, due |-> tale.due + due]
    BY DEF n
  <2>4. n \in Tale /\ Paid(after, n)
    BY <1>3, <1>8, <1>13, <2>1, <2>3, TurnsServed
  <2> QED BY <2>2, <2>4 DEF n, due
<1> HIDE DEF price, new
<1>15. /\ DOMAIN pairs' = kept \cup {p} /\ pairs'[p] = after
       /\ \A q \in kept : q # p => pairs'[q] = pairs[q]
  <2>1. pairs' = Put(Only(pairs, kept), p, after)
    BY <1>1
  <2> QED BY <1>5, <2>1 DEF Put, Only
<1>16. /\ DOMAIN slate' = kept \cup {p} /\ slate'[p] = new
       /\ \A q \in kept : q # p => slate'[q] = slate[q]
  <2>1. slate' = Put(Only(slate, kept), p, new) /\ kept \subseteq DOMAIN slate
    BY <1>1, <1>5 DEF PairsSound
  <2> QED BY <2>1 DEF Put, Only
<1>17. PairsSound'
  <2>1. Tracked(pairs)'
    BY <1>5, <1>15 DEF Tracked
  <2>2. DOMAIN pairs' \subseteq Pairs /\ DOMAIN slate' = DOMAIN pairs'
    BY <1>3, <1>5, <1>15, <1>16 DEF PairsSound
  <2>3. \A q \in DOMAIN pairs' : pairs'[q] \in PairEntry /\ slate'[q] \in Tale /\ Paid(pairs'[q], slate'[q])
    BY <1>5, <1>13, <1>14, <1>15, <1>16 DEF PairsSound
  <2> QED BY <2>1, <2>2, <2>3 DEF PairsSound, Paid
<1>18. SlipsPaid'
  <2> SUFFICES ASSUME NEW q \in kept \cup {p}
               PROVE  slate'[q].tried + Cardinality(Slipping(q)') <=
                         Price * pairs'[q].lockouts + pairs'[q].failures
    BY <1>15 DEF SlipsPaid, Price
  <2>1. CASE q # p
    <3>1. q \in DOMAIN pairs /\ pairs'[q] = pairs[q] /\ slate'[q] = slate[q]
      BY <1>5, <1>15, <1>16, <2>1
    <3>2. Slipping(q)' \subseteq Slipping(q)
      BY <1>1, <1>6, <1>7, <3>1, NotSlipping
    <3> QED BY <3>1, <3>2, StillPaid
  <2>2. CASE q = p
    <3> DEFINE now1 == Cardinality(Slipping(q)')
    <3>0. Slipping(q)' \subseteq Attempts \ {r}
      BY <1>7 DEF Slipping, Stands
    <3>1. now1 \in Nat /\ now1 <= Cardinality(Attempts) - 1
      BY <3>0, AtMostTheOthers
    <3>2. Overtaken(entry, after, now) => now1 + 1 <= slips
      <4> SUFFICES ASSUME Overtaken(entry, after, now) PROVE now1 + 1 <= slips
        OBVIOUS
      <4>1. p \in kept
        BY <1>3, <1>8 DEF Overtaken
      <4>2. entry = pairs[q] /\ slips = Cardinality(Slipping(q)) /\ pairs'[q].until = pairs[q].until
        BY <2>2, <1>10, <1>11, <1>15, <4>1 DEF Overtaken
      <4>3. r \in Slipping(q)
        BY <2>2, <1>1, <4>2 DEF Slipping, Overtaken, p, now
      <4>4. Slipping(q)' \subseteq Slipping(q) \ {r}
        BY <1>1, <1>6, <1>7, <4>2, NotSlipping
      <4> QED BY <4>2, <4>3, <4>4, OneSlips
    <3>3. Counted(entry, after, now) => now1 <= slips
      <4> SUFFICES ASSUME Counted(entry, after, now) PROVE now1 <= slips
        OBVIOUS
      <4>1. CASE p \in kept
        <5>1. slips = Cardinality(Slipping(q)) /\ pairs'[q].until = pairs[q].until
          BY <2>2, <1>10, <1>11, <1>15, <4>1 DEF Counted
        <5>2. Slipping(q)' \subseteq Slipping(q)
          BY <1>1, <1>6, <1>7, <5>1, NotSlipping
        <5> QED BY <5>1, <5>2, FewerSlip
      <4>2. CASE p \notin kept
        <5>1. slips = 0 /\ pairs'[q].until = 0
          BY <2>2, <1>8, <1>12, <1>15, <4>2 DEF Counted
        <5>2. \A q1 \in Attempts \ {r} : attempt[q1].pc = "failed" => attempt[q1].now \in Nat
          <6> SUFFICES ASSUME NEW q1 \in Attempts, attempt[q1].pc = "failed" PROVE attempt[q1].now \in Nat
            OBVIOUS
          <6>1. attempt[q1] \in Attempted
            BY Standing
          <6> QED BY <1>3, <6>1 DEF Attempted
        <5>3. Slipping(q)' = {}
          BY <1>1, <1>3, <1>6, <3>0, <5>1, <5>2 DEF Slipping, Stands
        <5> QED BY <5>1, <5>3, FS_EmptySet
      <4> QED BY <4>1, <4>2
    <3>4. /\ slate'[q].tried = tale.tried + 1
          /\ pairs'[q].lockouts = after.lockouts /\ pairs'[q].failures = after.failures
      BY <2>2, <1>14, <1>15, <1>16
    <3>5. /\ tale.tried \in Nat /\ entry.lockouts \in Nat /\ entry.failures \in Nat
          /\ Price \in Nat /\ Price = MaxFailures - 1 + Cardinality(Attempts)
      BY <1>8, Priced, ThrottleAssumption DEF Tale, PairEntry
    <3>6. Cardinality(Attempts) \in Nat
      BY ThrottleAssumption, FS_CardinalityType
    <3> HIDE DEF now1
    <3>7. tale.tried + 1 + now1 <= Price * after.lockouts + after.failures
      <4> DEFINE paid == Price * entry.lockouts
      <4>0. paid \in Nat
        BY <3>5
      <4>1. CASE Overtaken(entry, after, now)
        <5>1. after.lockouts = entry.lockouts /\ after.failures = entry.failures /\ now1 + 1 <= slips
          BY <3>2, <4>1 DEF Overtaken
        <5>2. tale.tried + slips <= paid + entry.failures
          BY <1>9
        <5> HIDE DEF paid
        <5>3. tale.tried + 1 + now1 <= paid + entry.failures
          BY <1>9, <3>1, <3>5, <4>0, <5>1, <5>2
        <5> QED BY <5>1, <5>3 DEF paid
      <4>2. CASE Counted(entry, after, now)
        <5>1. after.lockouts = entry.lockouts /\ after.failures = entry.failures + 1 /\ now1 <= slips
          BY <3>3, <4>2 DEF Counted
        <5>2. tale.tried + slips <= paid + entry.failures
          BY <1>9
        <5> HIDE DEF paid
        <5>3. tale.tried + 1 + now1 <= paid + (entry.failures + 1)
          BY <1>9, <3>1, <3>5, <4>0, <5>1, <5>2
        <5> QED BY <5>1, <5>3 DEF paid
      <4>3. CASE Tripped(entry, after, now)
        <5>1. /\ after.lockouts = entry.lockouts + 1 /\ after.failures = 0
              /\ entry.failures = MaxFailures - 1
          BY <4>3 DEF Tripped
        <5>2. now1 + 1 + entry.failures <= Price
          BY <3>1, <3>5, <3>6, <5>1, ThrottleAssumption
        <5>3. tale.tried + 1 + now1 <= Price * (entry.lockouts + 1) + 0
          BY <1>9, <3>1, <3>5, <5>2, TripPays
        <5> QED BY <5>1, <5>3
      <4> QED BY <1>13, <4>1, <4>2, <4>3
    <3>8. slate'[q].tried + now1 <= Price * pairs'[q].lockouts + pairs'[q].failures
      BY <3>4, <3>7
    <3> QED BY <3>8 DEF now1
  <2> QED BY <2>1, <2>2
<1>19. BucketsSound' /\ SpraysSound'
  BY <1>1 DEF BucketsSound, Metered, SpraysSound, Tracked
<1>20. LocksHold
  <2>1. ASSUME NEW q \in DOMAIN pairs, pairs[q].until > clock
        PROVE  \/ q \in DOMAIN pairs' /\ pairs'[q].until = pairs[q].until
               \/ q \notin DOMAIN pairs' /\ Overflown(pairs)
    <3>1. CASE q # p /\ q \in kept
      BY <1>15, <3>1
    <3>2. CASE q # p /\ q \notin kept
      BY <1>5, <1>15, <3>2 DEF Overflown
    <3>3. CASE q = p
      <4>1. entry = pairs[p] /\ entry.until > now
        <5>1. entry = pairs[p] /\ pairs[p].until \in Nat
          BY <1>5, <1>10, <2>1, <3>3 DEF PairsSound, PairEntry
        <5> QED BY <1>3, <2>1, <3>3, <5>1
      <4>2. Overtaken(entry, after, now)
        BY <1>13, <4>1 DEF Counted, Tripped
      <4> QED BY <1>15, <3>3, <4>1, <4>2 DEF Overtaken
    <3> QED BY <3>1, <3>2, <3>3
  <2> QED BY <1>1, <2>1 DEF LocksHold
<1> QED BY <1>6, <1>17, <1>18, <1>19, <1>20
LEMMA RecordSprayStep ==
  ASSUME ThrottleInv, NEW r \in Attempts, RecordSpray(r)
  PROVE  ThrottleInv' /\ LocksHold
<1> USE DEF ThrottleInv
<1> DEFINE c == attempt[r].client
           now == attempt[r].now
           Stale(e) == /\ e.until <= now
                       /\ e.recent # <<>> =>
                             Since(now, e.recent[Len(e.recent)]) >= SprayWindow
           live == {k \in DOMAIN sprays : ~Stale(sprays[k])}
           kept == Kept(sprays, c, Stale)
           fresh == [recent |-> <<>>, until |-> 0]
           entry == IF c \in kept THEN sprays[c] ELSE fresh
           recent == Windowed(Append(entry.recent, now), now)
           after == IF entry.until > now THEN entry
                    ELSE IF Len(recent) < SprayFailures THEN [entry EXCEPT !.recent = recent]
                    ELSE [recent |-> <<>>, until |-> now + SprayWindow]
<1>1. /\ Stands(r, "spray") /\ UNCHANGED <<clock, buckets, meter, pairs, slate>>
      /\ sprays' = Put(Only(sprays, kept), c, after)
      /\ Leave(r)
  BY DEF RecordSpray
<1>2. kept = Survivors(DOMAIN sprays, live, c)
  BY DEF Kept, Survivors
<1>3. c \in Clients /\ now \in 1..clock /\ clock \in Nat /\ now \in Nat
  <2>1. attempt[r] \in Attempted
    BY <1>1, Standing DEF Stands
  <2>2. clock \in Nat
    BY DEF AttemptsTyped
  <2> QED BY <2>1, <2>2 DEF Attempted
<1>4. live \subseteq DOMAIN sprays
  OBVIOUS
<1> HIDE DEF kept, live, Stale, c, now
<1>5. /\ kept \subseteq DOMAIN sprays
      /\ IsFiniteSet(kept \cup {c}) /\ Cardinality(kept \cup {c}) <= MaxTracked
      /\ kept # DOMAIN sprays => c \notin DOMAIN sprays /\ Cardinality(DOMAIN sprays) = MaxTracked
      /\ c \in DOMAIN sprays => c \in kept
  <2>1. IsFiniteSet(DOMAIN sprays) /\ Cardinality(DOMAIN sprays) <= MaxTracked
    BY DEF SpraysSound, Tracked
  <2> QED BY <1>2, <1>4, <2>1, KeptFits
<1>6. /\ AttemptsTyped' /\ attempt'[r] = NoAttempt
      /\ \A q \in Attempts : q # r => attempt'[q] = attempt[q]
  <2>1. attempt' = [attempt EXCEPT ![r] = NoAttempt] /\ clock' = clock
    BY <1>1 DEF Leave
  <2> QED BY <2>1, Moves
<1>7. SprayEntry(entry) /\ (c \in kept => entry = sprays[c])
  <2>1. CASE c \in kept
    <3>1. entry = sprays[c]
      BY <2>1
    <3> HIDE DEF entry
    <3> QED BY <1>5, <2>1, <3>1 DEF SpraysSound
  <2>2. CASE c \notin kept
    <3>1. entry = fresh /\ Len(<<>>) = 0
      BY <2>2
    <3>2. /\ entry.recent = <<>> /\ entry.until = 0
          /\ entry = [recent |-> entry.recent, until |-> entry.until]
      BY <3>1
    <3> HIDE DEF entry
    <3> QED BY <2>2, <3>1, <3>2, ThrottleAssumption DEF SprayEntry
  <2> QED BY <2>1, <2>2
<1> HIDE DEF entry, recent
<1>8. SprayEntry(after) /\ (entry.until > now => after = entry)
  <2>1. CASE entry.until > now
    BY <1>7, <2>1
  <2>2. CASE ~(entry.until > now) /\ Len(recent) < SprayFailures
    <3>1. after = [entry EXCEPT !.recent = recent]
      BY <2>2
    <3>2. /\ after = [recent |-> after.recent, until |-> after.until]
          /\ after.recent = recent /\ after.until = entry.until
      BY <1>7, <3>1 DEF SprayEntry
    <3> HIDE DEF after
    <3> QED BY <1>7, <2>2, <3>2 DEF SprayEntry
  <2>3. CASE ~(entry.until > now) /\ ~(Len(recent) < SprayFailures)
    <3>1. after = [recent |-> <<>>, until |-> now + SprayWindow] /\ Len(<<>>) = 0
      BY <2>3
    <3>2. /\ after = [recent |-> after.recent, until |-> after.until]
          /\ after.recent = <<>> /\ after.until = now + SprayWindow
      BY <3>1
    <3> HIDE DEF after
    <3> QED BY <1>3, <2>3, <3>1, <3>2, ThrottleAssumption DEF SprayEntry
  <2> QED BY <2>1, <2>2, <2>3
<1> HIDE DEF after
<1>9. /\ DOMAIN sprays' = kept \cup {c} /\ sprays'[c] = after
      /\ \A k \in kept : k # c => sprays'[k] = sprays[k]
  <2>1. sprays' = Put(Only(sprays, kept), c, after)
    BY <1>1
  <2> QED BY <1>5, <2>1 DEF Put, Only
<1>10. SpraysSound'
  <2>1. Tracked(sprays)'
    BY <1>5, <1>9 DEF Tracked
  <2>2. \A k \in DOMAIN sprays' : SprayEntry(sprays'[k])
    BY <1>5, <1>8, <1>9 DEF SpraysSound
  <2>3. DOMAIN sprays' \subseteq Clients
    BY <1>3, <1>5, <1>9 DEF SpraysSound
  <2> QED BY <2>1, <2>2, <2>3 DEF SpraysSound, SprayEntry
<1>11. PairsSound' /\ SlipsPaid'
  <2>1. \A q \in DOMAIN pairs : Slipping(q)' \subseteq Slipping(q)
    BY <1>1, <1>6, NotSlipping DEF NoAttempt
  <2> QED BY <1>1, <2>1, PairsKept
<1>12. BucketsSound'
  BY <1>1 DEF BucketsSound, Metered
<1>13. LocksHold
  <2>1. ASSUME NEW k \in DOMAIN sprays, sprays[k].until > clock
        PROVE  \/ k \in DOMAIN sprays' /\ sprays'[k].until = sprays[k].until
               \/ k \notin DOMAIN sprays' /\ Overflown(sprays)
    <3>1. CASE k # c /\ k \in kept
      BY <1>9, <3>1
    <3>2. CASE k # c /\ k \notin kept
      BY <1>5, <1>9, <3>2 DEF Overflown
    <3>3. CASE k = c
      <4>1. entry = sprays[k] /\ sprays[k].until \in Nat
        BY <1>5, <1>7, <3>3 DEF SprayEntry
      <4>2. entry.until > now
        BY <1>3, <2>1, <4>1
      <4> QED BY <1>8, <1>9, <3>3, <4>1, <4>2
    <3> QED BY <3>1, <3>2, <3>3
  <2> QED BY <1>1, <2>1 DEF LocksHold
<1> QED BY <1>6, <1>10, <1>11, <1>12, <1>13

\* The other steps of a request move no lock, except a success its own.
LEMMA OthersLeaveLocks ==
  ASSUME ThrottleInv,
         \/ Tick
         \/ \E r \in Attempts : \/ \E c \in Clients, n \in Names : Attempt(r, c, n)
                                \/ Limit(r) \/ CheckAddress(r) \/ CheckPair(r)
                                \/ Succeed(r) \/ Hiccup(r) \/ Fail(r)
  PROVE  LocksHold
<1>1. CASE UNCHANGED <<pairs, sprays>>
  BY <1>1 DEF LocksHold
<1>2. ASSUME NEW r \in Attempts, Succeed(r) PROVE LocksHold
  <2>1. DOMAIN pairs \subseteq Pairs /\ Stands(r, "verify") /\ sprays' = sprays
    BY <1>2 DEF ThrottleInv, PairsSound, Succeed
  <2>2. /\ DOMAIN pairs' = DOMAIN pairs \ {Pair(r)}
        /\ \A p \in DOMAIN pairs \ {Pair(r)} : pairs'[p] = pairs[p]
    BY <1>2, <2>1 DEF Succeed, Only
  <2> QED BY <2>1, <2>2 DEF LocksHold
<1> QED
  BY <1>1, <1>2 DEF Tick, Attempt, Limit, CheckAddress, CheckPair, Hiccup, Fail

LEMMA ThrottleStepInv == ThrottleInv /\ [ThrottleNext]_throttleVars => ThrottleInv' /\ [LocksHold]_throttleVars
<1> SUFFICES ASSUME ThrottleInv, [ThrottleNext]_throttleVars
             PROVE  ThrottleInv' /\ [LocksHold]_throttleVars
  OBVIOUS
<1>1. CASE UNCHANGED throttleVars
  <2>1. AttemptsTyped' /\ \A p \in DOMAIN pairs : Slipping(p)' \subseteq Slipping(p)
    BY <1>1 DEF throttleVars, ThrottleInv, AttemptsTyped, Attempted, Slipping, Stands, Pair
  <2> QED BY <1>1, <2>1, NothingRecorded DEF throttleVars
<1>2. CASE Tick
  BY <1>2, TickStep, OthersLeaveLocks
<1>3. ASSUME NEW r \in Attempts,
             \/ \E c \in Clients, n \in Names : Attempt(r, c, n)
             \/ Limit(r) \/ CheckAddress(r) \/ CheckPair(r) \/ Succeed(r) \/ Hiccup(r) \/ Fail(r)
      PROVE  ThrottleInv' /\ LocksHold
  <2>1. LocksHold
    BY <1>3, OthersLeaveLocks
  <2>2. ThrottleInv'
    BY <1>3, AttemptStep, LimitStep, CheckAddressStep, CheckPairStep, SucceedStep, HiccupStep, FailStep
  <2> QED BY <2>1, <2>2
<1>4. ASSUME NEW r \in Attempts, RecordPair(r) \/ RecordSpray(r)
      PROVE  ThrottleInv' /\ LocksHold
  BY <1>4, RecordPairStep, RecordSprayStep
<1> QED BY <1>1, <1>2, <1>3, <1>4 DEF ThrottleNext

\* What the invariant says of what the limiters let through.
LEMMA InvLimits == ThrottleInv => LimitsHold
<1> SUFFICES ASSUME ThrottleInv PROVE LimitsHold
  OBVIOUS
<1> USE ThrottleAssumption DEF ThrottleInv
<1>1. ThrottleTypeOK
  <2>1. \A c \in DOMAIN buckets : buckets[c].tokens \in 0..Burst
    BY DEF BucketsSound, Metered
  <2>2. \A p \in DOMAIN pairs : pairs[p].failures \in 0..(MaxFailures - 1)
    BY DEF PairsSound, PairEntry
  <2>3. \A c \in DOMAIN sprays : Len(sprays[c].recent) < SprayFailures
    BY DEF SpraysSound, SprayEntry
  <2>4. \A r \in Attempts :
           attempt[r].pc \in {"idle", "limit", "check", "pair", "verify", "failed", "spray"}
    BY DEF AttemptsTyped, NoAttempt, Attempted, Verifying
  <2> QED BY <2>1, <2>2, <2>3, <2>4
          DEF ThrottleTypeOK, AttemptsTyped, BucketsSound, PairsSound, SpraysSound
<1>2. GuessesPaidFor
  <2> SUFFICES ASSUME NEW p \in DOMAIN pairs
               PROVE  /\ slate[p].tried <= (MaxFailures + Cardinality(Attempts) - 1) * pairs[p].lockouts
                                             + pairs[p].failures
                      /\ pairs[p].lockouts > 0 => pairs[p].until >= slate[p].born + slate[p].due
    BY DEF GuessesPaidFor
  <2>1. slate[p].tried + Cardinality(Slipping(p)) <= Price * pairs[p].lockouts + pairs[p].failures
    BY DEF SlipsPaid
  <2>2. Cardinality(Slipping(p)) \in Nat /\ slate[p].tried \in Nat
    BY SlippingFinite, Priced, FS_CardinalityType
  <2> DEFINE paid == Price * pairs[p].lockouts + pairs[p].failures
  <2>3. paid \in Nat
    BY Priced
  <2> HIDE DEF paid
  <2>4. slate[p].tried <= paid
    <3>1. slate[p].tried + Cardinality(Slipping(p)) <= paid
      BY <2>1 DEF paid
    <3> QED BY <2>2, <2>3, <3>1
  <2> QED BY <2>4 DEF paid, Price, PairsSound, Paid
<1>3. AdmittedBounded
  <2> SUFFICES ASSUME NEW c \in DOMAIN buckets
               PROVE  /\ buckets[c].tokens <= Burst
                      /\ meter[c].admitted + buckets[c].tokens
                            <= Burst + Rate * (Since(clock, meter[c].born) + meter[c].rewound)
    BY DEF AdmittedBounded
  <2> DEFINE b == buckets[c]  m == meter[c]
  <2>1. Metered(b, m)
    BY DEF BucketsSound
  <2>2. /\ b.tokens \in 0..Burst /\ b.last \in 1..clock /\ m.born \in 1..clock
        /\ m.admitted \in Nat /\ m.rewound \in Nat /\ clock \in Nat
    BY <2>1 DEF Metered, AttemptsTyped
  <2> DEFINE spent == b.last + m.rewound - m.born
             gone == Since(clock, m.born) + m.rewound
  <2>3. spent \in Nat /\ gone \in Nat /\ spent <= gone
    BY <2>1, <2>2 DEF Metered, Since
  <2>4. m.admitted + b.tokens <= Burst + Rate * spent
    BY <2>1 DEF Metered
  <2> HIDE DEF spent, gone
  <2>5. Rate * spent <= Rate * gone
    <3>1. PICK more \in Nat : gone = spent + more
      <4>1. gone - spent \in Nat /\ gone = spent + (gone - spent)
        BY <2>3
      <4> QED BY <4>1
    <3>2. Rate * gone = Rate * spent + Rate * more /\ Rate * more \in Nat
      BY <2>3, <3>1
    <3>3. Rate * spent \in Nat
      BY <2>3
    <3> QED BY <3>2, <3>3
  <2>6. Rate * spent \in Nat /\ Rate * gone \in Nat
    BY <2>3
  <2> DEFINE owed == Rate * spent  earned == Rate * gone
  <2> HIDE DEF owed, earned
  <2>7. m.admitted + b.tokens <= Burst + earned
    <3>1. m.admitted + b.tokens <= Burst + owed /\ owed <= earned /\ owed \in Nat /\ earned \in Nat
      BY <2>4, <2>5, <2>6 DEF owed, earned
    <3> QED BY <2>2, <3>1
  <2> QED BY <2>2, <2>7 DEF earned, gone
<1> QED BY <1>1, <1>2, <1>3 DEF LimitsHold

\* What brute force gets out of a login, and what a window of time admits, for
\* any number of addresses, names and attempts in flight, whatever the sizes of
\* the tables, the budgets and the order in which the attempts reach the two
\* mutexes (LoginThrottle and RateLimiter of rate_limit.rs).
THEOREM LimitsAreKept == ThrottleSpec => []LimitsHold
<1>1. ThrottleSpec => []ThrottleInv
  BY ThrottleInitInv, ThrottleStepInv, PTL DEF ThrottleSpec
<1> QED BY <1>1, InvLimits, PTL

\* No lock in force is moved by what arrives while it runs: it ends early only
\* for a pair whose attempt was being verified already and succeeds, and when a
\* full table is emptied (record_failure_at, record_success).
THEOREM LocksAreKept == ThrottleSpec => LockKept
<1>1. ThrottleSpec => []ThrottleInv
  BY ThrottleInitInv, ThrottleStepInv, PTL DEF ThrottleSpec
<1>2. ThrottleInv /\ [ThrottleNext]_throttleVars => [LocksHold]_throttleVars
  BY ThrottleStepInv
<1> QED BY <1>1, <1>2, PTL DEF ThrottleSpec, LockKept

-----------------------------------------------------------------------------
(* Dispatch.                                                             *)
(*                                                                       *)
(* Every look at the mapping a request depends on is a look at a surface *)
(* its host had while it ran (Present), and seen only grows: what the    *)
(* template layer, the tree and the guard decided is right for surfaces  *)
(* that are still in it (Reads, PanelSound, Showing).  The links of the  *)
(* homepage's chain that were tried and missing are still missing as     *)
(* long as nothing moved (ChainSound).                                   *)

Steps == {"idle", "layers", "data", "file", "home", "index", "render", "pipeline", "content",
          "guard", "handler", "views", "out", "answered"}
Given == {"out", "answered"}
Surfaces == {"single"} \cup Organizations
Origins == (Places \cup Organizations \cup {"nowhere"}) \X
           {"", "page", "index.jhs", "index.html", "/x.jhs", "/page", "/assets/a.css"}
Replies == [status : {0, 200, 303, 403, 404, 405, 408, 413, 429, 500},
            body : {"none", "envelope", "plain", "content", "rendered", "file", "source", "json",
                    "error page"},
            from : Origins]
LayerNames == {"security", "pages", "cors", "id", "logging", "limit", "body", "timeout",
               "templates"}
Requesting == [pc : Steps, method : {"GET", "POST"}, path : Paths, host : Hosts \cup {"nohost"},
               browser : BOOLEAN, class : Organizations, vhosts : BOOLEAN,
               scope : Organizations \cup {"none"}, allowed : Organizations \cup {"none"},
               acted : Organizations \cup {"none"}, file : Origins, answer : Replies,
               passed : SUBSET LayerNames, seen : SUBSET Surfaces, edited : BOOLEAN]

ClassOf(s) == IF s = "single" THEN "main" ELSE s
Moved == \E s, t \in request.seen : s # t
Theirs(org) == \E s \in request.seen : org = Scope(s)
Beyond == \E s \in request.seen : s # "main"

WorldTyped ==
    /\ mapping \in [Hosts -> Organizations \cup {"none"}] /\ dispatching \in BOOLEAN
    /\ disk \subseteq Documents /\ homepage \in {"published", "draft", "missing"}
    /\ changes \in 0..MaxChanges

RequestTyped == request \in Requesting /\ IsFiniteSet(request.seen)

Present == IF request.pc = "idle" THEN request = Idle ELSE Surface(request.host) \in request.seen

Reads ==
    \/ request.pc \in {"data", "file", "home", "index", "content", "views"}
    \/ request.pc = "pipeline" /\ request.method = "GET"
    => /\ request.method = "GET"
       /\ \E s \in request.seen : request.class = ClassOf(s) /\ request.vhosts = (s # "single")

PanelSound ==
    /\ request.pc \in {"content", "guard", "handler"} =>
          request.path \in DOMAIN Handler /\ (Mounted => Beyond)
    /\ request.pc = "handler" => request.allowed \in EditorOf /\ Theirs(request.allowed)
    /\ request.acted # "none" =>
          /\ request.pc \in Given /\ request.allowed \in EditorOf
          /\ request.acted = request.allowed \/ (request.path = "/admin/media/1/alt" /\ Moved)

FromOwn(from) ==
    /\ from # Nowhere => \/ \E s \in request.seen : from[1] \in Roots(s)
                         \/ Moved /\ Theirs(from[1])
    /\ from[1] = "public" /\ request.path # "/assets/a.css" =>
          request.seen \cap {"single", "main"} # {}

Showing ==
    /\ request.scope # "none" => Theirs(request.scope)
    /\ request.pc = "render" => FromOwn(request.file)
    /\ request.pc = "views" => /\ request.answer.from = Nowhere /\ request.answer.status = 404
                               /\ request.answer.body # "source"
    /\ request.pc \in {"home", "index", "pipeline"} /\ request.method = "GET"
       /\ request.path = "/x.jhs" /\ ~request.edited /\ request.class # "cms" =>
          <<RenderRoot, "/x.jhs">> \notin disk
    /\ request.pc \in Given /\ Mounted =>
          /\ FromOwn(request.answer.from)
          /\ request.answer.body = "source" => request.edited \/ Moved

Traced ==
    /\ request.pc \in {"views"} \cup Given => {"security", "pages", "id", "logging"} \subseteq request.passed
    /\ request.pc = "answered" /\ request.browser => request.answer.body # "envelope"

(* The homepage of a surface that does not change.                       *)

NoPage(s) == s \in {"single", "cms"} => homepage = "missing"
NoIndex(s) == s # "cms" => <<StaticRoot(s), "index.jhs">> \notin disk
NoFile(s) == s # "cms" => <<StaticRoot(s), "index.html">> \notin disk

FirstLink(s, from) ==
    \/ \E i \in DOMAIN Chain(s) : /\ from = Chain(s)[i] /\ Exists(from)
                                  /\ \A j \in 1..(i - 1) : ~Exists(Chain(s)[j])
    \/ from = Nowhere /\ \A i \in DOMAIN Chain(s) : ~Exists(Chain(s)[i])

Tried(s) ==
    /\ request.pc \in {"index", "pipeline", "views"} => NoPage(s)
    /\ request.pc \in {"pipeline", "views"} => NoIndex(s)
    /\ request.pc = "views" => NoFile(s)
    /\ request.pc = "render" =>
          /\ NoPage(s)
          /\ \/ s # "cms" /\ request.file = <<StaticRoot(s), "index.jhs">>
             \/ s # "main" /\ NoIndex(s) /\ NoFile(s) /\ request.file = <<"views", "index.jhs">>
    /\ request.pc \in Given /\ request.answer.status \in {200, 404} =>
          FirstLink(s, request.answer.from)

ChainSound ==
    request.pc # "idle" /\ Mounted /\ ~request.edited /\ request.path = "/" /\ request.method = "GET" =>
        \A s \in request.seen : request.seen = {s} => Tried(s)

DispatchInv ==
    /\ WorldTyped /\ RequestTyped /\ Present /\ Reads /\ PanelSound /\ Showing /\ Traced /\ ChainSound

-----------------------------------------------------------------------------
(* What a look at the mapping shows.                                     *)

LEMMA Looking ==
  ASSUME WorldTyped, NEW h \in Hosts \cup {"nohost"}
  PROVE  /\ Surface(h) \in Surfaces /\ Class(h) \in Organizations
         /\ Class(h) = ClassOf(Surface(h)) /\ Scope(Class(h)) = Scope(Surface(h))
         /\ (Mapped # {}) = (Surface(h) # "single")
         /\ Scope(Class(h)) \in Organizations
<1>1. Class(h) \in Organizations
  <2>1. CASE h \notin Hosts \/ mapping[h] = "none"
    BY <2>1 DEF Class, ClassIn, Organizations
  <2>2. CASE h \in Hosts /\ mapping[h] # "none"
    BY <2>2 DEF Class, ClassIn, Organizations, WorldTyped
  <2> QED BY <2>1, <2>2
<1>2. "single" \notin Organizations
  BY DispatchAssumption DEF Organizations
<1>3. CASE Mapped = {}
  <2>1. Surface(h) = "single"
    BY <1>3 DEF Surface, SurfaceIn, Mapped
  <2>2. h \notin Hosts \/ mapping[h] = "none"
    BY <1>3 DEF Mapped, MappedIn
  <2>3. Class(h) = "main"
    BY <2>2 DEF Class, ClassIn
  <2> QED BY <1>1, <1>3, <2>1, <2>3, DispatchAssumption DEF ClassOf, Scope, Surfaces, Organizations
<1>4. CASE Mapped # {}
  <2>1. Surface(h) = Class(h)
    BY <1>4 DEF Surface, SurfaceIn, Mapped, Class
  <2> QED BY <1>1, <1>2, <1>4, <2>1 DEF ClassOf, Scope, Surfaces, Organizations
<1> QED BY <1>3, <1>4

\* The tree the dispatcher picks is the one of the surface it looks at.
LEMMA TreeIsSurface ==
  ASSUME WorldTyped, RequestTyped, Present, request.pc # "idle", Mounted
  PROVE  Tree = Surface(request.host)
<1>1. request.host \in Hosts \cup {"nohost"}
  BY DEF RequestTyped, Requesting
<1>2. Surface(request.host) \in request.seen
  BY DEF Present
<1>3. CASE ~dispatching
  BY <1>2, <1>3 DEF Mounted, Tree
<1>4. CASE dispatching
  <2>1. Surface(request.host) # "single"
    BY <1>2, <1>4 DEF Mounted
  <2> QED BY <1>1, <1>4, <2>1, Looking DEF Tree, ClassOf
<1> QED BY <1>3, <1>4

LEMMA OutsideAnswers ==
  ASSUME NEW layer \in {"limit", "body", "timeout", "templates"}
  PROVE  /\ Outside(layer) \subseteq LayerNames
         /\ {"security", "pages", "id", "logging"} \subseteq Outside(layer)
<1> DEFINE place == CHOOSE i \in DOMAIN Layers : Layers[i] = layer
<1>1. DOMAIN Layers = 1..9 /\ \A i \in 1..9 : Layers[i] \in LayerNames
  BY DEF Layers, LayerNames
<1>2. Layers[1] = "security" /\ Layers[2] = "pages" /\ Layers[4] = "id" /\ Layers[5] = "logging"
  BY DEF Layers
<1>3. \E i \in DOMAIN Layers : Layers[i] = layer
  <2>1. Layers[6] = "limit" /\ Layers[7] = "body" /\ Layers[8] = "timeout" /\ Layers[9] = "templates"
    BY DEF Layers
  <2> QED BY <1>1, <2>1
<1>4. place \in DOMAIN Layers /\ Layers[place] = layer
  BY <1>3
<1>5. place \in 6..9
  <2>1. \A i \in 1..5 : Layers[i] # layer
    BY DEF Layers
  <2> QED BY <1>1, <1>4, <2>1
<1> HIDE DEF place
<1>6. Outside(layer) = {Layers[i] : i \in 1..(place - 1)}
  BY DEF Outside, place
<1> QED BY <1>1, <1>2, <1>5, <1>6

-----------------------------------------------------------------------------
(* A step of the request: the world and what the request asks for stay.  *)

Onward ==
    /\ DispatchInv /\ request.pc # "idle" /\ UNCHANGED World
    /\ request' \in Requesting /\ request'.pc # "idle"
    /\ request'.method = request.method /\ request'.path = request.path
    /\ request'.host = request.host /\ request'.seen = request.seen
    /\ request'.edited = request.edited

LEMMA OnwardKeeps ==
  ASSUME Onward
  PROVE  /\ WorldTyped' /\ RequestTyped' /\ Present'
         /\ Mounted' <=> Mounted
         /\ Moved' <=> Moved
         /\ Beyond' <=> Beyond
         /\ \A org : Theirs(org)' <=> Theirs(org)
         /\ \A from : FromOwn(from)' <=> FromOwn(from)
         /\ \A s : /\ NoPage(s)' <=> NoPage(s)
                   /\ NoIndex(s)' <=> NoIndex(s)
                   /\ NoFile(s)' <=> NoFile(s)
         /\ \A s, from : FirstLink(s, from)' <=> FirstLink(s, from)
<1>1. WorldTyped' /\ RequestTyped' /\ Present'
  <2>1. Surface(request.host)' = Surface(request.host)
    BY DEF Onward, World, Surface, SurfaceIn, MappedIn, ClassIn
  <2> QED BY <2>1 DEF Onward, DispatchInv, WorldTyped, RequestTyped, Present, World
<1>2. (Mounted' <=> Mounted) /\ (Moved' <=> Moved) /\ (Beyond' <=> Beyond)
  BY DEF Onward, World, Mounted, Moved, Beyond
<1>3. \A org : Theirs(org)' <=> Theirs(org)
  BY DEF Onward, Theirs, Scope
<1>4. \A from : FromOwn(from)' <=> FromOwn(from)
  BY <1>2, <1>3 DEF Onward, FromOwn, Roots
<1>5. \A s : (NoPage(s)' <=> NoPage(s)) /\ (NoIndex(s)' <=> NoIndex(s)) /\ (NoFile(s)' <=> NoFile(s))
  BY DEF Onward, World, NoPage, NoIndex, NoFile, StaticRoot
<1>6. \A s, from : FirstLink(s, from)' <=> FirstLink(s, from)
  BY DEF Onward, World, FirstLink, Exists, Chain
<1> QED BY <1>1, <1>2, <1>3, <1>4, <1>5, <1>6

(* An answer.                                                            *)

Chained(answer) ==
    Mounted /\ ~request.edited /\ request.path = "/" /\ request.method = "GET"
    /\ answer.status \in {200, 404}
    => \A s \in request.seen : request.seen = {s} => FirstLink(s, answer.from)

Fitting(answer) ==
    /\ answer \in Replies
    /\ Mounted => /\ FromOwn(answer.from)
                  /\ answer.body = "source" => request.edited \/ Moved
    /\ Chained(answer)

PanelActed ==
    request.acted # "none" =>
        /\ request.allowed \in EditorOf
        /\ request.acted = request.allowed \/ (request.path = "/admin/media/1/alt" /\ Moved)

LEMMA AnswerStep ==
  ASSUME Onward, request'.pc = "out", Fitting(request'.answer), PanelActed',
         {"security", "pages", "id", "logging"} \subseteq request'.passed,
         request'.scope = request.scope
  PROVE  DispatchInv'
<1> DEFINE answer == request'.answer
<1>1. WorldTyped' /\ RequestTyped' /\ Present'
  BY OnwardKeeps
<1>2. Reads'
  BY DEF Reads
<1>3. PanelSound'
  BY DEF PanelSound, PanelActed, Given
<1>4. Showing'
  <2>1. request'.scope # "none" => Theirs(request.scope)'
    BY OnwardKeeps DEF Onward, DispatchInv, Showing
  <2>2. Mounted' => FromOwn(request.answer.from)'
    <3>1. Mounted' => FromOwn(answer.from)
      BY OnwardKeeps DEF Fitting
    <3>2. FromOwn(answer.from) => (FromOwn(request.answer.from))'
      BY DEF Onward, FromOwn, Theirs, Roots, Scope, Moved
    <3> QED BY <3>1, <3>2
  <2>3. Mounted' => (request'.answer.body = "source" => request'.edited \/ Moved')
    BY OnwardKeeps DEF Fitting, Onward
  <2> QED BY <2>1, <2>2, <2>3 DEF Showing, Theirs, Scope
<1>5. Traced'
  BY DEF Traced
<1>6. ChainSound'
  <2> SUFFICES ASSUME Mounted', ~request'.edited, request'.path = "/", request'.method = "GET",
                      NEW s \in request'.seen, request'.seen = {s}
               PROVE  Tried(s)'
    BY DEF ChainSound
  <2>1. answer.status \in {200, 404} => FirstLink(s, answer.from)
    BY OnwardKeeps DEF Onward, Fitting, Chained
  <2>2. FirstLink(s, answer.from) => FirstLink(s, request.answer.from)'
    BY DEF Onward, World, FirstLink, Exists, Chain
  <2> QED BY <2>1, <2>2 DEF Tried
<1> QED BY <1>1, <1>2, <1>3, <1>4, <1>5, <1>6 DEF DispatchInv

\* What has neither a place nor anything of a page is at home everywhere.
LEMMA RefusalFits ==
  ASSUME NEW a \in Replies, a.from = Nowhere, a.body # "source", a.status \notin {200, 404}
  PROVE  Fitting(a)
<1>1. FromOwn(a.from)
  <2>1. Nowhere[1] = "nowhere"
    BY DEF Nowhere
  <2> QED BY <2>1 DEF FromOwn
<1>2. Chained(a)
  BY DEF Chained
<1> QED BY <1>1, <1>2 DEF Fitting

LEMMA EnvelopeTyped ==
  ASSUME NEW status \in {403, 404, 405, 408, 413, 429, 500}
  PROVE  /\ Envelope(status) \in Replies /\ Envelope(status).from = Nowhere
         /\ Envelope(status).body = "envelope" /\ Envelope(status).status = status
<1>1. Nowhere \in Origins
  BY DEF Nowhere, Origins
<1> QED BY <1>1 DEF Envelope, Replies

LEMMA AnswerFits ==
  ASSUME DispatchInv, UNCHANGED World, request.pc # "idle", NEW a, Fitting(a),
         NEW layer \in {"limit", "body", "timeout", "templates"}, Answer(a, layer)
  PROVE  DispatchInv'
<1>1. a \in Replies /\ Outside(layer) \subseteq LayerNames
      /\ {"security", "pages", "id", "logging"} \subseteq Outside(layer)
  BY OutsideAnswers DEF Fitting
<1>2. /\ request' \in Requesting /\ request'.pc = "out" /\ request'.answer = a
      /\ request'.passed = Outside(layer)
      /\ request'.scope = request.scope /\ request'.acted = request.acted
      /\ request'.allowed = request.allowed
      /\ request'.method = request.method /\ request'.path = request.path
      /\ request'.host = request.host /\ request'.seen = request.seen
      /\ request'.edited = request.edited
  BY <1>1 DEF Answer, DispatchInv, RequestTyped, Requesting, Steps
<1>3. Onward
  BY <1>2 DEF Onward
<1>4. PanelActed'
  BY <1>2 DEF PanelActed, DispatchInv, PanelSound, Moved
<1> QED BY <1>1, <1>2, <1>3, <1>4, AnswerStep

LEMMA IdleTyped == Idle \in Requesting /\ IsFiniteSet(Idle.seen) /\ Idle.pc = "idle"
<1>1. IsFiniteSet({})
  BY FS_EmptySet
<1>2. Nowhere \in Origins /\ NoAnswer \in Replies
  BY DEF Nowhere, Origins, NoAnswer, Replies
<1> QED BY <1>1, <1>2 DEF Idle, Requesting, Steps, Paths, Organizations

LEMMA DispatchInitInv == Init => DispatchInv
<1> SUFFICES ASSUME Init PROVE DispatchInv
  OBVIOUS
<1>1. WorldTyped
  <2>1. MaxChanges >= 0 => 0 \in 0..MaxChanges
    OBVIOUS
  <2> QED BY DispatchAssumption DEF Init, WorldTyped
<1>2. RequestTyped
  BY IdleTyped DEF Init, RequestTyped
<1>3. Present /\ Reads /\ PanelSound /\ Showing /\ Traced /\ ChainSound
  BY DEF Init, Idle, Present, Reads, PanelSound, Showing, Traced, ChainSound, Given, NoAnswer
<1> QED BY <1>1, <1>2, <1>3 DEF DispatchInv

LEMMA ArriveStep ==
  ASSUME DispatchInv, NEW target \in Requests, NEW host \in Hosts \cup {"nohost"},
         Arrive(target, host)
  PROVE  DispatchInv'
<1>1. target[1] \in {"GET", "POST"} /\ target[2] \in Paths
  BY DispatchAssumption
<1>2. Surface(host) \in Surfaces
  BY Looking DEF DispatchInv
<1>3. IsFiniteSet({Surface(host)})
  BY FS_Singleton
<1>4. /\ request' \in Requesting /\ request'.pc = "layers" /\ request'.host = host
      /\ request'.seen = {Surface(host)} /\ request'.scope = "none" /\ request'.acted = "none"
  BY <1>1, <1>2, IdleTyped DEF Arrive, Idle, Requesting, Steps
<1>5. WorldTyped' /\ RequestTyped'
  BY <1>3, <1>4 DEF Arrive, At, World, DispatchInv, WorldTyped, RequestTyped
<1>6. Present'
  <2>1. Surface(host)' = Surface(host)
    BY DEF Arrive, At, World, Surface, SurfaceIn, MappedIn, ClassIn
  <2> QED BY <1>4, <2>1 DEF Present
<1>7. Reads' /\ PanelSound' /\ Showing' /\ Traced'
  BY <1>4 DEF Reads, PanelSound, Showing, Traced, Given
<1>8. ChainSound'
  BY <1>4 DEF ChainSound, Tried, Given
<1> QED BY <1>5, <1>6, <1>7, <1>8 DEF DispatchInv

LEMMA RefuseStep == ASSUME DispatchInv, Refuse PROVE DispatchInv'
<1>1. UNCHANGED World /\ request.pc # "idle"
  BY DEF Refuse, At
<1>2. Fitting(Envelope(429)) /\ Fitting(Envelope(413))
  BY EnvelopeTyped, RefusalFits
<1> QED BY <1>1, <1>2, AnswerFits DEF Refuse, Limited, TooLarge

LEMMA TimedOutStep == ASSUME DispatchInv, TimedOut PROVE DispatchInv'
<1>1. UNCHANGED World /\ request.pc # "idle"
  BY DEF TimedOut
<1>2. Fitting(Envelope(408))
  BY EnvelopeTyped, RefusalFits
<1> QED BY <1>1, <1>2, AnswerFits DEF TimedOut

\* A look at the mapping finds a surface the host has now.
LEMMA HostNow ==
  ASSUME DispatchInv, request.pc # "idle"
  PROVE  /\ request.host \in Hosts \cup {"nohost"}
         /\ Surface(request.host) \in request.seen
         /\ Class(request.host) \in Organizations
         /\ Class(request.host) = ClassOf(Surface(request.host))
         /\ Scope(Class(request.host)) = Scope(Surface(request.host))
         /\ Scope(Class(request.host)) \in Organizations
         /\ Theirs(Scope(Class(request.host)))
         /\ (Mapped # {}) = (Surface(request.host) # "single")
BY Looking DEF DispatchInv, Present, RequestTyped, Requesting, Theirs

LEMMA ClassifyStep == ASSUME DispatchInv, Classify PROVE DispatchInv'
<1>1. request.pc = "layers" /\ UNCHANGED World
  BY DEF Classify, At
<1>2. CASE request.method = "GET"
  <2>0. request' = [request EXCEPT !.pc = "data", !.class = Class(request.host),
                                   !.vhosts = (Mapped # {})]
    BY <1>2 DEF Classify
  <2>1. /\ request' \in Requesting /\ request'.pc = "data" /\ request'.class = Class(request.host)
        /\ request'.vhosts = (Mapped # {})
        /\ request'.scope = request.scope /\ request'.acted = request.acted
        /\ request'.allowed = request.allowed
        /\ request'.method = request.method /\ request'.path = request.path
        /\ request'.host = request.host /\ request'.seen = request.seen
        /\ request'.edited = request.edited
    <3>1. request \in Requesting /\ Class(request.host) \in Organizations
      BY <1>1, HostNow DEF DispatchInv, RequestTyped
    <3> DEFINE class == Class(request.host)  vhosts == (Mapped # {})
    <3>2. class \in Organizations /\ vhosts \in BOOLEAN
      BY <3>1
    <3> HIDE DEF class, vhosts
    <3>3. request' = [request EXCEPT !.pc = "data", !.class = class, !.vhosts = vhosts]
      BY <2>0 DEF class, vhosts
    <3>4. /\ request' \in Requesting /\ request'.pc = "data" /\ request'.class = class
          /\ request'.vhosts = vhosts
          /\ request'.scope = request.scope /\ request'.acted = request.acted
          /\ request'.allowed = request.allowed
          /\ request'.method = request.method /\ request'.path = request.path
          /\ request'.host = request.host /\ request'.seen = request.seen
          /\ request'.edited = request.edited
      BY <3>1, <3>2, <3>3 DEF Requesting, Steps
    <3> QED BY <3>4 DEF class, vhosts
  <2>2. Onward
    BY <1>1, <2>1 DEF Onward
  <2>3. WorldTyped' /\ RequestTyped' /\ Present'
    BY <2>2, OnwardKeeps
  <2>4. Reads'
    BY <1>1, <1>2, <2>1, HostNow DEF Reads, ClassOf
  <2>5. PanelSound'
    BY <1>1, <2>1 DEF PanelSound, DispatchInv, Moved, Given
  <2>6. Showing'
    BY <2>1 DEF Showing, DispatchInv, Given, Theirs, Scope
  <2>7. Traced' /\ ChainSound'
    BY <2>1 DEF Traced, ChainSound, Tried, Given
  <2> QED BY <2>3, <2>4, <2>5, <2>6, <2>7 DEF DispatchInv
<1>3. CASE request.method # "GET"
  <2>1. /\ request' \in Requesting /\ request'.pc = "pipeline"
        /\ request'.scope = request.scope /\ request'.acted = request.acted
        /\ request'.allowed = request.allowed
        /\ request'.method = request.method /\ request'.path = request.path
        /\ request'.host = request.host /\ request'.seen = request.seen
        /\ request'.edited = request.edited
    BY <1>1, <1>3 DEF Classify, GoTo, DispatchInv, RequestTyped, Requesting, Steps
  <2>2. Onward
    BY <1>1, <2>1 DEF Onward
  <2>3. WorldTyped' /\ RequestTyped' /\ Present'
    BY <2>2, OnwardKeeps
  <2>4. Reads' /\ Traced' /\ ChainSound'
    BY <1>3, <2>1 DEF Reads, Traced, ChainSound, Given
  <2>5. PanelSound'
    BY <1>1, <2>1 DEF PanelSound, DispatchInv, Moved, Given
  <2>6. Showing'
    BY <1>3, <2>1 DEF Showing, DispatchInv, Given, Theirs, Scope
  <2> QED BY <2>3, <2>4, <2>5, <2>6 DEF DispatchInv
<1> QED BY <1>2, <1>3

\* What the panel did, and whom the templates read for, stay true.
Carries ==
    request'.acted = request.acted /\ request'.allowed = request.allowed

LEMMA OnwardCarries ==
  ASSUME Onward, Carries, request.pc \in Given => request'.pc \in Given
  PROVE  /\ request'.pc \notin {"content", "guard", "handler"} => PanelSound'
         /\ request'.scope = request.scope => (request.scope # "none" => Theirs(request.scope))'
<1>1. request'.pc \notin {"content", "guard", "handler"} => PanelSound'
  BY OnwardKeeps DEF Onward, Carries, DispatchInv, PanelSound
<1>2. request'.scope = request.scope => (request.scope # "none" => Theirs(request.scope))'
  BY DEF Onward, DispatchInv, Showing, Theirs, Scope
<1> QED BY <1>1, <1>2

LEMMA DataStep == ASSUME DispatchInv, Data PROVE DispatchInv'
<1>1. request.pc = "data" /\ UNCHANGED World
  BY DEF Data, At
<1> DEFINE scope == Scope(Class(request.host))
<1>2. scope \in Organizations /\ Theirs(scope)
  BY <1>1, HostNow
<1>3. request' = [request EXCEPT !.pc = "file", !.scope = scope]
  BY DEF Data
<1> HIDE DEF scope
<1>4. /\ request' \in Requesting /\ request'.pc = "file" /\ request'.scope = scope /\ Carries
      /\ request'.method = request.method /\ request'.path = request.path
      /\ request'.host = request.host /\ request'.seen = request.seen
      /\ request'.edited = request.edited /\ request'.class = request.class
      /\ request'.vhosts = request.vhosts
  BY <1>2, <1>3 DEF DispatchInv, RequestTyped, Requesting, Steps, Carries
<1>5. Onward
  BY <1>1, <1>4 DEF Onward
<1>6. WorldTyped' /\ RequestTyped' /\ Present' /\ PanelSound'
  BY <1>1, <1>4, <1>5, OnwardKeeps, OnwardCarries DEF Given
<1>7. Reads'
  BY <1>1, <1>4 DEF Reads, DispatchInv
<1>8. Showing'
  BY <1>2, <1>4 DEF Showing, Theirs, Scope, Given
<1>9. Traced' /\ ChainSound'
  BY <1>4 DEF Traced, ChainSound, Tried, Given
<1> QED BY <1>6, <1>7, <1>8, <1>9 DEF DispatchInv

\* The root templates are rendered from is the class' own.
LEMMA RenderRootOwn ==
  ASSUME DispatchInv, NEW s \in request.seen, request.class = ClassOf(s), request.class # "cms",
         NEW name
  PROVE  /\ FromOwn(<<RenderRoot, name>>) /\ RenderRoot = StaticRoot(s) /\ s # "cms"
<1>1. s \in Surfaces
  BY DEF DispatchInv, RequestTyped, Requesting
<1>2. CASE s \in Tenants
  <2>1. s \notin {"single", "main", "cms", "public"} /\ request.class = s
    BY <1>2, DispatchAssumption DEF ClassOf
  <2>2. RenderRoot = s /\ s \in Roots(s)
    BY <1>2, <2>1 DEF RenderRoot, Roots
  <2> QED BY <1>2, <2>1, <2>2 DEF FromOwn, StaticRoot
<1>3. CASE s \notin Tenants
  <2>1. s \in {"single", "main"}
    BY <1>1, <1>3 DEF Surfaces, Organizations, ClassOf
  <2>2. request.class = "main" /\ "main" \notin Tenants
    BY <2>1, DispatchAssumption DEF ClassOf
  <2>3. RenderRoot = "public" /\ "public" \in Roots(s) /\ StaticRoot(s) = "public"
    BY <1>3, <2>1, <2>2 DEF RenderRoot, Roots, StaticRoot
  <2>4. request.seen \cap {"single", "main"} # {}
    BY <2>1
  <2> QED BY <2>1, <2>3, <2>4 DEF FromOwn
<1> QED BY <1>2, <1>3

\* A request that was classified goes on to the next step of its layer.
LEMMA ReadOn ==
  ASSUME DispatchInv, request.pc \in Steps \ {"idle"}, UNCHANGED World, NEW pc \in Steps \ {"idle"},
         GoTo(pc)
  PROVE  /\ Onward /\ Carries /\ request' = [request EXCEPT !.pc = pc]
         /\ request'.pc = pc /\ request'.scope = request.scope /\ request'.class = request.class
         /\ request'.vhosts = request.vhosts /\ request'.answer = request.answer
         /\ request'.passed = request.passed /\ request'.file = request.file
<1>1. /\ request' \in Requesting /\ request'.pc = pc /\ request'.scope = request.scope
      /\ Carries /\ request' = [request EXCEPT !.pc = pc]
      /\ request'.method = request.method /\ request'.path = request.path
      /\ request'.host = request.host /\ request'.seen = request.seen
      /\ request'.edited = request.edited /\ request'.class = request.class
      /\ request'.vhosts = request.vhosts /\ request'.answer = request.answer
      /\ request'.passed = request.passed /\ request'.file = request.file
  BY DEF GoTo, DispatchInv, RequestTyped, Requesting, Carries
<1> QED BY <1>1 DEF Onward

LEMMA RenderOn ==
  ASSUME DispatchInv, request.pc \in Steps \ ({"idle"} \cup Given), UNCHANGED World, NEW file \in Documents,
         ToRender(file), FromOwn(file),
         Mounted /\ ~request.edited /\ request.path = "/" /\ request.method = "GET" =>
            \A s \in request.seen : request.seen = {s} =>
              /\ NoPage(s)
              /\ \/ s # "cms" /\ file = <<StaticRoot(s), "index.jhs">>
                 \/ s # "main" /\ NoIndex(s) /\ NoFile(s) /\ file = <<"views", "index.jhs">>
  PROVE  DispatchInv'
<1>1. file \in Origins
  BY DEF Documents, Origins
<1>2. /\ request' \in Requesting /\ request'.pc = "render" /\ request'.scope = request.scope
      /\ Carries /\ request'.file = file
      /\ request'.method = request.method /\ request'.path = request.path
      /\ request'.host = request.host /\ request'.seen = request.seen
      /\ request'.edited = request.edited
  BY <1>1 DEF ToRender, DispatchInv, RequestTyped, Requesting, Carries, Steps
<1>3. Onward
  BY <1>2 DEF Onward
<1>4. WorldTyped' /\ RequestTyped' /\ Present' /\ PanelSound'
  BY <1>2, <1>3, OnwardKeeps, OnwardCarries DEF Given
<1>5. Reads' /\ Traced'
  BY <1>2 DEF Reads, Traced, Given
<1>6. Showing'
  <2>1. FromOwn(request.file)'
    BY <1>2 DEF FromOwn, Theirs, Roots, Scope, Moved
  <2>2. (request.scope # "none" => Theirs(request.scope))'
    BY <1>2, <1>3, OnwardCarries DEF Given
  <2> QED BY <1>2, <2>1, <2>2 DEF Showing, Given
<1>7. ChainSound'
  <2> SUFFICES ASSUME Mounted', ~request'.edited, request'.path = "/", request'.method = "GET",
                      NEW s \in request'.seen, request'.seen = {s}
               PROVE  Tried(s)'
    BY DEF ChainSound
  <2>1. /\ NoPage(s)
        /\ \/ s # "cms" /\ file = <<StaticRoot(s), "index.jhs">>
           \/ s # "main" /\ NoIndex(s) /\ NoFile(s) /\ file = <<"views", "index.jhs">>
    BY <1>2, <1>3, OnwardKeeps
  <2>2. NoPage(s)' /\ (NoIndex(s) => NoIndex(s)') /\ (NoFile(s) => NoFile(s)')
    BY <1>3, <2>1, OnwardKeeps
  <2>3. StaticRoot(s)' = StaticRoot(s)
    BY DEF StaticRoot
  <2> QED BY <1>2, <2>1, <2>2, <2>3 DEF Tried, Given
<1> QED BY <1>4, <1>5, <1>6, <1>7 DEF DispatchInv

LEMMA ExplicitFileStep == ASSUME DispatchInv, ExplicitFile PROVE DispatchInv'
<1>1. request.pc = "file" /\ UNCHANGED World
  BY DEF ExplicitFile, At
<1>2. PICK s \in request.seen : request.class = ClassOf(s) /\ request.vhosts = (s # "single")
  BY <1>1 DEF DispatchInv, Reads
<1>3. request.method = "GET"
  BY <1>1 DEF DispatchInv, Reads
<1> DEFINE file == <<RenderRoot, request.path>>
<1>4. CASE request.path = "/x.jhs" /\ request.class # "cms" /\ file \in disk
  <2>1. ToRender(file)
    BY <1>4 DEF ExplicitFile
  <2>2. FromOwn(file) /\ file \in Documents
    BY <1>2, <1>4, RenderRootOwn DEF DispatchInv, WorldTyped
  <2> HIDE DEF file
  <2> QED BY <1>1, <1>4, <2>1, <2>2, RenderOn DEF Steps, Given
<1>5. CASE ~(request.path = "/x.jhs" /\ request.class # "cms" /\ file \in disk)
  <2>1. GoTo("home")
    BY <1>5 DEF ExplicitFile
  <2>2. /\ Onward /\ Carries
        /\ request'.pc = "home" /\ request'.scope = request.scope /\ request'.class = request.class
        /\ request'.vhosts = request.vhosts
    BY <1>1, <2>1, ReadOn DEF Steps
  <2>3. WorldTyped' /\ RequestTyped' /\ Present' /\ PanelSound'
    BY <1>1, <2>2, OnwardKeeps, OnwardCarries DEF Given
  <2>4. Reads'
    BY <1>2, <1>3, <2>2 DEF Reads, Onward
  <2>5. Showing'
    <3>1. (request.scope # "none" => Theirs(request.scope))'
      BY <1>1, <2>2, OnwardCarries DEF Given
    <3>2. request'.path = "/x.jhs" /\ request'.class # "cms" => <<RenderRoot', "/x.jhs">> \notin disk'
      BY <1>1, <1>5, <2>2 DEF Onward, World, RenderRoot
    <3> QED BY <2>2, <3>1, <3>2 DEF Showing, Given
  <2>6. Traced' /\ ChainSound'
    BY <2>2 DEF Traced, ChainSound, Tried, Given
  <2> QED BY <2>3, <2>4, <2>5, <2>6 DEF DispatchInv
<1> QED BY <1>4, <1>5

\* Content is read for an organization the host was one of; the main host
\* itself has none.
LEMMA ContentOwn ==
  ASSUME DispatchInv, Beyond, NEW org, Theirs(org)
  PROVE  FromOwn(<<org, "page">>) /\ org \in Organizations /\ <<org, "page">> \in Origins
<1>1. PICK s \in request.seen : org = Scope(s)
  BY DEF Theirs
<1>2. PICK t \in request.seen : t # "main"
  BY DEF Beyond
<1>3. s \in Surfaces /\ t \in Surfaces
  BY DEF DispatchInv, RequestTyped, Requesting
<1>4. org \in Organizations /\ org # "public" /\ <<org, "page">> \in Origins
  BY <1>1, <1>3, DispatchAssumption DEF Scope, Organizations, Origins
<1>5. CASE s = "main"
  BY <1>2, <1>4, <1>5 DEF FromOwn, Moved
<1>6. CASE s \in {"single", "cms"}
  <2>1. org = "cms" /\ org \in Roots(s)
    BY <1>1, <1>6, DispatchAssumption DEF Scope, Roots
  <2> QED BY <1>4, <2>1 DEF FromOwn
<1>7. CASE s \in Tenants
  <2>1. org = s /\ s \notin {"single", "main", "cms"}
    BY <1>1, <1>7, DispatchAssumption DEF Scope
  <2>2. org \in Roots(s)
    BY <2>1 DEF Roots
  <2> QED BY <1>4, <2>2 DEF FromOwn
<1> QED BY <1>3, <1>4, <1>5, <1>6, <1>7 DEF Surfaces, Organizations

\* The first link of a homepage that is configured.
LEMMA PageFirst ==
  ASSUME NEW s \in {"single", "cms"}, homepage # "missing"
  PROVE  FirstLink(s, HomePage)
<1>1. 1 \in DOMAIN Chain(s) /\ Chain(s)[1] = HomePage
  BY DEF Chain
<1>2. \A j \in 1..(1 - 1) : ~Exists(Chain(s)[j])
  OBVIOUS
<1> QED BY <1>1, <1>2 DEF FirstLink, Exists

LEMMA SoleSurface ==
  ASSUME DispatchInv, request.pc # "idle", NEW t, request.seen = {t}, t \in {"single", "cms"}
  PROVE  Scope(Class(request.host)) = "cms"
BY HostNow, DispatchAssumption DEF Scope

\* What the page lookup of a homepage answers: its surfaces are those whose
\* chain begins with that page.
LEMMA ShowPageStep ==
  ASSUME DispatchInv, request.pc = "home", UNCHANGED World,
         NEW s \in request.seen, s \in {"single", "cms"},
         NEW org, org = Scope(Class(request.host)),
         NEW state \in RowsOf(org) \ {"missing"}, ShowPage(org, state)
  PROVE  DispatchInv'
<1>1. org \in Organizations /\ Theirs(org)
  BY HostNow
<1>2. Beyond
  BY DEF Beyond
<1>3. FromOwn(<<org, "page">>) /\ <<org, "page">> \in Origins
  BY <1>1, <1>2, ContentOwn
<1>4. ASSUME NEW t \in request.seen, request.seen = {t} PROVE FirstLink(t, <<org, "page">>)
  <2>1. t \in {"single", "cms"} /\ org = "cms"
    BY <1>4, SoleSurface
  <2>2. homepage # "missing" /\ <<org, "page">> = HomePage
    BY <2>1 DEF RowsOf, HomePage
  <2> QED BY <2>1, <2>2, PageFirst
<1>5. ASSUME NEW a \in Replies, a.from = <<org, "page">>, a.body # "source" PROVE Fitting(a)
  BY <1>3, <1>4, <1>5 DEF Fitting, Chained
<1>6. Fitting(Sent("content", <<org, "page">>))
  BY <1>3, <1>5 DEF Sent, Replies
<1>7. Fitting([status |-> 404, body |-> "rendered", from |-> <<org, "page">>])
  BY <1>3, <1>5 DEF Replies
<1>8. Fitting(Envelope(500))
  BY EnvelopeTyped, RefusalFits
<1> DEFINE shown == IF state = "published" \/ org \in EditorOf
                       THEN Sent("content", <<org, "page">>)
                       ELSE [status |-> 404, body |-> "rendered", from |-> <<org, "page">>]
<1>9. Fitting(shown)
  BY <1>6, <1>7
<1>10. Answer(shown, "templates") \/ Answer(Envelope(500), "templates")
  BY DEF ShowPage
<1> HIDE DEF shown
<1> QED BY <1>8, <1>9, <1>10, AnswerFits

\* A lookup that failed is on record: nothing is promised of the chain then.
LEMMA FailedLookupStep ==
  ASSUME DispatchInv, request.pc = "home", UNCHANGED World, request.path = "/",
         request' = [request EXCEPT !.pc = "index", !.edited = TRUE]
  PROVE  DispatchInv'
<1>1. /\ request' \in Requesting /\ request'.pc = "index" /\ request'.edited = TRUE /\ Carries
      /\ request'.method = request.method /\ request'.path = request.path
      /\ request'.host = request.host /\ request'.seen = request.seen
      /\ request'.class = request.class /\ request'.vhosts = request.vhosts
      /\ request'.scope = request.scope
  BY DEF DispatchInv, RequestTyped, Requesting, Steps, Carries
<1>2. WorldTyped' /\ RequestTyped'
  BY <1>1 DEF World, DispatchInv, WorldTyped, RequestTyped
<1>3. Present'
  <2>1. Surface(request.host)' = Surface(request.host)
    BY <1>1 DEF World, Surface, SurfaceIn, MappedIn, ClassIn
  <2> QED BY <1>1, <2>1 DEF Present, DispatchInv
<1>4. Reads'
  BY <1>1 DEF Reads, DispatchInv
<1>5. PanelSound'
  BY <1>1 DEF PanelSound, DispatchInv, Carries, Given
<1>6. Showing'
  BY <1>1 DEF Showing, DispatchInv, Theirs, Scope, Given
<1>7. Traced' /\ ChainSound'
  BY <1>1 DEF Traced, ChainSound, Given
<1> QED BY <1>2, <1>3, <1>4, <1>5, <1>6, <1>7 DEF DispatchInv

LEMMA HomeStep == ASSUME DispatchInv, Home PROVE DispatchInv'
<1>1. request.pc = "home" /\ UNCHANGED World
  BY DEF Home, At
<1>2. PICK s \in request.seen : request.class = ClassOf(s) /\ request.vhosts = (s # "single")
  BY <1>1 DEF DispatchInv, Reads
<1>3. request.method = "GET"
  BY <1>1 DEF DispatchInv, Reads
<1> DEFINE org == Scope(Class(request.host))
           sought == request.path = "/" /\ (~request.vhosts \/ request.class = "cms")
<1>4. CASE sought /\ \E state \in RowsOf(org) \ {"missing"} : ShowPage(org, state)
  <2>1. s \in {"single", "cms"}
    BY <1>2, <1>4 DEF ClassOf
  <2> QED BY <1>1, <1>4, <2>1, ShowPageStep
<1>5. CASE sought /\ request' = [request EXCEPT !.pc = "index", !.edited = TRUE]
  BY <1>1, <1>5, FailedLookupStep
<1>6. CASE GoTo("index") /\ (sought => "missing" \in RowsOf(org))
  <2>2. /\ Onward /\ Carries
        /\ request'.pc = "index" /\ request'.scope = request.scope /\ request'.class = request.class
        /\ request'.vhosts = request.vhosts
    BY <1>1, <1>6, ReadOn DEF Steps
  <2>3. WorldTyped' /\ RequestTyped' /\ Present' /\ PanelSound'
    BY <1>1, <2>2, OnwardKeeps, OnwardCarries DEF Given
  <2>4. Reads'
    BY <1>2, <1>3, <2>2 DEF Reads, Onward
  <2>5. Showing'
    <3>1. (request.scope # "none" => Theirs(request.scope))'
      BY <1>1, <2>2, OnwardCarries DEF Given
    <3>2. request.path = "/x.jhs" /\ ~request.edited /\ request.class # "cms" => <<RenderRoot', "/x.jhs">> \notin disk'
      BY <1>1, <1>3, <2>2 DEF World, RenderRoot, DispatchInv, Showing
    <3> QED BY <2>2, <3>1, <3>2 DEF Showing, Given, Onward
  <2>6. ChainSound'
    <3> SUFFICES ASSUME request'.path = "/", NEW t \in request'.seen, request'.seen = {t}
                 PROVE  Tried(t)'
      BY DEF ChainSound
    <3>1. t \in {"single", "cms"} => homepage = "missing"
      <4> SUFFICES ASSUME t \in {"single", "cms"} PROVE homepage = "missing"
        OBVIOUS
      <4>1. s = t /\ request.path = "/" /\ org = "cms"
        BY <1>1, <1>2, <2>2, SoleSurface DEF Onward
      <4>2. ~request.vhosts \/ request.class = "cms"
        BY <1>2, <4>1 DEF ClassOf
      <4> QED BY <1>6, <4>1, <4>2 DEF RowsOf
    <3>2. NoPage(t)'
      BY <2>2, <3>1, OnwardKeeps DEF NoPage
    <3> QED BY <2>2, <3>2 DEF Tried, Given
  <2>7. Traced'
    BY <2>2 DEF Traced, Given
  <2> QED BY <2>3, <2>4, <2>5, <2>6, <2>7 DEF DispatchInv
<1>7. \/ sought /\ \E state \in RowsOf(org) \ {"missing"} : ShowPage(org, state)
      \/ sought /\ request' = [request EXCEPT !.pc = "index", !.edited = TRUE]
      \/ GoTo("index") /\ (sought => "missing" \in RowsOf(org))
  BY DEF Home
<1> QED BY <1>4, <1>5, <1>6, <1>7

LEMMA DirectoryIndexStep == ASSUME DispatchInv, DirectoryIndex PROVE DispatchInv'
<1>1. request.pc = "index" /\ UNCHANGED World
  BY DEF DirectoryIndex, At
<1>2. PICK s \in request.seen : request.class = ClassOf(s) /\ request.vhosts = (s # "single")
  BY <1>1 DEF DispatchInv, Reads
<1>3. request.method = "GET"
  BY <1>1 DEF DispatchInv, Reads
<1> DEFINE file == <<RenderRoot, "index.jhs">>
<1>4. CASE request.path = "/" /\ (~request.vhosts \/ request.class # "cms") /\ file \in disk
  <2>1. ToRender(file)
    BY <1>4 DEF DirectoryIndex
  <2>2. request.class # "cms"
    BY <1>2, <1>4 DEF ClassOf
  <2>3. FromOwn(file) /\ RenderRoot = StaticRoot(s) /\ s # "cms" /\ file \in Documents
    BY <1>2, <1>4, <2>2, RenderRootOwn DEF DispatchInv, WorldTyped
  <2>4. ASSUME Mounted, ~request.edited, NEW t \in request.seen, request.seen = {t}
        PROVE  NoPage(t) /\ t # "cms" /\ file = <<StaticRoot(t), "index.jhs">>
    <3>1. t = s
      BY <2>4
    <3>2. Tried(t)
      BY <1>1, <1>3, <1>4, <2>4 DEF DispatchInv, ChainSound
    <3> QED BY <1>1, <2>3, <3>1, <3>2 DEF Tried
  <2> HIDE DEF file
  <2> QED BY <1>1, <2>1, <2>3, <2>4, RenderOn DEF Steps, Given
<1>5. CASE ~(request.path = "/" /\ (~request.vhosts \/ request.class # "cms") /\ file \in disk)
  <2>1. GoTo("pipeline")
    BY <1>5 DEF DirectoryIndex
  <2>2. /\ Onward /\ Carries
        /\ request'.pc = "pipeline" /\ request'.scope = request.scope /\ request'.class = request.class
        /\ request'.vhosts = request.vhosts
    BY <1>1, <2>1, ReadOn DEF Steps
  <2>3. WorldTyped' /\ RequestTyped' /\ Present' /\ PanelSound'
    BY <1>1, <2>2, OnwardKeeps, OnwardCarries DEF Given
  <2>4. Reads'
    BY <1>2, <1>3, <2>2 DEF Reads, Onward
  <2>5. Showing'
    <3>1. (request.scope # "none" => Theirs(request.scope))'
      BY <1>1, <2>2, OnwardCarries DEF Given
    <3>2. request.path = "/x.jhs" /\ ~request.edited /\ request.class # "cms" => <<RenderRoot', "/x.jhs">> \notin disk'
      BY <1>1, <1>3, <2>2 DEF World, RenderRoot, DispatchInv, Showing
    <3> QED BY <2>2, <3>1, <3>2 DEF Showing, Given, Onward
  <2>6. ChainSound'
    <3> SUFFICES ASSUME Mounted', ~request'.edited, request'.path = "/", request'.method = "GET",
                        NEW t \in request'.seen, request'.seen = {t}
                 PROVE  Tried(t)'
      BY DEF ChainSound
    <3>1. t = s /\ Tried(t)
      BY <1>1, <2>2, OnwardKeeps DEF Onward, DispatchInv, ChainSound
    <3>2. NoIndex(t)
      <4> SUFFICES ASSUME t # "cms" PROVE <<StaticRoot(t), "index.jhs">> \notin disk
        BY DEF NoIndex
      <4>1. request.class # "cms"
        BY <1>2, <3>1 DEF ClassOf
      <4>2. RenderRoot = StaticRoot(t)
        BY <1>2, <3>1, <4>1, RenderRootOwn
      <4> QED BY <1>5, <2>2, <4>1, <4>2 DEF Onward
    <3>3. NoPage(t)
      BY <1>1, <3>1 DEF Tried
    <3>4. NoPage(t)' /\ NoIndex(t)'
      BY <2>2, <3>2, <3>3, OnwardKeeps
    <3> QED BY <2>2, <3>4 DEF Tried, Given
  <2>7. Traced'
    BY <2>2 DEF Traced, Given
  <2> QED BY <2>3, <2>4, <2>5, <2>6, <2>7 DEF DispatchInv
<1> QED BY <1>4, <1>5

\* Where the links of a surface's chain stand in it.
LEMMA ChainLinks ==
  ASSUME WorldTyped, NEW s \in Surfaces, NoPage(s)
  PROVE  /\ s # "cms" /\ Exists(<<StaticRoot(s), "index.jhs">>) =>
               FirstLink(s, <<StaticRoot(s), "index.jhs">>)
         /\ s # "cms" /\ NoIndex(s) /\ Exists(<<StaticRoot(s), "index.html">>) =>
               FirstLink(s, <<StaticRoot(s), "index.html">>)
         /\ s # "main" /\ NoIndex(s) /\ NoFile(s) /\ Exists(<<"views", "index.jhs">>) =>
               FirstLink(s, <<"views", "index.jhs">>)
         /\ /\ NoIndex(s) /\ NoFile(s)
            /\ s # "main" => ~Exists(<<"views", "index.jhs">>)
            => FirstLink(s, Nowhere)
<1> DEFINE jhs == <<StaticRoot(s), "index.jhs">>  html == <<StaticRoot(s), "index.html">>
           view == <<"views", "index.jhs">>
<1>0. /\ NoIndex(s) => (s # "cms" => ~Exists(jhs))
      /\ NoFile(s) => (s # "cms" => ~Exists(html))
  BY DEF NoIndex, NoFile, Exists, HomePage
<1>9. s \in {"single", "cms"} => ~Exists(HomePage)
  <2>1. HomePage \notin disk
    <3>1. "cms" \notin Places
      BY DispatchAssumption DEF Places
    <3> QED BY <3>1 DEF WorldTyped, Documents, HomePage
  <2> QED BY <2>1 DEF NoPage, Exists
<1>1. CASE s = "single"
  <2>1. Chain(s) = <<HomePage, jhs, html, view>>
    BY <1>1, DispatchAssumption DEF Chain, StaticRoot
  <2> HIDE DEF jhs, html, view
  <2> QED BY <1>0, <1>1, <1>9, <2>1 DEF FirstLink, jhs, html, view
<1>2. CASE s = "main"
  <2>1. Chain(s) = <<jhs, html>>
    BY <1>2, DispatchAssumption DEF Chain, StaticRoot
  <2> QED BY <1>0, <1>2, <2>1 DEF FirstLink
<1>3. CASE s = "cms"
  <2>1. Chain(s) = <<HomePage, view>>
    BY <1>3 DEF Chain
  <2> HIDE DEF jhs, html, view
  <2> QED BY <1>3, <1>9, <2>1 DEF FirstLink, jhs, html, view
<1>4. CASE s \in Tenants
  <2>1. s \notin {"single", "main", "cms"}
    BY <1>4, DispatchAssumption
  <2>2. Chain(s) = <<jhs, html, view>>
    BY <1>4, <2>1 DEF Chain, StaticRoot
  <2>3. DOMAIN Chain(s) = 1..3 /\ Chain(s)[1] = jhs /\ Chain(s)[2] = html /\ Chain(s)[3] = view
    BY <2>2
  <2> HIDE DEF jhs, html, view
  <2>4. Exists(jhs) => FirstLink(s, jhs)
    BY <2>3 DEF FirstLink
  <2>5. ~Exists(jhs) /\ Exists(html) => FirstLink(s, html)
    BY <2>3 DEF FirstLink
  <2>6. ~Exists(jhs) /\ ~Exists(html) /\ Exists(view) => FirstLink(s, view)
    <3>1. \A j \in 1..(3 - 1) : j = 1 \/ j = 2
      OBVIOUS
    <3> QED BY <2>3, <3>1 DEF FirstLink
  <2>7. ~Exists(jhs) /\ ~Exists(html) /\ ~Exists(view) => FirstLink(s, Nowhere)
    BY <2>3 DEF FirstLink
  <2> QED BY <1>0, <2>1, <2>4, <2>5, <2>6, <2>7 DEF jhs, html, view
<1> QED BY <1>1, <1>2, <1>3, <1>4 DEF Surfaces, Organizations

LEMMA RenderStep == ASSUME DispatchInv, Render PROVE DispatchInv'
<1>1. request.pc = "render" /\ UNCHANGED World
  BY DEF Render, At
<1>2. CASE request.file \in disk /\ Answer(Sent("rendered", request.file), "templates")
  <2> DEFINE a == Sent("rendered", request.file)
  <2>1. request.file \in Origins
    BY DEF DispatchInv, RequestTyped, Requesting
  <2>2. a \in Replies /\ a.from = request.file /\ a.body = "rendered"
    BY <2>1 DEF Sent, Replies
  <2>3. ASSUME Mounted, ~request.edited, request.path = "/", request.method = "GET",
               NEW s \in request.seen, request.seen = {s}
        PROVE  FirstLink(s, a.from)
    <3>1. Tried(s) /\ s \in Surfaces
      BY <1>1, <2>3 DEF DispatchInv, ChainSound, RequestTyped, Requesting
    <3>2. Exists(request.file)
      BY <1>2 DEF Exists
    <3>3. NoPage(s) /\ WorldTyped
      BY <1>1, <3>1 DEF Tried, DispatchInv
    <3> QED BY <1>1, <2>2, <3>1, <3>2, <3>3, ChainLinks DEF Tried
  <2>4. Fitting(a)
    BY <1>1, <2>2, <2>3 DEF Fitting, Chained, DispatchInv, Showing
  <2> QED BY <1>1, <1>2, <2>4, AnswerFits
<1>3. CASE Answer(Envelope(500), "templates")
  BY <1>1, <1>3, EnvelopeTyped, RefusalFits, AnswerFits
<1> QED BY <1>2, <1>3 DEF Render

(* What the trees answer.                                                *)

Unfound(a) ==
    /\ a.from = Nowhere /\ a.body # "source" /\ request.pc \in {"pipeline", "content"}
    /\ Mounted /\ ~request.edited /\ request.path = "/" =>
          \A s \in request.seen : request.seen = {s} => NoPage(s) /\ NoIndex(s) /\ NoFile(s)

LEMMA ReturnedStep ==
  ASSUME DispatchInv, UNCHANGED World, request.pc # "idle", NEW a \in Replies, Returned(a),
         IF a.status = 404 /\ request.method = "GET" THEN Unfound(a) ELSE Fitting(a),
         request.pc \notin Given
  PROVE  DispatchInv'
<1>1. /\ Outside("templates") \subseteq LayerNames
      /\ {"security", "pages", "id", "logging"} \subseteq Outside("templates")
  BY OutsideAnswers
<1> DEFINE pc == IF a.status = 404 /\ request.method = "GET" THEN "views" ELSE "out"
<1>2. /\ request' \in Requesting /\ request'.pc = pc /\ request'.answer = a
      /\ request'.passed = Outside("templates")
      /\ request'.scope = request.scope /\ Carries
      /\ request'.method = request.method /\ request'.path = request.path
      /\ request'.host = request.host /\ request'.seen = request.seen
      /\ request'.edited = request.edited /\ request'.class = request.class
      /\ request'.vhosts = request.vhosts
  <2>1. request' = [request EXCEPT !.answer = a, !.passed = Outside("templates"), !.pc = pc]
    BY DEF Returned
  <2>2. pc \in Steps /\ request \in Requesting
    BY DEF Steps, DispatchInv, RequestTyped
  <2> HIDE DEF pc
  <2> QED BY <1>1, <2>1, <2>2 DEF Requesting, Carries
<1>3. Onward
  BY <1>2 DEF Onward
<1>4. CASE ~(a.status = 404 /\ request.method = "GET")
  <2>1. PanelActed'
    BY <1>2 DEF PanelActed, DispatchInv, PanelSound, Moved, Carries
  <2> QED BY <1>1, <1>2, <1>3, <1>4, <2>1, AnswerStep
<1>5. CASE a.status = 404 /\ request.method = "GET"
  <2>1. WorldTyped' /\ RequestTyped' /\ Present' /\ PanelSound'
    BY <1>2, <1>3, <1>5, OnwardKeeps, OnwardCarries
  <2>2. Reads'
    BY <1>2, <1>5 DEF Reads, DispatchInv, Unfound
  <2>3. Showing'
    <3>1. (request.scope # "none" => Theirs(request.scope))'
      BY <1>2, <1>3, <1>5, OnwardCarries
    <3> QED BY <1>2, <1>5, <3>1 DEF Showing, Given, Unfound
  <2>4. Traced'
    BY <1>1, <1>2, <1>5 DEF Traced, Given
  <2>5. ChainSound'
    <3> SUFFICES ASSUME Mounted', ~request'.edited, request'.path = "/",
                        NEW s \in request'.seen, request'.seen = {s}
                 PROVE  Tried(s)'
      BY DEF ChainSound
    <3>1. NoPage(s) /\ NoIndex(s) /\ NoFile(s)
      BY <1>2, <1>3, <1>5, OnwardKeeps DEF Unfound
    <3>2. NoPage(s)' /\ NoIndex(s)' /\ NoFile(s)'
      BY <1>3, <3>1, OnwardKeeps
    <3> QED BY <1>2, <1>5, <3>2 DEF Tried, Given
  <2> QED BY <2>1, <2>2, <2>3, <2>4, <2>5 DEF DispatchInv
<1> QED BY <1>4, <1>5

\* The tree that answers and what it is the tree of.
LEMMA TreeNow ==
  ASSUME DispatchInv, request.pc # "idle"
  PROVE  /\ Tree \in Surfaces
         /\ Mounted => Tree \in request.seen
<1>1. Tree \in Surfaces
  BY HostNow DEF Tree, Surfaces
<1>2. Mounted => Tree \in request.seen
  BY TreeIsSurface, HostNow DEF DispatchInv
<1> QED BY <1>1, <1>2

LEMMA StaticRootOwn ==
  ASSUME NEW s \in request.seen, s \in Surfaces \ {"cms"}, NEW name
  PROVE  FromOwn(<<StaticRoot(s), name>>)
<1>1. CASE s \in Tenants
  <2>1. s \notin {"single", "main", "cms", "public"} /\ StaticRoot(s) = s
    BY <1>1, DispatchAssumption DEF StaticRoot
  <2>2. s \in Roots(s)
    BY <2>1 DEF Roots
  <2> QED BY <2>1, <2>2 DEF FromOwn
<1>2. CASE s \notin Tenants
  <2>1. s \in {"single", "main"} /\ StaticRoot(s) = "public"
    BY <1>2 DEF Surfaces, Organizations, StaticRoot
  <2>2. "public" \in Roots(s) /\ request.seen \cap {"single", "main"} # {}
    BY <2>1 DEF Roots
  <2> QED BY <2>1, <2>2 DEF FromOwn
<1> QED BY <1>1, <1>2

LEMMA RootStep ==
  ASSUME DispatchInv, request.pc = "pipeline", UNCHANGED World, request.path = "/",
         Returned(Root(Tree))
  PROVE  DispatchInv'
<1> DEFINE html == <<StaticRoot(Tree), "index.html">>
<1>1. Tree \in Surfaces /\ (Mounted => Tree \in request.seen)
  BY TreeNow
<1>2. request.pc \notin Given
  BY DEF Given
<1>3. CASE Tree # "cms" /\ request.method # "GET"
  <2>1. Root(Tree) = Envelope(405)
    BY <1>3 DEF Root
  <2>2. Fitting(Envelope(405)) /\ Envelope(405) \in Replies /\ Envelope(405).status = 405
    BY EnvelopeTyped, RefusalFits
  <2> QED BY <1>2, <2>1, <2>2, ReturnedStep
<1>4. CASE Tree # "cms" /\ request.method = "GET" /\ html \in disk
  <2> DEFINE a == Sent("file", html)
  <2>1. Root(Tree) = a
    BY <1>4 DEF Root
  <2>2. html \in Origins
    BY <1>4 DEF DispatchInv, WorldTyped, Documents, Origins
  <2>3. a \in Replies /\ a.from = html /\ a.body = "file" /\ a.status = 200
    BY <2>2 DEF Sent, Replies
  <2>4. Mounted => FromOwn(html)
    BY <1>1, <1>4, StaticRootOwn
  <2>5. ASSUME Mounted, ~request.edited, NEW s \in request.seen, request.seen = {s}
        PROVE  FirstLink(s, html)
    <3>1. s = Tree
      BY <1>1, <2>5
    <3>2. Tried(s)
      BY <1>4, <2>5 DEF DispatchInv, ChainSound
    <3>3. NoPage(s) /\ NoIndex(s) /\ WorldTyped
      BY <3>2 DEF Tried, DispatchInv
    <3>4. Exists(html)
      BY <1>4 DEF Exists
    <3> QED BY <1>1, <1>4, <3>1, <3>3, <3>4, ChainLinks
  <2>6. Fitting(a)
    BY <2>3, <2>4, <2>5 DEF Fitting, Chained
  <2> HIDE DEF a
  <2> QED BY <1>2, <2>1, <2>3, <2>6, ReturnedStep
<1>5. CASE Tree = "cms" \/ (request.method = "GET" /\ html \notin disk)
  <2>1. PICK a \in {Envelope(404), Plain(404)} : Root(Tree) = a
    BY <1>5 DEF Root
  <2>2. a \in Replies /\ a.from = Nowhere /\ a.body # "source" /\ a.status = 404
    <3>1. Nowhere \in Origins
      BY DEF Nowhere, Origins
    <3>2. Plain(404) \in Replies /\ Plain(404).from = Nowhere /\ Plain(404).body = "plain"
          /\ Plain(404).status = 404
      BY <3>1 DEF Plain, Replies
    <3> QED BY <3>2, EnvelopeTyped
  <2>3. CASE request.method # "GET"
    <3>1. Fitting(a)
      <4>1. Nowhere[1] = "nowhere"
        BY DEF Nowhere
      <4> QED BY <2>2, <2>3, <4>1 DEF Fitting, Chained, FromOwn
    <3> QED BY <1>2, <2>1, <2>2, <2>3, <3>1, ReturnedStep
  <2>4. CASE request.method = "GET"
    <3>1. ASSUME Mounted, ~request.edited, NEW s \in request.seen, request.seen = {s}
          PROVE  NoPage(s) /\ NoIndex(s) /\ NoFile(s)
      <4>1. s = Tree
        BY <1>1, <3>1
      <4>2. Tried(s)
        BY <2>4, <3>1 DEF DispatchInv, ChainSound
      <4>3. NoFile(s)
        BY <1>5, <4>1 DEF NoFile
      <4> QED BY <4>2, <4>3 DEF Tried
    <3>2. Unfound(a)
      BY <2>2, <3>1 DEF Unfound
    <3> QED BY <1>2, <2>1, <2>2, <2>4, <3>2, ReturnedStep
  <2>5. request.method \in {"GET", "POST"}
    BY DEF DispatchInv, RequestTyped, Requesting
  <2> QED BY <2>3, <2>4
<1> QED BY <1>3, <1>4, <1>5

LEMMA StaticStep ==
  ASSUME DispatchInv, request.pc = "pipeline", UNCHANGED World, request.path # "/",
         Returned(IF request.method = "GET" THEN Static(Tree, request.path) ELSE Envelope(404))
  PROVE  DispatchInv'
<1> DEFINE own    == <<StaticRoot(Tree), request.path>>
           shared == <<"public", request.path>>
<1>1. Tree \in Surfaces /\ (Mounted => Tree \in request.seen)
  BY TreeNow
<1>2. request.pc \notin Given
  BY DEF Given
<1>3. ASSUME NEW a \in {Envelope(404), Plain(404)}, Returned(a)
      PROVE  DispatchInv'
  <2>1. a \in Replies /\ a.from = Nowhere /\ a.body # "source" /\ a.status = 404
    <3>1. Nowhere \in Origins
      BY DEF Nowhere, Origins
    <3>2. Plain(404) \in Replies /\ Plain(404).from = Nowhere /\ Plain(404).body = "plain"
          /\ Plain(404).status = 404
      BY <3>1 DEF Plain, Replies
    <3> QED BY <3>2, EnvelopeTyped
  <2>2. Nowhere[1] = "nowhere"
    BY DEF Nowhere
  <2>3. Fitting(a)
    BY <2>1, <2>2 DEF Fitting, Chained, FromOwn
  <2>4. Unfound(a)
    BY <2>1 DEF Unfound
  <2> QED BY <1>2, <1>3, <2>1, <2>3, <2>4, ReturnedStep
<1>4. ASSUME NEW body \in {"source", "file"}, NEW from \in disk, Returned(Sent(body, from)),
             Mounted => FromOwn(from), Mounted /\ body = "source" => request.edited \/ Moved
      PROVE  DispatchInv'
  <2> DEFINE a == Sent(body, from)
  <2>1. from \in Origins
    BY DEF DispatchInv, WorldTyped, Documents, Origins
  <2>2. a \in Replies /\ a.from = from /\ a.body = body /\ a.status = 200
    BY <2>1 DEF Sent, Replies
  <2>3. Fitting(a)
    BY <1>4, <2>2 DEF Fitting, Chained
  <2> HIDE DEF a
  <2>4. Returned(a)
    BY <1>4 DEF a
  <2> QED BY <1>2, <2>2, <2>3, <2>4, ReturnedStep
<1>5. CASE request.method # "GET"
  BY <1>3, <1>5
<1>6. CASE request.method = "GET" /\ Tree # "cms" /\ own \in disk
  <2> DEFINE body == IF request.path = "/x.jhs" THEN "source" ELSE "file"
  <2>1. Static(Tree, request.path) = Sent(body, own)
    BY <1>6 DEF Static
  <2>2. Mounted => FromOwn(own)
    BY <1>1, <1>6, StaticRootOwn
  <2>3. ASSUME Mounted, body = "source", ~request.edited, ~Moved
        PROVE  FALSE
    <3>1. Tree \in request.seen /\ \A s \in request.seen : s = Tree
      BY <1>1, <2>3 DEF Moved
    <3>2. request.path = "/x.jhs"
      BY <2>3
    <3>3. request.class = ClassOf(Tree)
      BY <1>6, <3>1 DEF DispatchInv, Reads
    <3>4. request.class # "cms"
      BY <1>6, <3>3 DEF ClassOf
    <3>5. RenderRoot = StaticRoot(Tree)
      BY <3>1, <3>3, <3>4, RenderRootOwn
    <3>6. <<RenderRoot, "/x.jhs">> \notin disk
      BY <1>6, <2>3, <3>2, <3>4 DEF DispatchInv, Showing
    <3> QED BY <1>6, <3>2, <3>5, <3>6
  <2>4. body \in {"source", "file"}
    OBVIOUS
  <2> HIDE DEF body, own
  <2>5. Returned(Sent(body, own)) /\ own \in disk
    BY <1>6, <2>1
  <2> QED BY <1>4, <2>2, <2>3, <2>4, <2>5
<1>7. CASE /\ request.method = "GET" /\ ~(Tree # "cms" /\ own \in disk)
           /\ Tree \notin {"single", "main"} /\ request.path = "/assets/a.css" /\ shared \in disk
  <2>1. Static(Tree, request.path) = Sent("file", shared)
    BY <1>7 DEF Static
  <2>2. Mounted => FromOwn(shared)
    <3>1. "public" \in Roots(Tree)
      BY <1>7 DEF Roots
    <3> QED BY <1>1, <1>7, <3>1 DEF FromOwn
  <2> HIDE DEF shared
  <2>3. Returned(Sent("file", shared)) /\ shared \in disk
    BY <1>7, <2>1
  <2> QED BY <1>4, <2>2, <2>3
<1>8. CASE /\ request.method = "GET" /\ ~(Tree # "cms" /\ own \in disk)
           /\ ~(Tree \notin {"single", "main"} /\ request.path = "/assets/a.css" /\ shared \in disk)
  <2>1. Static(Tree, request.path) \in {Envelope(404), Plain(404)}
    BY <1>8 DEF Static
  <2> QED BY <1>3, <1>8, <2>1
<1> QED BY <1>5, <1>6, <1>7, <1>8

LEMMA PipelineStep == ASSUME DispatchInv, Pipeline PROVE DispatchInv'
<1>1. request.pc = "pipeline" /\ UNCHANGED World /\ request.pc \notin Given
  BY DEF Pipeline, At, Given
<1>2. Tree \in Surfaces /\ (Mounted => Tree \in request.seen)
  BY <1>1, TreeNow
<1>3. ASSUME request.path \in DOMAIN Handler, HasContent(Tree), request.method # Handler[request.path],
             Returned(Envelope(405))
      PROVE  DispatchInv'
  <2>1. Fitting(Envelope(405)) /\ Envelope(405) \in Replies /\ Envelope(405).status = 405
    BY EnvelopeTyped, RefusalFits
  <2> QED BY <1>1, <1>3, <2>1, ReturnedStep
<1>4. ASSUME request.path \in DOMAIN Handler, HasContent(Tree), NEW pc \in {"content", "guard"}, GoTo(pc),
             pc = "content" => request.method = "GET"
      PROVE  DispatchInv'
  <2>1. /\ Onward /\ Carries
        /\ request'.pc = pc /\ request'.scope = request.scope
    BY <1>1, <1>4, ReadOn DEF Steps
  <2>2. WorldTyped' /\ RequestTyped' /\ Present'
    BY <2>1, OnwardKeeps
  <2>3. Mounted => Beyond
    BY <1>2, <1>4 DEF HasContent, Beyond
  <2>4. PanelSound'
    <3>1. request'.acted = "none"
      BY <1>1, <2>1 DEF Carries, DispatchInv, PanelSound
    <3>2. request'.path \in DOMAIN Handler' /\ (Mounted' => Beyond')
      BY <1>4, <2>1, <2>3, OnwardKeeps DEF Onward, Handler
    <3> QED BY <1>4, <2>1, <3>1, <3>2 DEF PanelSound
  <2>5. Showing'
    <3>1. (request.scope # "none" => Theirs(request.scope))'
      BY <1>1, <2>1, OnwardCarries
    <3> QED BY <1>4, <2>1, <3>1 DEF Showing, Given
  <2>6. Traced' /\ ChainSound'
    BY <1>4, <2>1 DEF Traced, ChainSound, Tried, Given
  <2>7. Reads'
    <3>1. request'.method = request.method /\ request'.class = request.class
          /\ request'.vhosts = request.vhosts /\ request'.seen = request.seen
      BY <1>4 DEF GoTo, DispatchInv, RequestTyped, Requesting
    <3> QED BY <1>1, <1>4, <2>1, <3>1 DEF Reads, DispatchInv
  <2> QED BY <2>2, <2>4, <2>5, <2>6, <2>7 DEF DispatchInv
<1>5. ASSUME request.path = "/api",
             Returned(IF request.method = "GET" THEN Sent("json", Nowhere) ELSE Envelope(405))
      PROVE  DispatchInv'
  <2> DEFINE a == IF request.method = "GET" THEN Sent("json", Nowhere) ELSE Envelope(405)
  <2>1. Envelope(405) \in Replies /\ Envelope(405).status = 405 /\ Fitting(Envelope(405))
    BY EnvelopeTyped, RefusalFits
  <2>2. Sent("json", Nowhere) \in Replies /\ Sent("json", Nowhere).status = 200
    BY DEF Sent, Replies, Nowhere, Origins
  <2>3. Fitting(Sent("json", Nowhere))
    <3>1. Nowhere[1] = "nowhere"
      BY DEF Nowhere
    <3> QED BY <1>5, <2>2, <3>1 DEF Fitting, FromOwn, Chained, Sent
  <2>4. a \in Replies /\ a.status # 404 /\ Fitting(a) /\ Returned(a)
    BY <1>5, <2>1, <2>2, <2>3
  <2> HIDE DEF a
  <2> QED BY <1>1, <2>4, ReturnedStep
<1>6. \/ /\ request.path \in DOMAIN Handler /\ HasContent(Tree)
         /\ request.method # Handler[request.path] /\ Returned(Envelope(405))
      \/ /\ request.path \in DOMAIN Handler /\ HasContent(Tree)
         /\ \E pc \in {"content", "guard"} : GoTo(pc) /\ (pc = "content" => request.method = "GET")
      \/ /\ request.path = "/api"
         /\ Returned(IF request.method = "GET" THEN Sent("json", Nowhere) ELSE Envelope(405))
      \/ request.path = "/" /\ Returned(Root(Tree))
      \/ /\ request.path # "/"
         /\ Returned(IF request.method = "GET" THEN Static(Tree, request.path) ELSE Envelope(404))
  BY DEF Pipeline, Handler
<1> QED BY <1>1, <1>3, <1>4, <1>5, <1>6, RootStep, StaticStep

LEMMA ContentStep == ASSUME DispatchInv, Content PROVE DispatchInv'
<1>1. request.pc = "content" /\ UNCHANGED World /\ request.pc \notin Given
  BY DEF Content, At, Given
<1> DEFINE org == Scope(Class(request.host))  a == Sent("content", <<org, "page">>)
<1>2. org \in Organizations /\ Theirs(org)
  BY <1>1, HostNow
<1>3. request.path # "/" /\ (Mounted => Beyond)
  BY <1>1 DEF DispatchInv, PanelSound, Handler
<1>4. <<org, "page">> \in Origins
  BY <1>2 DEF Origins
<1>5. a \in Replies /\ a.from = <<org, "page">> /\ a.body = "content" /\ a.status = 200
  BY <1>4 DEF Sent, Replies
<1>6. Mounted => FromOwn(<<org, "page">>)
  BY <1>2, <1>3, ContentOwn
<1>7. Fitting(a)
  BY <1>3, <1>5, <1>6 DEF Fitting, Chained
<1>8. CASE Returned(a)
  <2> HIDE DEF a
  <2> QED BY <1>1, <1>5, <1>7, <1>8, ReturnedStep
<1>9. CASE Returned(Unshown)
  <2>1. /\ Unshown \in Replies /\ Unshown.from = Nowhere /\ Unshown.body # "source"
        /\ Unshown.status = 404
    BY DEF Unshown, Replies, Nowhere, Origins
  <2>2. Nowhere[1] = "nowhere"
    BY DEF Nowhere
  <2>3. Fitting(Unshown)
    BY <1>3, <2>1, <2>2 DEF Fitting, Chained, FromOwn
  <2>4. Unfound(Unshown)
    BY <1>1, <1>3, <2>1 DEF Unfound
  <2> QED BY <1>1, <1>9, <2>1, <2>3, <2>4, ReturnedStep
<1>10. CASE Returned(Envelope(500))
  <2>1. Fitting(Envelope(500)) /\ Envelope(500) \in Replies /\ Envelope(500).status = 500
    BY EnvelopeTyped, RefusalFits
  <2> QED BY <1>1, <1>10, <2>1, ReturnedStep
<1> QED BY <1>8, <1>9, <1>10 DEF Content

LEMMA GuardStep == ASSUME DispatchInv, Guard PROVE DispatchInv'
<1>1. request.pc = "guard" /\ UNCHANGED World /\ request.pc \notin Given
  BY DEF Guard, At, Given
<1> DEFINE org == Scope(Class(request.host))
           login == [status |-> 303, body |-> "plain", from |-> Nowhere]
<1>2. org \in Organizations /\ Theirs(org)
  BY <1>1, HostNow
<1>3. CASE Returned(login)
  <2>1. login \in Replies /\ login.status = 303 /\ login.from = Nowhere /\ login.body = "plain"
    BY DEF Replies, Nowhere, Origins
  <2> HIDE DEF login
  <2>2. Fitting(login)
    BY <2>1, RefusalFits
  <2> QED BY <1>1, <1>3, <2>1, <2>2, ReturnedStep
<1>4. CASE Returned(Envelope(403))
  <2>1. Fitting(Envelope(403)) /\ Envelope(403) \in Replies /\ Envelope(403).status = 403
    BY EnvelopeTyped, RefusalFits
  <2> QED BY <1>1, <1>4, <2>1, ReturnedStep
<1>5. CASE org \in EditorOf /\ request' = [request EXCEPT !.pc = "handler", !.allowed = org]
  <2> HIDE DEF org
  <2>1. /\ request' \in Requesting /\ request'.pc = "handler" /\ request'.allowed = org
        /\ request'.acted = request.acted
        /\ request'.method = request.method /\ request'.path = request.path
        /\ request'.host = request.host /\ request'.seen = request.seen
        /\ request'.edited = request.edited /\ request'.scope = request.scope
    BY <1>2, <1>5 DEF DispatchInv, RequestTyped, Requesting, Steps
  <2>2. Onward
    BY <1>1, <2>1 DEF Onward
  <2>3. WorldTyped' /\ RequestTyped' /\ Present'
    BY <2>2, OnwardKeeps
  <2>4. PanelSound'
    <3>1. request'.acted = "none"
      BY <1>1, <2>1 DEF DispatchInv, PanelSound
    <3>2. request'.path \in DOMAIN Handler' /\ (Mounted' => Beyond')
      BY <1>1, <2>1, <2>2, OnwardKeeps DEF DispatchInv, PanelSound, Handler
    <3>3. request'.allowed \in EditorOf /\ Theirs(request.allowed)'
      BY <1>2, <1>5, <2>1 DEF Theirs, Scope
    <3> QED BY <3>1, <3>2, <3>3 DEF PanelSound
  <2>5. Showing'
    <3>1. (request.scope # "none" => Theirs(request.scope))'
      BY <2>1 DEF DispatchInv, Showing, Theirs, Scope
    <3> QED BY <2>1, <3>1 DEF Showing, Given
  <2>6. Reads' /\ Traced' /\ ChainSound'
    BY <2>1 DEF Reads, Traced, ChainSound, Tried, Given
  <2> QED BY <2>3, <2>4, <2>5, <2>6 DEF DispatchInv
<1> QED BY <1>3, <1>4, <1>5 DEF Guard

LEMMA ActStep == ASSUME DispatchInv, Act PROVE DispatchInv'
<1>1. request.pc = "handler" /\ UNCHANGED World
  BY DEF Act, At
<1> DEFINE a == Sent("content", <<ActsOn, "page">>)
<1>2. request.allowed \in EditorOf /\ Theirs(request.allowed)
  BY <1>1 DEF DispatchInv, PanelSound
<1>3. request.path # "/" /\ (Mounted => Beyond)
  BY <1>1 DEF DispatchInv, PanelSound, Handler
<1>4. Theirs(ActsOn)
  BY <1>1, <1>2, HostNow DEF ActsOn
<1>5. ActsOn \in Organizations
  <2>1. \A s \in Surfaces : Scope(s) \in Organizations
    BY DEF Scope, Organizations
  <2> QED BY <1>4, <2>1 DEF Theirs, DispatchInv, RequestTyped, Requesting
<1>6. ActsOn = request.allowed \/ (request.path = "/admin/media/1/alt" /\ Moved)
  <2>1. CASE request.path # "/admin/media/1/alt"
    BY <2>1 DEF ActsOn
  <2>2. CASE request.path = "/admin/media/1/alt"
    <3>1. ActsOn = Scope(Surface(request.host)) /\ Surface(request.host) \in request.seen
      BY <1>1, <2>2, HostNow DEF ActsOn
    <3>2. PICK s \in request.seen : request.allowed = Scope(s)
      BY <1>2 DEF Theirs
    <3> QED BY <2>2, <3>1, <3>2 DEF Moved
  <2> QED BY <2>1, <2>2
<1>7. a \in Replies /\ a.from = <<ActsOn, "page">> /\ a.body = "content"
  BY <1>5 DEF Sent, Replies, Origins
<1>8. Fitting(a)
  <2>1. Mounted => FromOwn(<<ActsOn, "page">>)
    BY <1>3, <1>4, ContentOwn
  <2> QED BY <1>3, <1>7, <2>1 DEF Fitting, Chained
<1>9. request' = [request EXCEPT !.pc = "out", !.acted = ActsOn,
                                 !.passed = Outside("templates"), !.answer = a]
  BY DEF Act
<1>10. /\ Outside("templates") \subseteq LayerNames
       /\ {"security", "pages", "id", "logging"} \subseteq Outside("templates")
  BY OutsideAnswers
<1> HIDE DEF a
<1>11. /\ request' \in Requesting /\ request'.pc = "out" /\ request'.answer = a
       /\ request'.passed = Outside("templates") /\ request'.acted = ActsOn
       /\ request'.allowed = request.allowed /\ request'.scope = request.scope
       /\ request'.method = request.method /\ request'.path = request.path
       /\ request'.host = request.host /\ request'.seen = request.seen
       /\ request'.edited = request.edited
  BY <1>5, <1>7, <1>9, <1>10 DEF DispatchInv, RequestTyped, Requesting, Steps
<1>12. Onward
  BY <1>1, <1>11 DEF Onward
<1>13. PanelActed'
  BY <1>2, <1>6, <1>11 DEF PanelActed, Moved
<1> QED BY <1>8, <1>10, <1>11, <1>12, <1>13, AnswerStep

LEMMA ViewsStep == ASSUME DispatchInv, Views PROVE DispatchInv'
<1>1. request.pc = "views" /\ UNCHANGED World
  BY DEF Views, At
<1>2. PICK s \in request.seen : request.class = ClassOf(s) /\ request.vhosts = (s # "single")
  BY <1>1 DEF DispatchInv, Reads
<1>3. request.method = "GET" /\ s \in Surfaces
  BY <1>1 DEF DispatchInv, Reads, RequestTyped, Requesting
<1> DEFINE view == <<"views", IF request.path = "/" THEN "index.jhs" ELSE request.path>>
           open == ~request.vhosts \/ request.class = "cms" \/ request.class \in Tenants
<1>4. open <=> s # "main"
  BY <1>2, <1>3, DispatchAssumption DEF ClassOf, Surfaces, Organizations
<1>5. ASSUME Mounted, ~request.edited, request.path = "/", NEW t \in request.seen, request.seen = {t}
      PROVE  t = s /\ NoPage(t) /\ NoIndex(t) /\ NoFile(t)
  <2>1. Tried(t)
    BY <1>1, <1>3, <1>5 DEF DispatchInv, ChainSound
  <2> QED BY <1>1, <1>5, <2>1 DEF Tried
<1>6. CASE open /\ request.path \notin {"/admin", "/admin/media/1/alt"} /\ view \in disk
  <2>1. ToRender(view) /\ view \in Documents
    BY <1>6 DEF Views, DispatchInv, WorldTyped
  <2>2. FromOwn(view)
    <3>1. "views" \in Roots(s)
      BY <1>4, <1>6 DEF Roots
    <3> QED BY <3>1 DEF FromOwn
  <2>3. request.path = "/" => view = <<"views", "index.jhs">>
    OBVIOUS
  <2> HIDE DEF view
  <2> QED BY <1>1, <1>4, <1>5, <1>6, <2>1, <2>2, <2>3, RenderOn DEF Steps, Given
<1>7. CASE ~(open /\ request.path \notin {"/admin", "/admin/media/1/alt"} /\ view \in disk)
  <2>1. GoTo("out")
    BY <1>7 DEF Views
  <2>2. /\ Onward /\ Carries
        /\ request'.pc = "out" /\ request'.scope = request.scope /\ request'.answer = request.answer
        /\ request'.passed = request.passed
    BY <1>1, <2>1, ReadOn DEF Steps
  <2>3. request.answer \in Replies /\ request.answer.from = Nowhere /\ request.answer.body # "source"
    BY <1>1 DEF DispatchInv, RequestTyped, Requesting, Showing
  <2>4. Fitting(request.answer)
    <3>1. Nowhere[1] = "nowhere"
      BY DEF Nowhere
    <3>2. Chained(request.answer)
      <4> SUFFICES ASSUME Mounted, ~request.edited, request.path = "/",
                          NEW t \in request.seen, request.seen = {t}
                   PROVE  FirstLink(t, Nowhere)
        BY <2>3 DEF Chained
      <4>1. t = s /\ NoPage(t) /\ NoIndex(t) /\ NoFile(t)
        BY <1>5
      <4>2. t # "main" => ~Exists(<<"views", "index.jhs">>)
        BY <1>4, <1>7, <4>1 DEF Exists, HomePage
      <4>3. t \in Surfaces /\ WorldTyped
        BY <1>3, <4>1 DEF DispatchInv
      <4> QED BY <4>1, <4>2, <4>3, ChainLinks
    <3> QED BY <2>3, <3>1, <3>2 DEF Fitting, FromOwn
  <2>5. PanelActed'
    BY <1>1, <2>2 DEF PanelActed, Carries, DispatchInv, PanelSound, Given
  <2>6. {"security", "pages", "id", "logging"} \subseteq request.passed
    BY <1>1 DEF DispatchInv, Traced
  <2> QED BY <2>2, <2>4, <2>5, <2>6, AnswerStep
<1> QED BY <1>6, <1>7

LEMMA FinishStep == ASSUME DispatchInv, NEW browser \in BOOLEAN, Finish(browser) PROVE DispatchInv'
<1>1. request.pc = "out" /\ UNCHANGED World /\ request.pc \in Given
  BY DEF Finish, At, Given
<1> DEFINE body == IF request.answer.body = "envelope" /\ browser /\ "pages" \in request.passed
                   THEN "error page" ELSE request.answer.body
           a == [request.answer EXCEPT !.body = body]
<1>2. request.answer \in Replies /\ "pages" \in request.passed
  BY <1>1 DEF DispatchInv, RequestTyped, Requesting, Traced
<1>3. /\ a \in Replies /\ a.from = request.answer.from /\ a.status = request.answer.status
      /\ a.body = "source" => request.answer.body = "source"
      /\ browser => a.body # "envelope"
  <2>1. /\ body \in {"none", "envelope", "plain", "content", "rendered", "file", "source", "json",
                     "error page"}
        /\ body = "source" => request.answer.body = "source"
        /\ browser => body # "envelope"
    BY <1>2 DEF Replies
  <2> HIDE DEF body
  <2>2. a \in Replies
    <3> DEFINE BodyKinds == {"none", "envelope", "plain", "content", "rendered", "file", "source",
                             "json", "error page"}
    <3>1. body \in BodyKinds
      BY <2>1
    <3>2. Replies = [status : {0, 200, 303, 403, 404, 405, 408, 413, 429, 500}, body : BodyKinds,
                     from : Origins]
      BY DEF Replies
    <3> HIDE DEF BodyKinds
    <3> QED BY <1>2, <3>1, <3>2
  <2>3. a.from = request.answer.from /\ a.status = request.answer.status /\ a.body = body
    BY <1>2 DEF Replies
  <2> QED BY <2>1, <2>2, <2>3
<1>4. request' = [request EXCEPT !.pc = "answered", !.browser = browser, !.answer = a]
  BY <1>2 DEF Finish, DispatchInv, RequestTyped, Requesting, Replies
<1> HIDE DEF a
<1>5. /\ request' \in Requesting /\ request'.pc = "answered" /\ request'.answer = a
      /\ request'.browser = browser /\ request'.passed = request.passed
      /\ Carries /\ request'.scope = request.scope
      /\ request'.method = request.method /\ request'.path = request.path
      /\ request'.host = request.host /\ request'.seen = request.seen
      /\ request'.edited = request.edited
  BY <1>3, <1>4 DEF DispatchInv, RequestTyped, Requesting, Steps, Carries
<1>6. Onward
  BY <1>1, <1>5 DEF Onward
<1>7. WorldTyped' /\ RequestTyped' /\ Present' /\ PanelSound'
  BY <1>5, <1>6, OnwardKeeps, OnwardCarries DEF Given
<1>8. Reads' /\ Traced'
  BY <1>1, <1>3, <1>5 DEF Reads, Traced, DispatchInv, Given
<1>9. Showing'
  <2>1. (request.scope # "none" => Theirs(request.scope))'
    BY <1>5, <1>6, OnwardCarries DEF Given
  <2>2. Mounted' => FromOwn(request.answer.from) /\ (a.body = "source" => request.edited \/ Moved)
    BY <1>1, <1>3, <1>6, OnwardKeeps DEF DispatchInv, Showing
  <2>3. FromOwn(request.answer.from) => FromOwn(request.answer.from)'
    BY <1>3, <1>5 DEF FromOwn, Theirs, Roots, Scope, Moved
  <2>4. Moved' <=> Moved
    BY <1>6, OnwardKeeps
  <2> QED BY <1>5, <2>1, <2>2, <2>3, <2>4 DEF Showing
<1>10. ChainSound'
  <2> SUFFICES ASSUME Mounted', ~request'.edited, request'.path = "/", request'.method = "GET",
                      NEW s \in request'.seen, request'.seen = {s}
               PROVE  Tried(s)'
    BY DEF ChainSound
  <2>1. Tried(s)
    BY <1>1, <1>5, <1>6, OnwardKeeps DEF DispatchInv, ChainSound
  <2>2. a.status \in {200, 404} => FirstLink(s, request.answer.from)
    BY <1>1, <1>3, <2>1 DEF Tried
  <2>3. request'.answer.from = request.answer.from /\ disk' = disk /\ homepage' = homepage
    BY <1>1, <1>3, <1>5 DEF World
  <2>4. FirstLink(s, request.answer.from) => FirstLink(s, request.answer.from)'
    BY <2>3 DEF FirstLink, Exists, Chain
  <2> QED BY <1>5, <2>2, <2>4 DEF Tried
<1> QED BY <1>7, <1>8, <1>9, <1>10 DEF DispatchInv

LEMMA CloseStep == ASSUME DispatchInv, Close PROVE DispatchInv'
<1>1. request' = Idle /\ UNCHANGED World
  BY DEF Close, At
<1>2. WorldTyped' /\ RequestTyped'
  BY <1>1, IdleTyped DEF DispatchInv, WorldTyped, RequestTyped, World
<1>3. Present' /\ Reads' /\ PanelSound' /\ Showing' /\ Traced' /\ ChainSound'
  BY <1>1 DEF Idle, Present, Reads, PanelSound, Showing, Traced, ChainSound, Given
<1> QED BY <1>2, <1>3 DEF DispatchInv

-----------------------------------------------------------------------------
(* What happens beside the request: the surfaces seen grow, files and    *)
(* the default page change only with edited set.                         *)

LEMMA BesideStep ==
  ASSUME DispatchInv, WorldTyped', NEW edited \in BOOLEAN,
         Beside(Surface(request.host)', edited),
         ~edited => UNCHANGED <<disk, homepage>>
  PROVE  DispatchInv'
<1> DEFINE now == Surface(request.host)'
<1>1. dispatching' = dispatching
      /\ request' = [request EXCEPT !.seen = IF @ = {} THEN {} ELSE @ \cup {now},
                                    !.edited = IF request.pc = "idle" THEN FALSE ELSE @ \/ edited]
  BY DEF Beside
<1>2. CASE request.pc = "idle"
  <2>1. request = Idle
    BY <1>2 DEF DispatchInv, Present
  <2>2. request' = Idle
    BY <1>1, <2>1 DEF Idle
  <2>3. RequestTyped'
    BY <2>2, IdleTyped DEF RequestTyped
  <2>4. Present' /\ Reads' /\ PanelSound' /\ Showing' /\ Traced' /\ ChainSound'
    BY <2>2 DEF Idle, Present, Reads, PanelSound, Showing, Traced, ChainSound, Given
  <2> QED BY <2>3, <2>4 DEF DispatchInv
<1>3. CASE request.pc # "idle"
  <2>1. request \in Requesting /\ request.seen # {} /\ IsFiniteSet(request.seen)
    BY <1>3, HostNow DEF DispatchInv, RequestTyped
  <2>2. (Surface(request.host) \in Surfaces)'
    <3>1. request.host \in Hosts \cup {"nohost"} /\ request'.host = request.host
      BY <1>1, <2>1 DEF Requesting
    <3>2. ASSUME NEW h \in Hosts \cup {"nohost"} PROVE SurfaceIn(mapping', h) \in Surfaces
      <4>1. CASE h \notin Hosts \/ mapping'[h] = "none"
        BY <4>1 DEF SurfaceIn, ClassIn, Surfaces, Organizations
      <4>2. CASE h \in Hosts /\ mapping'[h] # "none"
        BY <4>2 DEF SurfaceIn, ClassIn, Surfaces, Organizations, WorldTyped
      <4> QED BY <4>1, <4>2
    <3>3. Surface(request.host)' = SurfaceIn(mapping', request'.host)
      BY DEF Surface
    <3> QED BY <3>1, <3>2, <3>3 DEF Surfaces, Organizations
  <2>3. now \in Surfaces
    BY <2>2
  <2> HIDE DEF now
  <2> DEFINE seen == request.seen \cup {now}  told == request.edited \/ edited
  <2>4. seen \subseteq Surfaces /\ told \in BOOLEAN /\ IsFiniteSet(seen)
    BY <2>1, <2>3, FS_AddElement DEF Requesting
  <2>5. request' = [request EXCEPT !.seen = seen, !.edited = told]
    BY <1>1, <1>3, <2>1 DEF Requesting
  <2> HIDE DEF seen, told
  <2>6. /\ request' \in Requesting /\ request'.seen = seen /\ request'.edited = told
        /\ request'.pc = request.pc /\ request'.method = request.method
        /\ request'.path = request.path /\ request'.host = request.host
        /\ request'.class = request.class /\ request'.vhosts = request.vhosts
        /\ request'.scope = request.scope /\ request'.allowed = request.allowed
        /\ request'.acted = request.acted /\ request'.file = request.file
        /\ request'.answer = request.answer /\ request'.passed = request.passed
        /\ request'.browser = request.browser
    BY <2>1, <2>4, <2>5 DEF Requesting
  <2>7. request.seen \subseteq request'.seen /\ (request.edited => request'.edited)
        /\ (~request'.edited => UNCHANGED <<disk, homepage>>)
    BY <2>6 DEF seen, told
  <2>8. /\ Moved => Moved'
        /\ Beyond => Beyond'
        /\ Mounted' => Mounted
        /\ \A org : Theirs(org) => Theirs(org)'
    BY <1>1, <2>1, <2>7 DEF Moved, Beyond, Mounted, Theirs, Scope
  <2>9. \A from : FromOwn(from) => FromOwn(from)'
    BY <2>6, <2>7, <2>8 DEF FromOwn, Roots
  <2>10. RequestTyped'
    BY <2>4, <2>6 DEF RequestTyped
  <2>11. Present'
    BY <1>3, <2>6 DEF Present, now, seen
  <2>12. Reads'
    BY <2>6, <2>7 DEF DispatchInv, Reads
  <2>13. PanelSound'
    <3>1. Theirs(request.allowed) => Theirs(request.allowed)'
      BY <2>6, <2>7 DEF Theirs, Scope
    <3> QED BY <2>6, <2>8, <3>1 DEF DispatchInv, PanelSound, Handler
  <2>14. Showing'
    <3>1. (request.scope # "none" => Theirs(request.scope))'
      BY <2>6, <2>7 DEF DispatchInv, Showing, Theirs, Scope
    <3>2. FromOwn(request.file) => FromOwn(request.file)'
      <4>1. Moved => Moved'
        BY <2>8
      <4> QED BY <2>6, <2>7, <4>1 DEF FromOwn, Roots, Theirs, Scope
    <3>3. FromOwn(request.answer.from) => FromOwn(request.answer.from)'
      <4>1. Moved => Moved'
        BY <2>8
      <4> QED BY <2>6, <2>7, <4>1 DEF FromOwn, Roots, Theirs, Scope
    <3>4. /\ request.pc \in {"home", "index", "pipeline"} /\ request.method = "GET"
             /\ request.path = "/x.jhs" /\ ~request'.edited /\ request.class # "cms" =>
                <<RenderRoot', "/x.jhs">> \notin disk'
      BY <2>6, <2>7 DEF DispatchInv, Showing, RenderRoot
    <3> QED BY <2>6, <2>7, <2>8, <3>1, <3>2, <3>3, <3>4 DEF DispatchInv, Showing
  <2>15. Traced'
    BY <2>6 DEF DispatchInv, Traced
  <2>16. ChainSound'
    <3> SUFFICES ASSUME Mounted', ~request'.edited, request'.path = "/", request'.method = "GET",
                        NEW s \in request'.seen, request'.seen = {s}
                 PROVE  Tried(s)'
      BY DEF ChainSound
    <3>1. request.seen = {s} /\ UNCHANGED <<disk, homepage>> /\ ~request.edited
      BY <2>1, <2>7
    <3>2. Tried(s)
      BY <1>3, <2>6, <2>8, <3>1 DEF DispatchInv, ChainSound
    <3>3. FirstLink(s, request.answer.from) => FirstLink(s, request.answer.from)'
      <4>1. request'.answer.from = request.answer.from /\ disk' = disk /\ homepage' = homepage
        BY <2>6, <3>1
      <4> QED BY <4>1 DEF FirstLink, Exists, Chain
    <3> QED BY <2>6, <3>1, <3>2, <3>3 DEF Tried, NoPage, NoIndex, NoFile, StaticRoot
  <2> QED BY <2>10, <2>11, <2>12, <2>13, <2>14, <2>15, <2>16 DEF DispatchInv
<1> QED BY <1>2, <1>3

LEMMA SwapStep == ASSUME DispatchInv, Swap PROVE DispatchInv'
<1>1. PICK h \in Hosts, org \in Organizations \cup {"none"} :
         /\ mapping' = [mapping EXCEPT ![h] = org]
         /\ Beside(SurfaceIn([mapping EXCEPT ![h] = org], request.host), FALSE)
         /\ UNCHANGED <<disk, homepage>>
  BY DEF Swap
<1>2. WorldTyped'
  BY <1>1, DispatchAssumption DEF DispatchInv, WorldTyped, Beside
<1>3. request'.host = request.host
  BY <1>1 DEF Beside, DispatchInv, RequestTyped, Requesting
<1>4. SurfaceIn([mapping EXCEPT ![h] = org], request.host) = Surface(request.host)'
  BY <1>1, <1>3 DEF Surface, SurfaceIn, MappedIn, ClassIn
<1>5. Beside(Surface(request.host)', FALSE)
  BY <1>1, <1>4
<1> QED BY <1>1, <1>2, <1>5, BesideStep

LEMMA EditStep == ASSUME DispatchInv, Edit PROVE DispatchInv'
<1>1. PICK file \in UNION Disks :
         /\ disk' = IF file \in disk THEN disk \ {file} ELSE disk \cup {file}
         /\ Beside(Surface(request.host), TRUE)
         /\ UNCHANGED <<mapping, homepage>>
  BY DEF Edit
<1>2. file \in Documents
  BY DispatchAssumption
<1>3. WorldTyped'
  BY <1>1, <1>2, DispatchAssumption DEF DispatchInv, WorldTyped, Beside
<1>4. request'.host = request.host
  BY <1>1 DEF Beside, DispatchInv, RequestTyped, Requesting
<1>5. Surface(request.host)' = Surface(request.host)
  BY <1>1, <1>4 DEF Surface, SurfaceIn, MappedIn, ClassIn
<1>6. Beside(Surface(request.host)', TRUE)
  BY <1>1, <1>5
<1> QED BY <1>3, <1>6, BesideStep

LEMMA PublishStep == ASSUME DispatchInv, Publish PROVE DispatchInv'
<1>1. PICK state \in {"published", "draft", "missing"} :
         /\ homepage' = state
         /\ Beside(Surface(request.host), TRUE)
         /\ UNCHANGED <<mapping, disk>>
  BY DEF Publish
<1>2. WorldTyped'
  BY <1>1, DispatchAssumption DEF DispatchInv, WorldTyped, Beside
<1>3. request'.host = request.host
  BY <1>1 DEF Beside, DispatchInv, RequestTyped, Requesting
<1>4. Surface(request.host)' = Surface(request.host)
  BY <1>1, <1>3 DEF Surface, SurfaceIn, MappedIn, ClassIn
<1>5. Beside(Surface(request.host)', TRUE)
  BY <1>1, <1>4
<1> QED BY <1>2, <1>5, BesideStep

LEMMA DispatchStepInv == DispatchInv /\ [Next]_vars => DispatchInv'
<1> SUFFICES ASSUME DispatchInv, [Next]_vars PROVE DispatchInv'
  OBVIOUS
<1>1. ASSUME NEW target \in Requests, NEW host \in Hosts \cup {"nohost"}, Arrive(target, host)
      PROVE  DispatchInv'
  BY <1>1, ArriveStep
<1>2. ASSUME NEW browser \in BOOLEAN, Finish(browser) PROVE DispatchInv'
  BY <1>2, FinishStep
<1>3. CASE Refuse \/ TimedOut \/ Classify \/ Data \/ ExplicitFile \/ Home \/ DirectoryIndex
  BY <1>3, RefuseStep, TimedOutStep, ClassifyStep, DataStep, ExplicitFileStep, HomeStep,
     DirectoryIndexStep
<1>4. CASE Render \/ Pipeline \/ Content \/ Guard \/ Act \/ Views \/ Close
  BY <1>4, RenderStep, PipelineStep, ContentStep, GuardStep, ActStep, ViewsStep, CloseStep
<1>5. CASE Swap \/ Edit \/ Publish
  BY <1>5, SwapStep, EditStep, PublishStep
<1>6. CASE UNCHANGED vars
  <2>1. WorldTyped' /\ RequestTyped'
    BY <1>6 DEF vars, DispatchInv, WorldTyped, RequestTyped
  <2>2. Present' /\ Reads'
    BY <1>6 DEF vars, DispatchInv, Present, Reads, Surface, SurfaceIn, MappedIn, ClassIn
  <2>3. PanelSound' /\ Traced'
    BY <1>6 DEF vars, DispatchInv, PanelSound, Traced, Mounted, Beyond, Theirs, Moved, Scope
  <2>4. request' = request /\ disk' = disk /\ homepage' = homepage /\ (Mounted' <=> Mounted)
    BY <1>6 DEF vars, Mounted
  <2>5. Showing'
    <3>1. FromOwn(request.file)' <=> FromOwn(request.file)
      BY <2>4 DEF FromOwn, Theirs, Moved, Scope, Roots
    <3>2. FromOwn(request.answer.from)' <=> FromOwn(request.answer.from)
      BY <2>4 DEF FromOwn, Theirs, Moved, Scope, Roots
    <3>3. Theirs(request.scope)' <=> Theirs(request.scope)
      BY <2>4 DEF Theirs, Scope
    <3> QED BY <2>4, <3>1, <3>2, <3>3 DEF DispatchInv, Showing, Moved, RenderRoot
  <2>6. ChainSound'
    <3> SUFFICES ASSUME Mounted', ~request'.edited, request'.path = "/", request'.method = "GET",
                        request'.pc # "idle", NEW s \in request'.seen, request'.seen = {s}
                 PROVE  Tried(s)'
      BY DEF ChainSound
    <3>1. Tried(s)
      BY <2>4 DEF DispatchInv, ChainSound
    <3>2. FirstLink(s, request.answer.from)' <=> FirstLink(s, request.answer.from)
      BY <2>4 DEF FirstLink, Exists, Chain
    <3> QED BY <2>4, <3>1, <3>2 DEF Tried, NoPage, NoIndex, NoFile, StaticRoot
  <2> QED BY <2>1, <2>2, <2>3, <2>5, <2>6 DEF DispatchInv
<1> QED BY <1>1, <1>2, <1>3, <1>4, <1>5, <1>6 DEF Next

\* How many surfaces a request has seen, told without counting.
LEMMA CountingSeen ==
  ASSUME RequestTyped
  PROVE  /\ Moved => Cardinality(request.seen) > 1
         /\ Cardinality(request.seen) = 1 => \E s \in request.seen : request.seen = {s}
<1>1. IsFiniteSet(request.seen) /\ Cardinality(request.seen) \in Nat
  BY FS_CardinalityType DEF RequestTyped
<1>2. Cardinality(request.seen) = 1 => \E s \in request.seen : request.seen = {s}
  BY <1>1, FS_Singleton
<1>3. Moved => Cardinality(request.seen) # 0 /\ Cardinality(request.seen) # 1
  <2>1. Cardinality(request.seen) = 0 => request.seen = {}
    BY <1>1, FS_EmptySet
  <2> QED BY <1>2, <2>1 DEF Moved
<1> QED BY <1>1, <1>2, <1>3

\* The panel acts on an organization whose membership the guard checked, but
\* for the alternative texts of a host that moved under the request (the
\* handlers of routes/cms.rs, update_alt of routes/media.rs).
THEOREM ActsAreAuthorized == Spec => []ActsWhereAuthorized
<1>1. DispatchInv => ActsWhereAuthorized
  BY CountingSeen DEF DispatchInv, PanelSound, ActsWhereAuthorized
<1> QED BY <1>1, DispatchInitInv, DispatchStepInv, PTL DEF Spec

\* Whatever hosts, files and pages do while a request passes the layers and
\* the trees, its answer is one its host is entitled to (middleware/, the
\* dispatcher of routes/mod.rs, static_files.rs).
THEOREM AnswersAreOwn == Spec => []AnswersHold
<1>1. DispatchInv => AnswersHold
  <2> SUFFICES ASSUME DispatchInv PROVE AnswersHold
    OBVIOUS
  <2>1. TypeOK
    BY DEF DispatchInv, WorldTyped, RequestTyped, Requesting, Replies, TypeOK
  <2>2. ServedFromOwnSurface
    <3> SUFFICES ASSUME Answered, Mounted
                 PROVE  LET from == request.answer.from IN
                        /\ from # Nowhere =>
                              \/ from[1] \in UNION {Roots(s) : s \in request.seen}
                              \/ Cardinality(request.seen) > 1
                                 /\ from[1] \in {Scope(s) : s \in request.seen}
                        /\ from[1] = "public" /\ request.path # "/assets/a.css" =>
                              request.seen \cap {"single", "main"} # {}
                        /\ request.scope # "none" => request.scope \in {Scope(s) : s \in request.seen}
                        /\ request.answer.body = "source" =>
                              request.edited \/ Cardinality(request.seen) > 1
      BY DEF ServedFromOwnSurface
    <3>1. FromOwn(request.answer.from) /\ (request.answer.body = "source" => request.edited \/ Moved)
          /\ (request.scope # "none" => Theirs(request.scope))
      BY DEF DispatchInv, Showing, Answered, Given
    <3>2. Moved => Cardinality(request.seen) > 1
      BY CountingSeen DEF DispatchInv
    <3> QED BY <3>1, <3>2 DEF FromOwn, Theirs
  <2>3. HomepageChain
    <3> DEFINE surface == CHOOSE s \in request.seen : TRUE
               chain == Chain(surface)
    <3> SUFFICES ASSUME Answered, Mounted, Cardinality(request.seen) = 1, ~request.edited,
                        request.path = "/", request.method = "GET",
                        request.answer.status \in {200, 404}
                 PROVE  \/ \E i \in DOMAIN chain : /\ request.answer.from = chain[i] /\ Exists(chain[i])
                                                   /\ \A j \in 1..(i - 1) : ~Exists(chain[j])
                        \/ request.answer.from = Nowhere /\ \A i \in DOMAIN chain : ~Exists(chain[i])
      BY DEF HomepageChain
    <3>1. PICK s \in request.seen : request.seen = {s}
      BY CountingSeen DEF DispatchInv
    <3>2. surface = s
      BY <3>1
    <3>3. Tried(s)
      BY <3>1 DEF DispatchInv, ChainSound, Answered
    <3>4. FirstLink(surface, request.answer.from)
      BY <3>2, <3>3 DEF Tried, Answered, Given
    <3> HIDE DEF surface
    <3> QED BY <3>4 DEF FirstLink
  <2>4. RefusalsTraceable
    BY DEF DispatchInv, Traced, RefusalsTraceable, Answered, Given
  <2> QED BY <2>1, <2>2, <2>3, <2>4 DEF AnswersHold
<1> QED BY <1>1, DispatchInitInv, DispatchStepInv, PTL DEF Spec
-----------------------------------------------------------------------------
(* TemplateCache.                                                        *)
(*                                                                       *)
(* A file whose mtimes never repeat (one that is not blurred) had each   *)
(* of them during one stretch of time.  A content v noted with an mtime  *)
(* m is known by it: v is what the file holds if m is its mtime now, and *)
(* who looked at the file when m was its mtime, and trusts a cache that  *)
(* goes by m, has been shown v: the file held it then, or got it later   *)
(* (Known). Every pair in the caches, and every pair of a template on    *)
(* its way to them, is such a pair (CachedSound, SourcesSound,           *)
(* Embedding).                                                           *)

Including == {"resolve", "include"}
Running == {"run", "required", "load"}
Contents == Files \X Nat
OpenFile == [file : Files \cup {"body", "program"}, rest : Seq(Files)]

Rendering == [pc : {"idle", "stat", "lookup", "read"} \cup Including \cup Running,
              target : Templates \cup {"none"}, noted : Nat, mtime : Nat,
              frames : Seq(OpenFile), embedded : SUBSET Contents, tracked : SUBSET Contents,
              registry : SUBSET Modules, evaluated : Seq(Contents), loads : Nat,
              shown : SUBSET Contents]

FileState == [version : Nat, mtime : Nat, uses : Seq(Files)]

FilesSound ==
    /\ moment \in 1..MaxMoments /\ edits \in 0..MaxEdits
    /\ files \in [Files -> FileState] /\ stamps \in [Files -> SUBSET Nat] /\ blurred \subseteq Files
    /\ \A f \in Files :
          /\ files[f].version <= edits + 1 /\ files[f].mtime <= moment
          /\ files[f].mtime \in stamps[f]
          /\ f \in Templates \cup Partials => files[f].uses \in Seq(Partials)
          /\ f \in Modules => files[f].uses \in Seq(Modules)

\* The name a render's innermost open file comes to next.
Upcoming(it) == Head(it.frames[Len(it.frames)].rest)
Pending(it) == it.frames[Len(it.frames)].rest # <<>>

\* Who trusts what is noted of f with the mtime m.
Trusts(it, f, m) ==
    \/ it.pc = "lookup" /\ it.target = f /\ it.noted = m
    \/ it.pc = "load" /\ Upcoming(it) = f /\ it.mtime = m

Known(f, m, v) ==
    f \notin blurred =>
        /\ m \in stamps[f]
        /\ files[f].mtime = m => files[f].version = v
        /\ \A r \in Renders : Trusts(render[r], f, m) => <<f, v>> \in render[r].shown

Embedding(embedded, target, noted, tracked) ==
    \A x \in embedded :
        \/ target = x[1] /\ Known(x[1], noted, x[2])
        \/ \E m \in Nat : <<x[1], m>> \in tracked /\ Known(x[1], m, x[2])

Program == [embedded : SUBSET Contents, mtime : Nat, tracked : SUBSET Contents]

CachedSound(table) ==
    /\ DOMAIN table \subseteq Templates
    /\ \A t \in DOMAIN table :
          /\ table[t] \in Program
          /\ Embedding(table[t].embedded, t, table[t].mtime, table[t].tracked)

SourcesSound(table) ==
    /\ DOMAIN table \subseteq Modules
    /\ \A n \in DOMAIN table :
          /\ table[n] \in FileState /\ table[n].uses \in Seq(Modules)
          /\ Known(n, table[n].mtime, table[n].version)

WasThere(it) ==
    /\ \A x \in it.embedded : x[1] \notin blurred => x \in it.shown
    /\ \A i \in DOMAIN it.evaluated : it.evaluated[i][1] \notin blurred => it.evaluated[i] \in it.shown

Once(it) ==
    /\ \A i, j \in DOMAIN it.evaluated : it.evaluated[i][1] = it.evaluated[j][1] => i = j
    /\ \A i \in DOMAIN it.evaluated : it.evaluated[i][1] \in it.registry

Opened(frames, names) ==
    /\ frames \in Seq(OpenFile) /\ frames # <<>>
    /\ \A i \in 1..Len(frames) : frames[i].rest \in Seq(names)

Staged(it) ==
    /\ it.pc = "idle" => it = NoRender
    /\ it.pc # "idle" => Current \subseteq it.shown
    /\ it.pc \in {"stat", "lookup", "read"} =>
          it.target \in Templates /\ it.frames = <<>> /\ it.loads = 0
    /\ it.pc \in {"lookup", "read"} => it.noted \in stamps[it.target]
    /\ it.pc \in Including => /\ Opened(it.frames, Partials) /\ Len(it.frames) <= MaxDepth + 1
                              /\ it.loads = 0
                              /\ Embedding(it.embedded, it.target, it.noted, it.tracked)
    /\ it.pc = "include" => /\ Pending(it) /\ Len(it.frames) <= MaxDepth
                            /\ it.mtime \in stamps[Upcoming(it)]
    /\ it.pc \in Running => Opened(it.frames, Modules) /\ Len(it.frames) <= it.loads + 1
    /\ it.pc \in {"required", "load"} => Pending(it)
    /\ it.pc = "load" => it.mtime \in stamps[Upcoming(it)]

RenderSound(it) ==
    it \in Rendering /\ it.loads <= MaxLoads /\ Staged(it) /\ WasThere(it) /\ Once(it)

CacheInv ==
    /\ FilesSound /\ CachedSound(cache) /\ SourcesSound(sources)
    /\ render = [r \in Renders |-> render[r]]
    /\ \A r \in Renders : RenderSound(render[r])

-----------------------------------------------------------------------------
(* The open files of a render.                                           *)

LEMMA NamesOfFiles ==
  ASSUME NEW names \in {Partials, Modules}
  PROVE  names \subseteq Files /\ Seq(names) \subseteq Seq(Files)
<1>1. names \subseteq Files
  BY DEF Files
<1>2. ASSUME NEW s \in Seq(names) PROVE s \in Seq(Files)
  BY <1>1
<1> QED BY <1>1, <1>2

LEMMA ComesTo ==
  ASSUME NEW names \in {Partials, Modules}, NEW it, Opened(it.frames, names), Pending(it)
  PROVE  /\ Len(it.frames) \in 1..Len(it.frames)
         /\ Upcoming(it) \in names /\ Upcoming(it) \in Files
<1> DEFINE frames == it.frames  rest == frames[Len(frames)].rest
<1>1. frames \in Seq(OpenFile) /\ frames # <<>>
  BY DEF Opened
<1>2. Len(frames) \in 1..Len(frames)
  BY <1>1
<1>3. rest \in Seq(names) /\ rest # <<>>
  BY <1>2 DEF Opened, Pending
<1>4. Head(rest) \in names
  BY <1>3
<1> QED BY <1>2, <1>4, NamesOfFiles DEF Upcoming

LEMMA PassedOn ==
  ASSUME NEW names \in {Partials, Modules}, NEW frames, Opened(frames, names),
         frames[Len(frames)].rest # <<>>
  PROVE  LET on == [frames EXCEPT ![Len(frames)].rest = Tail(@)]
         IN  Opened(on, names) /\ Len(on) = Len(frames)
<1>1. frames \in Seq(OpenFile) /\ frames # <<>> /\ Len(frames) \in 1..Len(frames)
  BY DEF Opened
<1> DEFINE top == frames[Len(frames)]  passed == [top EXCEPT !.rest = Tail(top.rest)]
           on == [frames EXCEPT ![Len(frames)] = passed]
<1>2. top \in OpenFile /\ top.rest \in Seq(names)
  BY <1>1 DEF Opened
<1>3. Tail(top.rest) \in Seq(names)
  BY <1>2
<1>4. Tail(top.rest) \in Seq(Files)
  BY <1>3, NamesOfFiles
<1>5. passed \in OpenFile /\ passed.rest = Tail(top.rest)
  BY <1>2, <1>4 DEF OpenFile
<1>6. [frames EXCEPT ![Len(frames)].rest = Tail(@)] = on
  BY <1>1, <1>2 DEF OpenFile
<1> HIDE DEF passed
<1>7. on \in Seq(OpenFile) /\ Len(on) = Len(frames)
  BY <1>1, <1>5
<1>8. ASSUME NEW i \in 1..Len(on) PROVE on[i].rest \in Seq(names)
  <2>1. i \in 1..Len(frames) /\ frames[i].rest \in Seq(names)
    BY <1>7 DEF Opened
  <2>2. on[i] = IF i = Len(frames) THEN passed ELSE frames[i]
    BY <1>1, <2>1
  <2> QED BY <1>3, <1>5, <2>1, <2>2
<1> QED BY <1>1, <1>6, <1>7, <1>8 DEF Opened

LEMMA OneMore ==
  ASSUME NEW names \in {Partials, Modules}, NEW frames, Opened(frames, names),
         NEW name \in Files, NEW uses \in Seq(names)
  PROVE  LET more == Append(frames, Frame(name, uses))
         IN  Opened(more, names) /\ Len(more) = Len(frames) + 1
<1> DEFINE frame == Frame(name, uses)  more == Append(frames, frame)
<1>1. frame \in OpenFile /\ frame.rest = uses
  BY NamesOfFiles DEF Frame, OpenFile
<1> HIDE DEF frame
<1>2. frames \in Seq(OpenFile) /\ more \in Seq(OpenFile) /\ Len(more) = Len(frames) + 1
  BY <1>1 DEF Opened
<1>3. \A i \in 1..Len(more) : more[i].rest \in Seq(names)
  BY <1>1, <1>2 DEF Opened
<1> QED BY <1>2, <1>3 DEF Opened, frame

LEMMA FirstFrame ==
  ASSUME NEW names \in {Partials, Modules}, NEW file \in Files \cup {"body", "program"},
         NEW uses \in Seq(names)
  PROVE  Opened(<<Frame(file, uses)>>, names) /\ Len(<<Frame(file, uses)>>) = 1
<1>1. Frame(file, uses) \in OpenFile /\ Frame(file, uses).rest = uses
  BY NamesOfFiles DEF Frame, OpenFile
<1> QED BY <1>1 DEF Opened

LEMMA CutBack ==
  ASSUME NEW names, NEW frames, Opened(frames, names), NEW level \in 1..Len(frames)
  PROVE  Opened(SubSeq(frames, 1, level), names) /\ Len(SubSeq(frames, 1, level)) = level
<1>1. frames \in Seq(OpenFile) /\ Len(frames) \in Nat
  BY DEF Opened
<1>2. /\ SubSeq(frames, 1, level) \in Seq(OpenFile)
      /\ Len(SubSeq(frames, 1, level)) = level
      /\ \A i \in 1..level : SubSeq(frames, 1, level)[i] = frames[i]
  BY <1>1
<1> DEFINE cut == SubSeq(frames, 1, level)
<1> HIDE DEF cut
<1>3. cut \in Seq(OpenFile) /\ Len(cut) = level /\ \A i \in 1..level : cut[i] = frames[i]
  BY <1>2 DEF cut
<1>4. cut # <<>>
  BY <1>3
<1>5. \A i \in 1..Len(cut) : cut[i].rest \in Seq(names)
  BY <1>1, <1>3 DEF Opened
<1> QED BY <1>3, <1>4, <1>5 DEF Opened, cut

-----------------------------------------------------------------------------
(* A step of a render leaves what the others have and what is known.     *)

Disk == <<moment, files, stamps, blurred, edits>>

KnownStays == \A f \in Files, m \in Nat, v \in Nat : Known(f, m, v) => Known(f, m, v)'

LEMMA EmbeddingStays ==
  ASSUME KnownStays
  PROVE  \A target, tracked : \A e \in SUBSET Contents, noted \in Nat :
            Embedding(e, target, noted, tracked) => Embedding(e, target, noted, tracked)'
<1> SUFFICES ASSUME NEW target, NEW tracked, NEW e \in SUBSET Contents, NEW noted \in Nat,
                    Embedding(e, target, noted, tracked)
             PROVE  Embedding(e, target, noted, tracked)'
  OBVIOUS
<1>1. ASSUME NEW x \in e
      PROVE  \/ target = x[1] /\ Known(x[1], noted, x[2])'
             \/ \E m \in Nat : <<x[1], m>> \in tracked /\ Known(x[1], m, x[2])'
  <2>1. x[1] \in Files /\ x[2] \in Nat
    BY DEF Contents
  <2>2. CASE target = x[1] /\ Known(x[1], noted, x[2])
    BY <2>1, <2>2 DEF KnownStays
  <2>3. CASE \E m \in Nat : <<x[1], m>> \in tracked /\ Known(x[1], m, x[2])
    <3>1. PICK m \in Nat : <<x[1], m>> \in tracked /\ Known(x[1], m, x[2])
      BY <2>3
    <3> QED BY <2>1, <3>1 DEF KnownStays
  <2> QED BY <2>2, <2>3 DEF Embedding
<1> QED BY <1>1 DEF Embedding

LEMMA TablesStay ==
  ASSUME KnownStays
  PROVE  /\ \A table : CachedSound(table) => CachedSound(table)'
         /\ \A table : SourcesSound(table) => SourcesSound(table)'
<1>1. ASSUME NEW table, CachedSound(table) PROVE CachedSound(table)'
  <2> SUFFICES ASSUME NEW t \in DOMAIN table
               PROVE  /\ table[t] \in Program
                      /\ Embedding(table[t].embedded, t, table[t].mtime, table[t].tracked)'
    BY <1>1 DEF CachedSound, Program, Contents
  <2>1. table[t] \in Program
        /\ Embedding(table[t].embedded, t, table[t].mtime, table[t].tracked)
    BY <1>1 DEF CachedSound
  <2>2. ASSUME NEW e, NEW noted, NEW tracked, e = table[t].embedded, noted = table[t].mtime,
               tracked = table[t].tracked
        PROVE  Embedding(e, t, noted, tracked)'
    <3>1. e \in SUBSET Contents /\ noted \in Nat /\ Embedding(e, t, noted, tracked)
      BY <2>1, <2>2 DEF Program
    <3> QED BY <3>1, EmbeddingStays
  <2> QED BY <2>1, <2>2
<1>2. ASSUME NEW table, SourcesSound(table) PROVE SourcesSound(table)'
  <2> SUFFICES ASSUME NEW n \in DOMAIN table
               PROVE  Known(n, table[n].mtime, table[n].version)'
    BY <1>2 DEF SourcesSound, FileState
  <2>1. n \in Files /\ table[n] \in FileState /\ Known(n, table[n].mtime, table[n].version)
    BY <1>2 DEF SourcesSound, Files
  <2>2. table[n].mtime \in Nat /\ table[n].version \in Nat
    BY <2>1 DEF FileState
  <2> QED BY <2>1, <2>2 DEF KnownStays
<1> QED BY <1>1, <1>2

LEMMA RendersStay ==
  ASSUME KnownStays, UNCHANGED <<files, stamps, blurred>>
  PROVE  \A it : RenderSound(it) => RenderSound(it)'
<1> SUFFICES ASSUME NEW it, RenderSound(it) PROVE RenderSound(it)'
  OBVIOUS
<1>1. it \in Rendering
  BY DEF RenderSound
<1>2. (it \in Rendering)' /\ WasThere(it)' /\ Once(it)'
  BY DEF RenderSound, WasThere, Once, Rendering, Contents, OpenFile
<1>3. Staged(it)'
  <2>1. it.pc \in Including => Embedding(it.embedded, it.target, it.noted, it.tracked)'
    <3>1. ASSUME NEW e, NEW target, NEW noted, NEW tracked, e = it.embedded, target = it.target,
                 noted = it.noted, tracked = it.tracked, it.pc \in Including
          PROVE  Embedding(e, target, noted, tracked)'
      <4>1. e \in SUBSET Contents /\ noted \in Nat
        BY <1>1, <3>1 DEF Rendering
      <4>2. Embedding(e, target, noted, tracked)
        BY <3>1 DEF RenderSound, Staged
      <4> QED BY <4>1, <4>2, EmbeddingStays
    <3> QED BY <3>1
  <2>2. Current' = Current
    BY DEF Current
  <2> QED BY <2>1, <2>2 DEF RenderSound, Staged, Opened, Upcoming, Pending
<1> QED BY <1>2, <1>3 DEF RenderSound

\* What a render starts to trust, it looks at first.
LooksFirst(it) ==
    /\ it.pc = "lookup" => it.noted = files[it.target].mtime
    /\ it.pc = "load" => it.mtime = files[Upcoming(it)].mtime

LEMMA RenderMoves ==
  ASSUME CacheInv, NEW r \in Renders, NEW new, RenderSound(new), LooksFirst(new), Set(r, new),
         UNCHANGED Disk, CachedSound(cache'), SourcesSound(sources')
  PROVE  CacheInv'
<1>1. render' = [render EXCEPT ![r] = new] /\ render = [q \in Renders |-> render[q]]
  BY DEF Set, CacheInv
<1>2. /\ render'[r] = new /\ \A q \in Renders : q # r => render'[q] = render[q]
      /\ render' = [q \in Renders |-> render'[q]]
  BY <1>1
<1>3. FilesSound'
  BY DEF CacheInv, FilesSound, Disk
<1>4. KnownStays
  <2> SUFFICES ASSUME NEW f \in Files, NEW m \in Nat, NEW v \in Nat, Known(f, m, v),
                      f \notin blurred, NEW q \in Renders, Trusts(render'[q], f, m)
               PROVE  /\ <<f, v>> \in render'[q].shown
    BY DEF KnownStays, Known, Disk, Trusts, Upcoming
  <2>1. CASE q # r
    BY <1>2, <2>1 DEF Known
  <2>2. CASE q = r
    <3>1. Trusts(new, f, m)
      BY <1>2, <2>2
    <3>2. m = files[f].mtime /\ new.pc # "idle"
      BY <3>1 DEF Trusts, LooksFirst
    <3>3. <<f, v>> = <<f, files[f].version>>
      BY <3>2 DEF Known
    <3>4. <<f, v>> \in Current
      BY <3>3 DEF Current
    <3> QED BY <1>2, <2>2, <3>2, <3>4 DEF RenderSound, Staged
  <2> QED BY <2>1, <2>2
<1>5. CachedSound(cache)' /\ SourcesSound(sources)'
  <2>1. ASSUME NEW table, table = cache', CachedSound(table) PROVE CachedSound(cache)'
    <3>1. CachedSound(table)'
      BY <1>4, <2>1, TablesStay
    <3> QED BY <2>1, <3>1
  <2>2. ASSUME NEW table, table = sources', SourcesSound(table) PROVE SourcesSound(sources)'
    <3>1. SourcesSound(table)'
      BY <1>4, <2>2, TablesStay
    <3> QED BY <2>2, <3>1
  <2> QED BY <2>1, <2>2
<1>6. ASSUME NEW q \in Renders PROVE RenderSound(render[q])'
  <2>1. ASSUME NEW it, it = render'[q], RenderSound(it) PROVE RenderSound(render[q])'
    <3>1. UNCHANGED <<files, stamps, blurred>>
      BY DEF Disk
    <3>2. RenderSound(it)'
      BY <1>4, <2>1, <3>1, RendersStay
    <3> QED BY <2>1, <3>2
  <2>2. RenderSound(render'[q])
    BY <1>2 DEF CacheInv
  <2> QED BY <2>1, <2>2
<1> QED BY <1>2, <1>3, <1>5, <1>6 DEF CacheInv

LEMMA NothingYet ==
  /\ NoRender \in Rendering /\ NoRender.pc = "idle" /\ NoRender.loads = 0 /\ NoRender.frames = <<>>
  /\ NoRender.embedded = {} /\ NoRender.evaluated = <<>>
BY DEF NoRender, Rendering, NoTime

LEMMA AtRest == RenderSound(NoRender) /\ LooksFirst(NoRender)
<1>1. NoRender \in Rendering
  BY NothingYet
<1>2. NoRender.pc = "idle" /\ NoRender.loads = 0 /\ NoRender.embedded = {} /\ NoRender.evaluated = <<>>
  BY NothingYet
<1> QED BY <1>1, <1>2, CacheAssumption
        DEF RenderSound, LooksFirst, Staged, WasThere, Once, Including, Running

LEMMA CurrentTyped == ASSUME FilesSound PROVE Current \subseteq Contents
BY DEF FilesSound, FileState, Current, Contents

LEMMA ItsSound ==
  ASSUME CacheInv, NEW r \in Renders
  PROVE  RenderSound(render[r]) /\ render[r] \in Rendering /\ FilesSound
BY DEF CacheInv, RenderSound

\* What a page is made of so far stays.
LEMMA StillThere ==
  ASSUME NEW it, RenderSound(it), NEW new, new.embedded = it.embedded,
         new.evaluated = it.evaluated, new.shown = it.shown, new.registry = it.registry
  PROVE  WasThere(new) /\ Once(new)
BY DEF RenderSound, WasThere, Once

\* A step that leaves the caches alone.
LEMMA KeepMoves ==
  ASSUME CacheInv, NEW r \in Renders, NEW new, RenderSound(new), LooksFirst(new), Set(r, new),
         UNCHANGED Disk, Keep
  PROVE  CacheInv'
<1>1. CachedSound(cache') /\ SourcesSound(sources')
  BY DEF Keep, CacheInv
<1> QED BY <1>1, RenderMoves

LEMMA FailsStep ==
  ASSUME CacheInv, NEW r \in Renders, Fails(r), UNCHANGED Disk, Keep
  PROVE  CacheInv'
BY AtRest, KeepMoves DEF Fails

LEMMA StartStep ==
  ASSUME CacheInv, NEW r \in Renders, NEW target \in Templates, Start(r, target)
  PROVE  CacheInv'
<1> DEFINE shown == Current
           new == [NoRender EXCEPT !.target = target, !.shown = shown, !.pc = "stat"]
<1>1. shown \subseteq Contents
  BY CurrentTyped DEF CacheInv
<1>3. Set(r, new) /\ UNCHANGED Disk /\ Keep
  BY DEF Start, RenderAt, Disk
<1> HIDE DEF shown
<1>2. /\ new \in Rendering /\ new.pc = "stat" /\ new.target = target /\ new.shown = shown
      /\ new.frames = <<>> /\ new.loads = 0 /\ new.embedded = {} /\ new.evaluated = <<>>
  BY <1>1, NothingYet DEF Rendering
<1> HIDE DEF new
<1>4. RenderSound(new) /\ LooksFirst(new)
  BY <1>2, CacheAssumption
  DEF RenderSound, LooksFirst, Staged, WasThere, Once, Including, Running, shown
<1> QED BY <1>3, <1>4, KeepMoves

LEMMA StartStringStep ==
  ASSUME CacheInv, NEW r \in Renders, NEW uses \in Bodies, StartString(r, uses)
  PROVE  CacheInv'
<1> DEFINE frames == <<Frame("body", uses)>>  shown == Current
           new == [NoRender EXCEPT !.shown = shown, !.frames = frames, !.pc = "resolve"]
<1>1. shown \subseteq Contents
  BY CurrentTyped DEF CacheInv
<1>2. Opened(frames, Partials) /\ Len(frames) = 1
  BY FirstFrame, CacheAssumption
<1>3. Set(r, new) /\ UNCHANGED Disk /\ Keep
  BY DEF StartString, RenderAt, Disk
<1> HIDE DEF frames, shown
<1>4. /\ new \in Rendering /\ new.pc = "resolve" /\ new.shown = shown
      /\ new.frames = frames /\ new.loads = 0 /\ new.embedded = {} /\ new.evaluated = <<>>
  BY <1>1, <1>2, NothingYet DEF Rendering, Opened, Including
<1> HIDE DEF new
<1>5. Opened(new.frames, Partials) /\ Len(new.frames) = 1
      /\ Embedding(new.embedded, new.target, new.noted, new.tracked)
  BY <1>2, <1>4 DEF Embedding
<1>6. Staged(new)
  BY <1>4, <1>5, CacheAssumption DEF Staged, Including, Running, shown
<1>7. RenderSound(new) /\ LooksFirst(new)
  BY <1>4, <1>6, CacheAssumption DEF RenderSound, LooksFirst, WasThere, Once
<1> QED BY <1>3, <1>7, KeepMoves

LEMMA StatStep == ASSUME CacheInv, NEW r \in Renders, Stat(r) PROVE CacheInv'
<1> DEFINE it == render[r]  m == files[it.target].mtime
           new == [it EXCEPT !.noted = m, !.pc = "lookup"]
<1>1. RenderSound(it) /\ it \in Rendering /\ it.pc = "stat" /\ FilesSound
  BY ItsSound DEF Stat, RenderAt
<1>2. it.target \in Templates /\ it.target \in Files /\ it.frames = <<>> /\ it.loads = 0
  BY <1>1 DEF RenderSound, Staged, Files
<1>3. m \in Nat /\ m \in stamps[it.target]
  BY <1>1, <1>2 DEF FilesSound, FileState
<1>4. Set(r, new) /\ UNCHANGED Disk /\ Keep
  BY DEF Stat, RenderAt, Disk
<1>5. /\ new \in Rendering /\ new.pc = "lookup" /\ new.shown = it.shown /\ new.target = it.target
      /\ new.frames = it.frames /\ new.loads = it.loads /\ new.embedded = it.embedded
      /\ new.evaluated = it.evaluated /\ new.registry = it.registry /\ new.noted = m
  BY <1>1, <1>3 DEF Rendering
<1> HIDE DEF new
<1>6. WasThere(new) /\ Once(new)
  BY <1>1, <1>5, StillThere
<1>7. Staged(new)
  BY <1>1, <1>2, <1>3, <1>5 DEF RenderSound, Staged, Including, Running
<1>8. RenderSound(new) /\ LooksFirst(new)
  BY <1>1, <1>5, <1>6, <1>7 DEF RenderSound, LooksFirst
<1> QED BY <1>4, <1>8, KeepMoves

LEMMA LookupStep == ASSUME CacheInv, NEW r \in Renders, Lookup(r) PROVE CacheInv'
<1> DEFINE it == render[r]  target == it.target
<1>1. RenderSound(it) /\ it \in Rendering /\ it.pc = "lookup" /\ FilesSound
  BY ItsSound DEF Lookup, RenderAt
<1>2. target \in Templates /\ target \in Files /\ it.frames = <<>> /\ it.loads = 0
      /\ it.noted \in stamps[target] /\ Current \subseteq it.shown
  BY <1>1 DEF RenderSound, Staged, Files
<1>3. UNCHANGED Disk /\ Keep
  BY DEF Lookup, RenderAt, Disk
<1>4. CASE Hit(target, it.noted)
  <2> DEFINE e == cache[target].embedded
             new == [it EXCEPT !.embedded = e, !.frames = Run, !.pc = "run"]
  <2>1. /\ target \in DOMAIN cache /\ cache[target].mtime = it.noted
        /\ \A p \in cache[target].tracked : files[p[1]].mtime = p[2]
    BY <1>4 DEF Hit
  <2>2. e \in SUBSET Contents /\ Embedding(e, target, it.noted, cache[target].tracked)
    BY <2>1 DEF CacheInv, CachedSound, Program
  <2>3. ASSUME NEW x \in e, x[1] \notin blurred PROVE x \in it.shown
    <3>1. x \in Contents /\ x = <<x[1], x[2]>> /\ x[1] \in Files
      BY <2>2 DEF Contents
    <3>2. CASE target = x[1] /\ Known(x[1], it.noted, x[2])
      <4>1. Trusts(render[r], x[1], it.noted)
        BY <1>1, <3>2 DEF Trusts
      <4>2. <<x[1], x[2]>> \in render[r].shown
        BY <2>3, <3>2, <4>1 DEF Known
      <4> QED BY <3>1, <4>2
    <3>3. CASE \E m \in Nat : <<x[1], m>> \in cache[target].tracked /\ Known(x[1], m, x[2])
      <4>1. PICK m \in Nat : <<x[1], m>> \in cache[target].tracked /\ Known(x[1], m, x[2])
        BY <3>3
      <4>2. files[x[1]].mtime = m
        BY <2>1, <4>1
      <4>3. files[x[1]].version = x[2]
        BY <2>3, <4>1, <4>2 DEF Known
      <4>4. x \in Current
        BY <3>1, <4>3 DEF Current
      <4> QED BY <1>2, <4>4
    <3> QED BY <2>2, <3>2, <3>3 DEF Embedding
  <2>4. Opened(Run, Modules) /\ Len(Run) = 1
    BY FirstFrame, CacheAssumption DEF Run
  <2>5. Set(r, new)
    BY <1>4 DEF Lookup
  <2> HIDE DEF e
  <2>6. /\ new \in Rendering /\ new.pc = "run" /\ new.shown = it.shown
        /\ new.frames = Run /\ new.loads = it.loads /\ new.embedded = e
        /\ new.evaluated = it.evaluated /\ new.registry = it.registry
    BY <1>1, <2>2, <2>4 DEF Rendering, Opened, Running
  <2> HIDE DEF new
  <2>7. WasThere(new) /\ Once(new)
    BY <1>1, <2>3, <2>6 DEF RenderSound, WasThere, Once
  <2>8. Staged(new)
    <3>1. Opened(new.frames, Modules)
      BY <2>4, <2>6
    <3>2. Len(new.frames) = 1 /\ new.loads = 0
      BY <1>2, <2>4, <2>6
    <3>3. Len(new.frames) <= new.loads + 1
      BY <3>2
    <3> QED BY <1>2, <2>6, <3>1, <3>3 DEF Staged, Including, Running
  <2>9. RenderSound(new) /\ LooksFirst(new)
    BY <1>1, <2>6, <2>7, <2>8 DEF RenderSound, LooksFirst
  <2> QED BY <1>3, <2>5, <2>9, KeepMoves
<1>5. CASE ~Hit(target, it.noted)
  <2> DEFINE new == [it EXCEPT !.pc = "read"]
  <2>1. render' = [render EXCEPT ![r].pc = "read"]
    BY <1>5 DEF Lookup, RenderGoes
  <2>2. Set(r, new)
    BY <2>1 DEF Set
  <2>3. /\ new \in Rendering /\ new.pc = "read" /\ new.shown = it.shown /\ new.target = it.target
        /\ new.frames = it.frames /\ new.loads = it.loads /\ new.embedded = it.embedded
        /\ new.evaluated = it.evaluated /\ new.registry = it.registry /\ new.noted = it.noted
    BY <1>1 DEF Rendering
  <2> HIDE DEF new
  <2>4. WasThere(new) /\ Once(new)
    BY <1>1, <2>3, StillThere
  <2>5. Staged(new)
    BY <1>1, <1>2, <2>3 DEF Staged, Including, Running
  <2>6. RenderSound(new) /\ LooksFirst(new)
    BY <1>1, <2>3, <2>4, <2>5 DEF RenderSound, LooksFirst
  <2> QED BY <1>3, <2>2, <2>6, KeepMoves
<1> QED BY <1>4, <1>5

\* What a file holds is known by any mtime it has had: whoever goes by that
\* mtime is under way, and has been shown what the file holds.
LEMMA CurrentKnown ==
  ASSUME CacheInv, NEW f \in Files, NEW m \in stamps[f]
  PROVE  Known(f, m, files[f].version)
<1> SUFFICES ASSUME NEW q \in Renders, Trusts(render[q], f, m)
             PROVE  <<f, files[f].version>> \in render[q].shown
  BY DEF Known
<1>1. render[q].pc # "idle"
  BY DEF Trusts
<1>2. Current \subseteq render[q].shown
  BY <1>1, ItsSound DEF RenderSound, Staged
<1> QED BY <1>2 DEF Current

LEMMA ReadMainStep == ASSUME CacheInv, NEW r \in Renders, ReadMain(r) PROVE CacheInv'
<1> DEFINE it == render[r]  target == it.target  file == files[target]
<1>1. RenderSound(it) /\ it \in Rendering /\ it.pc = "read" /\ FilesSound
  BY ItsSound DEF ReadMain, RenderAt
<1>2. target \in Templates /\ target \in Files /\ it.loads = 0
      /\ it.noted \in stamps[target] /\ Current \subseteq it.shown
  BY <1>1 DEF RenderSound, Staged, Files
<1>3. UNCHANGED Disk /\ Keep
  BY DEF ReadMain, RenderAt, Disk
<1>4. CASE file = Missing
  BY <1>3, <1>4, FailsStep DEF ReadMain
<1>5. CASE file # Missing
  <2> DEFINE e == {<<target, file.version>>}  frames == <<Frame(target, file.uses)>>
             new == [it EXCEPT !.embedded = e, !.frames = frames, !.pc = "resolve"]
  <2>1. file.version \in Nat /\ file.uses \in Seq(Partials)
    BY <1>1, <1>2 DEF FilesSound, FileState
  <2>2. e \in SUBSET Contents /\ e \subseteq it.shown
    BY <1>2, <2>1 DEF Contents, Current
  <2>3. Opened(frames, Partials) /\ Len(frames) = 1
    BY <1>2, <2>1, FirstFrame
  <2>4. Known(target, it.noted, file.version)
    BY <1>2, CurrentKnown
  <2>5. Embedding(e, target, it.noted, it.tracked)
    BY <2>4 DEF Embedding
  <2>6. Set(r, new)
    BY <1>5 DEF ReadMain
  <2> HIDE DEF e, frames
  <2>7. /\ new \in Rendering /\ new.pc = "resolve" /\ new.shown = it.shown
        /\ new.target = it.target /\ new.noted = it.noted /\ new.tracked = it.tracked
        /\ new.frames = frames /\ new.loads = it.loads /\ new.embedded = e
        /\ new.evaluated = it.evaluated /\ new.registry = it.registry
    BY <1>1, <2>2, <2>3 DEF Rendering, Opened, Including
  <2> HIDE DEF new
  <2>8. WasThere(new) /\ Once(new)
    BY <1>1, <2>2, <2>7 DEF RenderSound, WasThere, Once
  <2>9. Staged(new)
    <3>1. Opened(new.frames, Partials) /\ Len(new.frames) = 1
      BY <2>3, <2>7
    <3>2. Len(new.frames) <= MaxDepth + 1
      BY <3>1, CacheAssumption
    <3>3. Embedding(new.embedded, new.target, new.noted, new.tracked)
      BY <2>5, <2>7
    <3> QED BY <1>2, <2>7, <3>1, <3>2, <3>3 DEF Staged, Including, Running
  <2>10. RenderSound(new) /\ LooksFirst(new)
    BY <1>1, <2>7, <2>8, <2>9 DEF RenderSound, LooksFirst
  <2> QED BY <1>3, <2>6, <2>10, KeepMoves
<1> QED BY <1>4, <1>5

LEMMA NextIncludeStep == ASSUME CacheInv, NEW r \in Renders, NextInclude(r) PROVE CacheInv'
<1> DEFINE it == render[r]  name == Upcoming(it)  m == files[name].mtime
           new == [it EXCEPT !.mtime = m, !.pc = "include"]
<1>1. RenderSound(it) /\ it \in Rendering /\ it.pc = "resolve" /\ FilesSound /\ Pending(it)
  BY ItsSound DEF NextInclude, RenderAt, Pending, Top
<1>2. /\ Opened(it.frames, Partials) /\ it.loads = 0 /\ Current \subseteq it.shown
      /\ Embedding(it.embedded, it.target, it.noted, it.tracked)
  BY <1>1 DEF RenderSound, Staged, Including
<1>3. name \in Files
  BY <1>1, <1>2, ComesTo
<1>4. m \in Nat /\ m \in stamps[name]
  BY <1>1, <1>3 DEF FilesSound, FileState
<1>5. UNCHANGED Disk /\ Keep
  BY DEF NextInclude, RenderAt, Disk
<1>6. CASE Len(it.frames) > MaxDepth
  BY <1>5, <1>6, FailsStep DEF NextInclude
<1>7. CASE ~(Len(it.frames) > MaxDepth)
  <2>1. Set(r, new)
    BY <1>7 DEF NextInclude, Next1, Top, Upcoming
  <2>2. Len(it.frames) <= MaxDepth
    BY <1>2, <1>7, CacheAssumption DEF Opened
  <2> HIDE DEF m
  <2>3. /\ new \in Rendering /\ new.pc = "include" /\ new.shown = it.shown
        /\ new.target = it.target /\ new.noted = it.noted /\ new.tracked = it.tracked
        /\ new.frames = it.frames /\ new.loads = it.loads /\ new.embedded = it.embedded
        /\ new.evaluated = it.evaluated /\ new.registry = it.registry /\ new.mtime = m
    BY <1>1, <1>4 DEF Rendering, Including
  <2> HIDE DEF new
  <2>4. WasThere(new) /\ Once(new)
    BY <1>1, <2>3, StillThere
  <2>5. Staged(new)
    <3>1. Opened(new.frames, Partials) /\ Len(new.frames) <= MaxDepth
          /\ Len(new.frames) <= MaxDepth + 1
      BY <1>2, <2>2, <2>3, CacheAssumption DEF Opened
    <3>2. Embedding(new.embedded, new.target, new.noted, new.tracked)
      BY <1>2, <2>3
    <3>3. Pending(new) /\ Upcoming(new) = name
      BY <1>1, <2>3 DEF Pending, Upcoming
    <3> QED BY <1>2, <1>4, <2>3, <3>1, <3>2, <3>3 DEF Staged, Including, Running
  <2>6. RenderSound(new) /\ LooksFirst(new)
    BY <1>1, <2>3, <2>4, <2>5 DEF RenderSound, LooksFirst
  <2> QED BY <1>5, <2>1, <2>6, KeepMoves
<1> QED BY <1>6, <1>7

LEMMA ReadIncludeStep == ASSUME CacheInv, NEW r \in Renders, ReadInclude(r) PROVE CacheInv'
<1> DEFINE it == render[r]  name == Upcoming(it)  file == files[name]
<1>1. RenderSound(it) /\ it \in Rendering /\ it.pc = "include" /\ FilesSound
  BY ItsSound DEF ReadInclude, RenderAt
<1>2. /\ Opened(it.frames, Partials) /\ it.loads = 0 /\ Current \subseteq it.shown
      /\ Embedding(it.embedded, it.target, it.noted, it.tracked) /\ Pending(it)
      /\ Len(it.frames) <= MaxDepth /\ it.mtime \in stamps[name]
  BY <1>1 DEF RenderSound, Staged, Including
<1>3. name \in Files /\ name \in Partials
  BY <1>2, ComesTo
<1>4. UNCHANGED Disk /\ Keep
  BY DEF ReadInclude, RenderAt, Disk
<1>5. CASE file = Missing
  BY <1>4, <1>5, FailsStep DEF ReadInclude, Next1, Top, Upcoming
<1>6. CASE file # Missing
  <2> DEFINE x == <<name, file.version>>  e == it.embedded \cup {x}
             tracked == it.tracked \cup {<<name, it.mtime>>}
             on == Advanced(r)  frames == Append(on, Frame(name, file.uses))
             new == [it EXCEPT !.embedded = e, !.tracked = tracked, !.frames = frames,
                               !.pc = "resolve"]
  <2>1. file.version \in Nat /\ file.uses \in Seq(Partials) /\ it.mtime \in Nat
    BY <1>1, <1>3 DEF FilesSound, FileState, Rendering
  <2>2. x \in Contents /\ x \in it.shown /\ <<name, it.mtime>> \in Contents
    BY <1>2, <1>3, <2>1 DEF Contents, Current
  <2>3. Opened(on, Partials) /\ Len(on) = Len(it.frames)
    BY <1>2, PassedOn DEF Pending, Advanced
  <2>4. Opened(frames, Partials) /\ Len(frames) = Len(it.frames) + 1
    <3> HIDE DEF on
    <3> QED BY <1>3, <2>1, <2>3, OneMore
  <2>5. Known(name, it.mtime, file.version)
    BY <1>2, <1>3, CurrentKnown
  <2>6. Embedding(e, it.target, it.noted, tracked)
    <3>1. Embedding({x}, it.target, it.noted, tracked)
      BY <2>1, <2>5 DEF Embedding
    <3>2. Embedding(it.embedded, it.target, it.noted, tracked)
      BY <1>2 DEF Embedding
    <3> QED BY <3>1, <3>2 DEF Embedding
  <2>7. Set(r, new)
    BY <1>6 DEF ReadInclude, Next1, Top, Upcoming
  <2>8. e \in SUBSET Contents /\ tracked \in SUBSET Contents
    BY <1>1, <2>2 DEF Rendering
  <2>9. \A y \in e : y[1] \notin blurred => y \in it.shown
    BY <1>1, <2>2 DEF RenderSound, WasThere
  <2> HIDE DEF e, tracked, frames
  <2>10. /\ new \in Rendering /\ new.pc = "resolve" /\ new.shown = it.shown
         /\ new.target = it.target /\ new.noted = it.noted /\ new.tracked = tracked
         /\ new.frames = frames /\ new.loads = it.loads /\ new.embedded = e
         /\ new.evaluated = it.evaluated /\ new.registry = it.registry
    BY <1>1, <2>4, <2>8 DEF Rendering, Opened, Including
  <2> HIDE DEF new
  <2>11. WasThere(new) /\ Once(new)
    BY <1>1, <2>9, <2>10 DEF RenderSound, WasThere, Once
  <2>12. Staged(new)
    <3>1. Opened(new.frames, Partials) /\ Len(new.frames) <= MaxDepth + 1
      BY <1>2, <2>4, <2>10, CacheAssumption DEF Opened
    <3>2. Embedding(new.embedded, new.target, new.noted, new.tracked)
      BY <2>6, <2>10
    <3> QED BY <1>2, <2>10, <3>1, <3>2 DEF Staged, Including, Running
  <2>13. RenderSound(new) /\ LooksFirst(new)
    BY <1>1, <2>10, <2>11, <2>12 DEF RenderSound, LooksFirst
  <2> QED BY <1>4, <2>7, <2>13, KeepMoves
<1> QED BY <1>5, <1>6

\* The end of a source pops it; the end of the outermost one, and of a module
\* or the program, leaves what the page is made of.
LEMMA EndSourceStep == ASSUME CacheInv, NEW r \in Renders, EndSource(r) PROVE CacheInv'
<1> DEFINE it == render[r]  inner == Len(it.frames) > 1
<1>1. RenderSound(it) /\ it \in Rendering /\ it.pc = "resolve" /\ FilesSound
  BY ItsSound DEF EndSource, RenderAt
<1>2. /\ Opened(it.frames, Partials) /\ it.loads = 0 /\ Current \subseteq it.shown
      /\ Embedding(it.embedded, it.target, it.noted, it.tracked)
      /\ Len(it.frames) <= MaxDepth + 1
  BY <1>1 DEF RenderSound, Staged, Including
<1>3. UNCHANGED Disk /\ UNCHANGED sources
  BY DEF EndSource, RenderAt, Disk
<1>4. SourcesSound(sources')
  BY <1>3 DEF CacheInv
<1>5. CASE inner
  <2> DEFINE frames == SubSeq(it.frames, 1, Len(it.frames) - 1)
             new == [it EXCEPT !.frames = frames]
  <2>1. Len(it.frames) - 1 \in 1..Len(it.frames)
    BY <1>2, <1>5 DEF Opened
  <2>2. Opened(frames, Partials) /\ Len(frames) = Len(it.frames) - 1
    BY <1>2, <2>1, CutBack
  <2>3. Set(r, new) /\ Keep
    BY <1>5 DEF EndSource, Popped, Keep
  <2> HIDE DEF frames
  <2>4. /\ new \in Rendering /\ new.pc = "resolve" /\ new.shown = it.shown
        /\ new.target = it.target /\ new.noted = it.noted /\ new.tracked = it.tracked
        /\ new.frames = frames /\ new.loads = it.loads /\ new.embedded = it.embedded
        /\ new.evaluated = it.evaluated /\ new.registry = it.registry
    BY <1>1, <2>2 DEF Rendering, Opened
  <2> HIDE DEF new
  <2>5. WasThere(new) /\ Once(new)
    BY <1>1, <2>4, StillThere
  <2>6. Opened(new.frames, Partials) /\ Len(new.frames) <= MaxDepth + 1
    BY <1>2, <2>2, <2>4, CacheAssumption DEF Opened
  <2>7. Embedding(new.embedded, new.target, new.noted, new.tracked)
    BY <1>2, <2>4
  <2>8. Staged(new)
    BY <1>2, <2>4, <2>6, <2>7 DEF Staged, Including, Running
  <2>9. RenderSound(new) /\ LooksFirst(new)
    BY <1>1, <2>4, <2>5, <2>8 DEF RenderSound, LooksFirst
  <2> QED BY <1>3, <2>3, <2>9, KeepMoves
<1>6. CASE ~inner
  <2> DEFINE new == [it EXCEPT !.frames = Run, !.pc = "run"]
             entry == [embedded |-> it.embedded, mtime |-> it.noted, tracked |-> it.tracked]
  <2>1. Opened(Run, Modules) /\ Len(Run) = 1
    BY FirstFrame, CacheAssumption DEF Run
  <2>2. Set(r, new)
    BY <1>6 DEF EndSource
  <2>3. CachedSound(cache')
    <3>1. CASE it.target = "none"
      BY <3>1 DEF EndSource, CacheInv
    <3>2. CASE it.target # "none"
      <4>1. cache' = Stored(cache, it.target, entry)
        BY <1>6, <3>2 DEF EndSource
      <4>2. it.target \in Templates
        BY <1>1, <3>2 DEF Rendering
      <4>3. entry \in Program /\ entry.embedded = it.embedded /\ entry.mtime = it.noted
            /\ entry.tracked = it.tracked
        BY <1>1 DEF Rendering, Program
      <4> HIDE DEF entry
      <4>4. ASSUME NEW table, table = Stored(cache, it.target, entry) PROVE CachedSound(table)
        <5>1. /\ DOMAIN table = DOMAIN cache \cup {it.target} /\ table[it.target] = entry
              /\ \A t \in DOMAIN cache : t # it.target => table[t] = cache[t]
          BY <4>4 DEF Stored
        <5>2. DOMAIN table \subseteq Templates
          BY <4>2, <5>1 DEF CacheInv, CachedSound
        <5>3. ASSUME NEW t \in DOMAIN table
              PROVE  /\ table[t] \in Program
                     /\ Embedding(table[t].embedded, t, table[t].mtime, table[t].tracked)
          <6>1. CASE t = it.target
            BY <1>2, <4>3, <5>1, <6>1
          <6>2. CASE t # it.target
            BY <5>1, <6>2 DEF CacheInv, CachedSound
          <6> QED BY <6>1, <6>2
        <5> QED BY <5>2, <5>3 DEF CachedSound
      <4> QED BY <4>1, <4>4
    <3> QED BY <3>1, <3>2
  <2>4. /\ new \in Rendering /\ new.pc = "run" /\ new.shown = it.shown
        /\ new.frames = Run /\ new.loads = it.loads /\ new.embedded = it.embedded
        /\ new.evaluated = it.evaluated /\ new.registry = it.registry
    BY <1>1, <2>1 DEF Rendering, Opened, Running
  <2> HIDE DEF new
  <2>5. WasThere(new) /\ Once(new)
    BY <1>1, <2>4, StillThere
  <2>6. Len(new.frames) = 1 /\ new.loads = 0
    BY <1>2, <2>1, <2>4
  <2>7. Len(new.frames) <= new.loads + 1
    BY <2>6
  <2>8. Opened(new.frames, Modules) /\ Len(new.frames) <= new.loads + 1
    BY <2>1, <2>4, <2>7
  <2>9. Staged(new)
    BY <1>2, <2>4, <2>8 DEF Staged, Including, Running
  <2>10. RenderSound(new) /\ LooksFirst(new)
    BY <1>1, <2>4, <2>5, <2>9 DEF RenderSound, LooksFirst
  <2> QED BY <1>3, <1>4, <2>2, <2>3, <2>10, RenderMoves
<1> QED BY <1>5, <1>6

\* A program at work.
LEMMA AtWork ==
  ASSUME CacheInv, NEW r \in Renders, render[r].pc \in Running
  PROVE  /\ Opened(render[r].frames, Modules) /\ Len(render[r].frames) <= render[r].loads + 1
         /\ Current \subseteq render[r].shown
         /\ render[r].loads \in Nat /\ render[r].loads <= MaxLoads
         /\ Len(render[r].frames) \in Nat
<1>1. RenderSound(render[r]) /\ render[r] \in Rendering
  BY ItsSound
<1> QED BY <1>1 DEF RenderSound, Staged, Running, Rendering, Opened

LEMMA WorksOn ==
  ASSUME NEW it, RenderSound(it), it.pc \in Running, NEW new \in Rendering,
         new.pc \in Running, new.shown = it.shown, Opened(new.frames, Modules),
         Len(new.frames) <= new.loads + 1,
         new.pc \in {"required", "load"} => Pending(new),
         new.pc = "load" => new.mtime \in stamps[Upcoming(new)]
  PROVE  Staged(new)
BY DEF RenderSound, Staged, Including, Running

LEMMA ResolveStep == ASSUME CacheInv, NEW r \in Renders, Resolve(r) PROVE CacheInv'
<1> DEFINE it == render[r]  new == [it EXCEPT !.pc = "required"]
<1>1. RenderSound(it) /\ it \in Rendering /\ it.pc = "run" /\ it.pc \in Running /\ Pending(it)
  BY ItsSound DEF Resolve, RenderAt, Pending, Top, Running
<1>2. UNCHANGED Disk /\ Keep /\ Set(r, new)
  BY DEF Resolve, RenderAt, Disk, RenderGoes, Set
<1>3. /\ new \in Rendering /\ new.pc = "required" /\ new.shown = it.shown
      /\ new.frames = it.frames /\ new.loads = it.loads /\ new.embedded = it.embedded
      /\ new.evaluated = it.evaluated /\ new.registry = it.registry
  BY <1>1 DEF Rendering, Running
<1> HIDE DEF new
<1>4. WasThere(new) /\ Once(new)
  BY <1>1, <1>3, StillThere
<1>5. Opened(new.frames, Modules) /\ Len(new.frames) <= new.loads + 1 /\ Pending(new)
  BY <1>1, <1>3, AtWork DEF Pending
<1>6. Staged(new)
  BY <1>1, <1>3, <1>5, WorksOn DEF Running
<1>7. RenderSound(new) /\ LooksFirst(new)
  BY <1>1, <1>3, <1>4, <1>6 DEF RenderSound, LooksFirst
<1> QED BY <1>2, <1>7, KeepMoves

LEMMA StatModuleStep == ASSUME CacheInv, NEW r \in Renders, StatModule(r) PROVE CacheInv'
<1> DEFINE it == render[r]  name == Upcoming(it)  m == files[name].mtime
           new == [it EXCEPT !.mtime = m, !.pc = "load"]
<1>1. RenderSound(it) /\ it \in Rendering /\ it.pc = "required" /\ it.pc \in Running
      /\ Pending(it) /\ FilesSound
  BY ItsSound DEF StatModule, RenderAt, RenderSound, Staged, Running
<1>2. name \in Files
  BY <1>1, AtWork, ComesTo
<1>3. m \in Nat /\ m \in stamps[name]
  BY <1>1, <1>2 DEF FilesSound, FileState
<1>4. UNCHANGED Disk /\ Keep /\ Set(r, new)
  BY DEF StatModule, RenderAt, Disk, Next1, Top, Upcoming
<1> HIDE DEF m
<1>5. /\ new \in Rendering /\ new.pc = "load" /\ new.shown = it.shown /\ new.mtime = m
      /\ new.frames = it.frames /\ new.loads = it.loads /\ new.embedded = it.embedded
      /\ new.evaluated = it.evaluated /\ new.registry = it.registry
  BY <1>1, <1>3 DEF Rendering, Running
<1> HIDE DEF new
<1>6. WasThere(new) /\ Once(new)
  BY <1>1, <1>5, StillThere
<1>7. Opened(new.frames, Modules) /\ Len(new.frames) <= new.loads + 1 /\ Pending(new)
      /\ Upcoming(new) = name
  BY <1>1, <1>5, AtWork DEF Pending, Upcoming
<1>8. Staged(new)
  BY <1>1, <1>3, <1>5, <1>7, WorksOn DEF Running
<1>9. RenderSound(new) /\ LooksFirst(new)
  BY <1>1, <1>5, <1>6, <1>7, <1>8 DEF RenderSound, LooksFirst, m
<1> QED BY <1>4, <1>9, KeepMoves

\* What read_source hands out, and caches, is known by the mtime it goes by:
\* the entry at hand by the invariant, the file because it is read after.
LEMMA SourceFound ==
  ASSUME CacheInv, NEW r \in Renders, render[r].pc = "load"
  PROVE  LET name == Upcoming(render[r])  mtime == render[r].mtime
         IN  /\ name \in Modules /\ Source(name, mtime) \in FileState
             /\ Source(name, mtime).uses \in Seq(Modules) /\ Source(name, mtime).mtime = mtime
             /\ Known(name, mtime, Source(name, mtime).version)
<1> DEFINE it == render[r]  name == Upcoming(it)  mtime == it.mtime
<1>1. RenderSound(it) /\ it \in Rendering /\ FilesSound
  BY ItsSound
<1>2. Pending(it) /\ mtime \in stamps[name] /\ mtime \in Nat
  BY <1>1 DEF RenderSound, Staged, Rendering
<1>3. name \in Modules /\ name \in Files
  BY <1>2, AtWork, ComesTo DEF Running
<1>4. CASE SourceHit(name, mtime)
  BY <1>3, <1>4 DEF Source, SourceHit, CacheInv, SourcesSound
<1>5. CASE ~SourceHit(name, mtime)
  <2> DEFINE source == [files[name] EXCEPT !.mtime = mtime]
  <2>1. files[name] \in FileState /\ files[name].uses \in Seq(Modules)
    BY <1>1, <1>3 DEF FilesSound
  <2>2. source \in FileState /\ source.uses = files[name].uses /\ source.mtime = mtime
        /\ source.version = files[name].version
    BY <1>2, <2>1 DEF FileState
  <2>3. Source(name, mtime) = source
    BY <1>5 DEF Source
  <2>4. Known(name, mtime, files[name].version)
    BY <1>2, <1>3, CurrentKnown
  <2> QED BY <1>3, <2>1, <2>2, <2>3, <2>4
<1> QED BY <1>4, <1>5

LEMMA SourceKept ==
  ASSUME CacheInv, NEW r \in Renders, render[r].pc = "load",
         sources' = Stored(sources, Next1(r), Source(Next1(r), render[r].mtime))
  PROVE  SourcesSound(sources')
<1> DEFINE name == Upcoming(render[r])
<1>1. Next1(r) = name
  BY DEF Next1, Top, Upcoming
<1>2. ASSUME NEW source, NEW table, source = Source(name, render[r].mtime),
             table = Stored(sources, name, source)
      PROVE  SourcesSound(table)
  <2>1. /\ name \in Modules /\ source \in FileState /\ source.uses \in Seq(Modules)
        /\ Known(name, source.mtime, source.version)
    BY <1>2, SourceFound
  <2>2. /\ DOMAIN table = DOMAIN sources \cup {name} /\ table[name] = source
        /\ \A n \in DOMAIN sources : n # name => table[n] = sources[n]
    BY <1>2 DEF Stored
  <2> QED BY <2>1, <2>2 DEF CacheInv, SourcesSound
<1> QED BY <1>1, <1>2

LEMMA LoadStep == ASSUME CacheInv, NEW r \in Renders, Load(r) PROVE CacheInv'
<1> DEFINE it == render[r]  name == Upcoming(it)  source == Source(name, it.mtime)
           on == Advanced(r)  got == <<name, source.version>>
<1>1. RenderSound(it) /\ it \in Rendering /\ it.pc = "load" /\ it.pc \in Running
  BY ItsSound DEF Load, RenderAt, Running
<1>2. /\ Opened(it.frames, Modules) /\ Len(it.frames) <= it.loads + 1 /\ Len(it.frames) \in Nat
      /\ it.loads \in Nat
  BY <1>1, AtWork
<1>3. Pending(it) /\ Next1(r) = name
  BY <1>1 DEF RenderSound, Staged, Next1, Top, Upcoming
<1>4. /\ UNCHANGED Disk /\ UNCHANGED cache /\ it.loads < MaxLoads
      /\ sources' = Stored(sources, Next1(r), Source(Next1(r), it.mtime))
  BY <1>3 DEF Load, RenderAt, Disk
<1>5. CachedSound(cache') /\ SourcesSound(sources')
  BY <1>1, <1>4, SourceKept DEF CacheInv
<1>6. /\ name \in Modules /\ source \in FileState /\ source.uses \in Seq(Modules)
      /\ Known(name, it.mtime, source.version)
  BY <1>1, SourceFound
<1>7. Opened(on, Modules) /\ Len(on) = Len(it.frames)
  BY <1>2, <1>3, PassedOn DEF Pending, Advanced
<1>8. it.loads + 1 <= MaxLoads /\ it.loads + 1 \in Nat
  BY <1>2, <1>4, CacheAssumption
<1>9. CASE name \in it.registry
  <2> DEFINE new == [it EXCEPT !.loads = it.loads + 1, !.frames = on, !.pc = "run"]
  <2>1. Set(r, new)
    BY <1>3, <1>9 DEF Load
  <2> HIDE DEF on
  <2>2. /\ new \in Rendering /\ new.pc = "run" /\ new.shown = it.shown
        /\ new.frames = on /\ new.loads = it.loads + 1 /\ new.embedded = it.embedded
        /\ new.evaluated = it.evaluated /\ new.registry = it.registry
    BY <1>1, <1>7, <1>8 DEF Rendering, Opened, Running
  <2> HIDE DEF new
  <2>3. WasThere(new) /\ Once(new)
    BY <1>1, <2>2, StillThere
  <2>4. Opened(new.frames, Modules) /\ Len(new.frames) <= new.loads + 1
    BY <1>2, <1>7, <2>2
  <2>5. Staged(new)
    BY <1>1, <2>2, <2>4, WorksOn DEF Running
  <2>6. RenderSound(new) /\ LooksFirst(new)
    BY <1>8, <2>2, <2>3, <2>5 DEF RenderSound, LooksFirst
  <2> QED BY <1>4, <1>5, <2>1, <2>6, RenderMoves
<1>10. CASE name \notin it.registry
  <2> DEFINE registry == it.registry \cup {name}
             frames == Append(on, Frame(name, source.uses))
             evaluated == Append(it.evaluated, got)
             new == [it EXCEPT !.loads = it.loads + 1, !.pc = "run", !.registry = registry,
                               !.frames = frames, !.evaluated = evaluated]
  <2>1. Set(r, new)
    BY <1>3, <1>10 DEF Load
  <2>2. name \in Files /\ got \in Contents
    BY <1>6 DEF Files, Contents, FileState
  <2>3. Opened(frames, Modules) /\ Len(frames) = Len(it.frames) + 1
    <3> HIDE DEF on, source
    <3> QED BY <1>6, <1>7, <2>2, OneMore
  <2>4. name \notin blurred => got \in it.shown
    <3>1. Trusts(render[r], name, it.mtime)
      BY <1>1 DEF Trusts
    <3> QED BY <1>6, <3>1 DEF Known
  <2>5. it.evaluated \in Seq(Contents) /\ it.registry \in SUBSET Modules
    BY <1>1 DEF Rendering
  <2>6. registry \in SUBSET Modules
    BY <1>6, <2>5
  <2> DEFINE n == Len(it.evaluated)
  <2> HIDE DEF frames, registry, got
  <2>7. /\ evaluated \in Seq(Contents) /\ Len(evaluated) = n + 1 /\ evaluated[n + 1] = got
        /\ n \in Nat /\ DOMAIN evaluated = 1..n + 1 /\ DOMAIN it.evaluated = 1..n
        /\ \A i \in 1..n : evaluated[i] = it.evaluated[i]
    BY <2>2, <2>5
  <2> HIDE DEF evaluated, n
  <2>8. /\ new \in Rendering /\ new.pc = "run" /\ new.shown = it.shown
        /\ new.frames = frames /\ new.loads = it.loads + 1 /\ new.embedded = it.embedded
        /\ new.evaluated = evaluated /\ new.registry = registry
    BY <1>1, <1>8, <2>3, <2>6, <2>7 DEF Rendering, Opened, Running
  <2> HIDE DEF new
  <2>9. WasThere(new)
    <3>1. ASSUME NEW i \in 1..n + 1, evaluated[i][1] \notin blurred PROVE evaluated[i] \in it.shown
      <4>1. CASE i \in 1..n
        BY <1>1, <2>7, <3>1, <4>1 DEF RenderSound, WasThere
      <4>2. CASE i = n + 1
        BY <2>4, <2>7, <3>1, <4>2 DEF got
      <4> QED BY <2>7, <4>1, <4>2
    <3> QED BY <1>1, <2>7, <2>8, <3>1 DEF RenderSound, WasThere
  <2>10. Once(new)
    <3>1. /\ \A i, j \in 1..n : it.evaluated[i][1] = it.evaluated[j][1] => i = j
          /\ \A i \in 1..n : it.evaluated[i][1] \in it.registry
      BY <1>1, <2>7 DEF RenderSound, Once
    <3>2. got[1] = name
      BY DEF got
    <3>3. \A i \in 1..n : evaluated[i][1] # got[1]
      BY <1>10, <2>7, <3>1, <3>2
    <3>4. \A i \in 1..n + 1 : i \in 1..n \/ i = n + 1
      BY <2>7
    <3>5. \A i, j \in 1..n + 1 : evaluated[i][1] = evaluated[j][1] => i = j
      BY <2>7, <3>1, <3>3, <3>4
    <3>6. \A i \in 1..n + 1 : evaluated[i][1] \in registry
      BY <2>7, <3>1, <3>2, <3>4 DEF registry
    <3> QED BY <2>7, <2>8, <3>5, <3>6 DEF Once
  <2>11. Opened(new.frames, Modules) /\ Len(new.frames) <= new.loads + 1
    BY <1>2, <2>3, <2>8
  <2>12. Staged(new)
    BY <1>1, <2>8, <2>11, WorksOn DEF Running
  <2>13. RenderSound(new) /\ LooksFirst(new)
    BY <1>8, <2>8, <2>9, <2>10, <2>12 DEF RenderSound, LooksFirst
  <2> QED BY <1>4, <1>5, <2>1, <2>13, RenderMoves
<1> QED BY <1>9, <1>10

\* What is caught goes on with the frames below the one that threw; the
\* modules registered stay so, and a body that ran is not run again.
LEMMA ThrowStep == ASSUME CacheInv, NEW r \in Renders, Throw(r) PROVE CacheInv'
<1> DEFINE it == render[r]  on == Advanced(r)
<1>1. RenderSound(it) /\ it \in Rendering /\ it.pc \in Running
  BY ItsSound DEF Throw, Running
<1>2. /\ Opened(it.frames, Modules) /\ Len(it.frames) <= it.loads + 1 /\ Len(it.frames) \in Nat
      /\ it.loads \in Nat
  BY <1>1, AtWork
<1>3. UNCHANGED Disk /\ UNCHANGED cache /\ Refusal(r)
  BY DEF Throw, Disk
<1>4. SourcesSound(sources')
  <2>1. CASE UNCHANGED sources
    BY <2>1 DEF CacheInv
  <2>2. CASE ~UNCHANGED sources
    BY <1>3, <2>2, SourceKept DEF Refusal
  <2> QED BY <2>1, <2>2
<1>5. CachedSound(cache')
  BY <1>3 DEF CacheInv
<1>6. CASE Fails(r)
  BY <1>3, <1>4, <1>5, <1>6, AtRest, RenderMoves DEF Fails
<1>7. ASSUME NEW level \in DOMAIN it.frames,
             Set(r, [it EXCEPT !.frames = SubSeq(on, 1, level), !.pc = "run",
                               !.registry = AfterThrow(@, it.frames, level)])
      PROVE  CacheInv'
  <2> DEFINE frames == SubSeq(on, 1, level)
             new == [it EXCEPT !.frames = frames, !.pc = "run", !.registry = it.registry]
  <2>1. Set(r, new)
    BY <1>7 DEF AfterThrow
  <2>2. level \in 1..Len(it.frames)
    BY <1>2, <1>7 DEF Opened
  <2>3. Opened(on, Modules) /\ Len(on) = Len(it.frames)
    BY <1>2, PassedOn DEF Throw, Top, Advanced
  <2>4. Opened(frames, Modules) /\ Len(frames) = level
    <3> HIDE DEF on
    <3> QED BY <2>2, <2>3, CutBack
  <2> HIDE DEF frames
  <2>5. /\ new \in Rendering /\ new.pc = "run" /\ new.shown = it.shown
        /\ new.frames = frames /\ new.loads = it.loads /\ new.embedded = it.embedded
        /\ new.evaluated = it.evaluated /\ new.registry = it.registry
    BY <1>1, <2>4 DEF Rendering, Opened, Running
  <2> HIDE DEF new
  <2>6. WasThere(new) /\ Once(new)
    BY <1>1, <2>5, StillThere
  <2>7. Opened(new.frames, Modules) /\ Len(new.frames) <= new.loads + 1
    BY <1>2, <2>2, <2>4, <2>5
  <2>8. Staged(new)
    BY <1>1, <2>5, <2>7, WorksOn DEF Running
  <2>9. RenderSound(new) /\ LooksFirst(new)
    BY <1>1, <2>5, <2>6, <2>8 DEF RenderSound, LooksFirst
  <2> QED BY <1>3, <1>4, <1>5, <2>1, <2>9, RenderMoves
<1> QED BY <1>6, <1>7 DEF Throw

LEMMA EndModuleStep == ASSUME CacheInv, NEW r \in Renders, EndModule(r) PROVE CacheInv'
<1> DEFINE it == render[r]  frames == SubSeq(it.frames, 1, Len(it.frames) - 1)
           new == [it EXCEPT !.frames = frames]
<1>1. RenderSound(it) /\ it \in Rendering /\ it.pc = "run" /\ it.pc \in Running
  BY ItsSound DEF EndModule, RenderAt, Running
<1>2. /\ Opened(it.frames, Modules) /\ Len(it.frames) <= it.loads + 1 /\ Len(it.frames) \in Nat
      /\ it.loads \in Nat
  BY <1>1, AtWork
<1>3. Len(it.frames) - 1 \in 1..Len(it.frames)
  BY <1>2 DEF EndModule
<1>4. Opened(frames, Modules) /\ Len(frames) = Len(it.frames) - 1
  BY <1>2, <1>3, CutBack
<1>5. UNCHANGED Disk /\ Keep /\ Set(r, new)
  BY DEF EndModule, RenderAt, Disk, Popped
<1> HIDE DEF frames
<1>6. /\ new \in Rendering /\ new.pc = "run" /\ new.shown = it.shown
      /\ new.frames = frames /\ new.loads = it.loads /\ new.embedded = it.embedded
      /\ new.evaluated = it.evaluated /\ new.registry = it.registry
  BY <1>1, <1>4 DEF Rendering, Opened
<1> HIDE DEF new
<1>7. WasThere(new) /\ Once(new)
  BY <1>1, <1>6, StillThere
<1>8. Opened(new.frames, Modules) /\ Len(new.frames) <= new.loads + 1
  BY <1>2, <1>4, <1>6
<1>9. Staged(new)
  BY <1>1, <1>6, <1>8, WorksOn DEF Running
<1>10. RenderSound(new) /\ LooksFirst(new)
  BY <1>1, <1>6, <1>7, <1>9 DEF RenderSound, LooksFirst
<1> QED BY <1>5, <1>10, KeepMoves

LEMMA EndProgramStep == ASSUME CacheInv, NEW r \in Renders, EndProgram(r) PROVE CacheInv'
<1>1. Fails(r) /\ UNCHANGED Disk /\ Keep
  BY DEF EndProgram, RenderAt, Disk, Fails
<1> QED BY <1>1, FailsStep

-----------------------------------------------------------------------------
(* A write: an mtime the file never had makes nothing noted current      *)
(* again, and an mtime it has had blurs the file.                        *)

LEMMA WriteStep ==
  ASSUME CacheInv, NEW f \in Files, NEW file \in FileState, Write(f, file),
         file.version <= edits + 2, file.mtime <= moment,
         f \in Templates \cup Partials => file.uses \in Seq(Partials),
         f \in Modules => file.uses \in Seq(Modules)
  PROVE  CacheInv'
<1> DEFINE x == <<f, file.version>>
<1>1. FilesSound
  BY DEF CacheInv
<1>2. /\ edits < MaxEdits /\ edits' = edits + 1 /\ files' = [files EXCEPT ![f] = file]
      /\ stamps' = [stamps EXCEPT ![f] = stamps[f] \cup {file.mtime}]
      /\ blurred' = IF file.mtime \in stamps[f] THEN blurred \cup {f} ELSE blurred
      /\ UNCHANGED <<moment, cache, sources>>
  BY DEF Write
<1>3. x \in Contents /\ file.mtime \in Nat /\ file.version \in Nat
  BY DEF Contents, FileState
<1>4. /\ files'[f] = file /\ \A g \in Files : g # f => files'[g] = files[g]
      /\ stamps'[f] = stamps[f] \cup {file.mtime}
      /\ \A g \in Files : g # f => stamps'[g] = stamps[g]
  BY <1>1, <1>2 DEF FilesSound
<1>5. /\ \A g \in Files : stamps[g] \subseteq stamps'[g]
      /\ blurred \subseteq blurred' /\ blurred' \subseteq Files
  BY <1>1, <1>2, <1>4 DEF FilesSound
<1>6. FilesSound'
  <2>1. edits' \in 0..MaxEdits /\ edits' = edits + 1 /\ moment' = moment
    BY <1>1, <1>2, CacheAssumption DEF FilesSound
  <2>2. files' \in [Files -> FileState] /\ stamps' \in [Files -> SUBSET Nat]
    BY <1>1, <1>2, <1>3 DEF FilesSound
  <2>3. ASSUME NEW g \in Files
        PROVE  /\ files'[g].version <= edits' + 1 /\ files'[g].mtime <= moment'
               /\ files'[g].mtime \in stamps'[g]
               /\ g \in Templates \cup Partials => files'[g].uses \in Seq(Partials)
               /\ g \in Modules => files'[g].uses \in Seq(Modules)
    <3>1. CASE g = f
      BY <1>1, <1>3, <1>4, <2>1, <3>1, CacheAssumption DEF FilesSound
    <3>2. CASE g # f
      <4>1. files[g].version <= edits + 1 /\ files[g].version \in Nat /\ edits \in Nat
        BY <1>1, CacheAssumption DEF FilesSound, FileState
      <4>2. files[g].version <= edits' + 1
        BY <2>1, <4>1
      <4> QED BY <1>1, <1>4, <2>1, <3>2, <4>2 DEF FilesSound
    <3> QED BY <3>1, <3>2
  <2> QED BY <1>2, <1>5, <2>1, <2>2, <2>3, <1>1 DEF FilesSound
<1>7. Current' \subseteq Current \cup {x}
  BY <1>4 DEF Current
<1>8. /\ render' = [q \in Renders |-> render'[q]]
      /\ \A q \in Renders : render[q] = NoRender => render'[q] = NoRender
      /\ \A q \in Renders : render[q] # NoRender =>
            render'[q] = [render[q] EXCEPT !.shown = render[q].shown \cup {x}]
  BY DEF Write
<1>9. ASSUME NEW q \in Renders, render[q] # NoRender
      PROVE  /\ render'[q] \in Rendering /\ render'[q].shown = render[q].shown \cup {x}
             /\ render'[q].pc = render[q].pc /\ render'[q].target = render[q].target
             /\ render'[q].noted = render[q].noted /\ render'[q].mtime = render[q].mtime
             /\ render'[q].frames = render[q].frames /\ render'[q].embedded = render[q].embedded
             /\ render'[q].tracked = render[q].tracked /\ render'[q].registry = render[q].registry
             /\ render'[q].evaluated = render[q].evaluated /\ render'[q].loads = render[q].loads
  <2>1. render[q] \in Rendering /\ render'[q] = [render[q] EXCEPT !.shown = render[q].shown \cup {x}]
    BY <1>8, <1>9, ItsSound
  <2>2. render[q].shown \cup {x} \in SUBSET Contents
    BY <1>3, <2>1 DEF Rendering
  <2> QED BY <2>1, <2>2 DEF Rendering
<1>10. KnownStays
  <2> SUFFICES ASSUME NEW g \in Files, NEW m \in Nat, NEW v \in Nat, Known(g, m, v),
                      g \notin blurred'
               PROVE  /\ m \in stamps'[g]
                      /\ files'[g].mtime = m => files'[g].version = v
                      /\ \A q \in Renders : Trusts(render'[q], g, m) => <<g, v>> \in render'[q].shown
    BY DEF KnownStays, Known, Trusts, Upcoming
  <2>1. /\ m \in stamps[g]
        /\ files[g].mtime = m => files[g].version = v
    BY <1>5 DEF Known
  <2>2. \A q \in Renders : Trusts(render[q], g, m) => <<g, v>> \in render[q].shown
    BY <1>5 DEF Known
  <2>3. files'[g].mtime = m => files'[g].version = v
    <3>1. CASE g # f
      BY <1>4, <2>1, <3>1
    <3>2. CASE g = f
      <4>1. file.mtime \notin stamps[f]
        BY <1>2, <3>2
      <4> QED BY <1>4, <2>1, <3>2, <4>1
    <3> QED BY <3>1, <3>2
  <2>4. ASSUME NEW q \in Renders, Trusts(render'[q], g, m) PROVE <<g, v>> \in render'[q].shown
    <3>1. CASE render[q] = NoRender
      BY <1>8, <2>4, <3>1, NothingYet DEF Trusts
    <3>2. CASE render[q] # NoRender
      <4>1. Trusts(render[q], g, m)
        BY <1>9, <2>4, <3>2 DEF Trusts, Upcoming
      <4> QED BY <1>9, <2>2, <3>2, <4>1
    <3> QED BY <3>1, <3>2
  <2> QED BY <1>5, <2>1, <2>3, <2>4
<1>11. CachedSound(cache)' /\ SourcesSound(sources)'
  <2>1. ASSUME NEW table, table = cache', CachedSound(table) PROVE CachedSound(cache)'
    <3>1. CachedSound(table)'
      BY <1>10, <2>1, TablesStay
    <3> QED BY <2>1, <3>1
  <2>2. ASSUME NEW table, table = sources', SourcesSound(table) PROVE SourcesSound(sources)'
    <3>1. SourcesSound(table)'
      BY <1>10, <2>2, TablesStay
    <3> QED BY <2>2, <3>1
  <2> QED BY <1>2, <2>1, <2>2 DEF CacheInv
<1>12. ASSUME NEW q \in Renders PROVE RenderSound(render[q])'
  <2>1. CASE render[q] = NoRender
    <3>1. render'[q] = NoRender
      BY <1>8, <2>1
    <3> QED BY <3>1, NothingYet, CacheAssumption
            DEF RenderSound, Staged, WasThere, Once, Including, Running
  <2>2. CASE render[q] # NoRender
    <3>1. RenderSound(render[q]) /\ render[q] \in Rendering
      BY ItsSound
    <3>2. ASSUME NEW new, new = render'[q] PROVE RenderSound(new)'
      <4>1. WasThere(new)' /\ Once(new)'
        BY <1>5, <1>9, <2>2, <3>1, <3>2 DEF RenderSound, WasThere, Once
      <4>2. new.pc \in Including => Embedding(new.embedded, new.target, new.noted, new.tracked)'
        <5>1. ASSUME NEW e, NEW target, NEW noted, NEW tracked, e = new.embedded,
                     target = new.target, noted = new.noted, tracked = new.tracked,
                     new.pc \in Including
              PROVE  Embedding(e, target, noted, tracked)'
          <6>1. e \in SUBSET Contents /\ noted \in Nat
            BY <1>9, <2>2, <3>1, <3>2, <5>1 DEF Rendering
          <6>2. Embedding(e, target, noted, tracked)
            BY <1>9, <2>2, <3>1, <3>2, <5>1 DEF RenderSound, Staged
          <6> QED BY <1>10, <6>1, <6>2, EmbeddingStays
        <5> QED BY <5>1
      <4>3. new.pc # "idle" => (Current \subseteq new.shown)'
        BY <1>7, <1>9, <2>2, <3>1, <3>2 DEF RenderSound, Staged
      <4>4. new \in Rendering /\ (new \in Rendering)' /\ new.pc # "idle"
        BY <1>9, <2>2, <3>1, <3>2 DEF RenderSound, Staged, Rendering, Contents, OpenFile
      <4>5. new.pc \in {"stat", "lookup", "read"} =>
              /\ new.target \in Templates /\ new.frames = <<>> /\ new.loads = 0
              /\ new.pc \in {"lookup", "read"} => (new.noted \in stamps[new.target])'
        BY <1>5, <1>9, <2>2, <3>1, <3>2 DEF RenderSound, Staged, Files
      <4>6. new.pc \in Including =>
              /\ Opened(new.frames, Partials) /\ Len(new.frames) <= MaxDepth + 1 /\ new.loads = 0
              /\ new.pc = "include" => /\ Pending(new) /\ Len(new.frames) <= MaxDepth
                                       /\ new.mtime \in stamps[Upcoming(new)]
        BY <1>9, <2>2, <3>1, <3>2 DEF RenderSound, Staged, Pending, Upcoming, Including
      <4>7. new.pc \in Running =>
              /\ Opened(new.frames, Modules) /\ Len(new.frames) <= new.loads + 1
              /\ new.pc \in {"required", "load"} => Pending(new)
              /\ new.pc = "load" => new.mtime \in stamps[Upcoming(new)]
        BY <1>9, <2>2, <3>1, <3>2 DEF RenderSound, Staged, Pending, Upcoming, Running
      <4>8. /\ new.pc = "include" => (new.mtime \in stamps[Upcoming(new)])'
            /\ new.pc = "load" => (new.mtime \in stamps[Upcoming(new)])'
        <5>1. new.pc \in {"include", "load"} => Upcoming(new) \in Files
          BY <4>6, <4>7, ComesTo DEF Including, Running
        <5>2. Upcoming(new)' = Upcoming(new)
          BY DEF Upcoming
        <5> QED BY <1>5, <4>6, <4>7, <5>1, <5>2 DEF Including, Running
      <4>9. Staged(new)'
        BY <4>2, <4>3, <4>4, <4>5, <4>6, <4>7, <4>8
            DEF Staged, Opened, OpenFile, Pending, Including, Running
      <4>10. new.loads <= MaxLoads
        BY <1>9, <2>2, <3>1, <3>2 DEF RenderSound
      <4> QED BY <4>1, <4>4, <4>9, <4>10 DEF RenderSound
    <3>3. ASSUME NEW new, new = render'[q], RenderSound(new)' PROVE RenderSound(render[q])'
      BY <3>3
    <3> QED BY <3>2, <3>3
  <2> QED BY <2>1, <2>2
<1> QED BY <1>6, <1>8, <1>11, <1>12 DEF CacheInv

LEMMA EditFileStep ==
  ASSUME CacheInv, NEW f \in Files, NEW uses \in Uses[f], NEW mtime \in 1..moment,
         EditFile(f, uses, mtime)
  PROVE  CacheInv'
<1> DEFINE file == [version |-> edits + 2, mtime |-> mtime, uses |-> uses]
<1>1. edits \in Nat /\ edits + 2 \in Nat /\ edits + 2 <= edits + 2 /\ mtime \in Nat /\ mtime <= moment
  BY CacheAssumption DEF CacheInv, FilesSound
<1>2. /\ f \in Templates \cup Partials => uses \in Seq(Partials)
      /\ f \in Modules => uses \in Seq(Modules)
  BY CacheAssumption
<1>3. uses \in Seq(Files)
  BY <1>2, NamesOfFiles DEF Files
<1>4. file \in FileState /\ file.version = edits + 2 /\ file.mtime = mtime /\ file.uses = uses
  BY <1>1, <1>3 DEF FileState
<1>5. Write(f, file)
  BY DEF EditFile
<1> HIDE DEF file
<1> QED BY <1>1, <1>2, <1>4, <1>5, WriteStep

LEMMA DeleteStep == ASSUME CacheInv, NEW f \in Files, Delete(f) PROVE CacheInv'
<1>1. Missing \in FileState /\ Missing.version = 0 /\ Missing.mtime = 0 /\ Missing.uses = <<>>
  BY DEF Missing, NoTime, FileState
<1>2. 0 <= edits + 2 /\ 0 <= moment
  BY CacheAssumption DEF CacheInv, FilesSound
<1>3. Write(f, Missing)
  BY DEF Delete
<1>4. Missing.uses \in Seq(Partials) /\ Missing.uses \in Seq(Modules)
  BY <1>1
<1> QED BY <1>1, <1>2, <1>3, <1>4, WriteStep

\* Neither the caches, nor a render, nor the files move.
LEMMA StandsStill ==
  ASSUME CacheInv, UNCHANGED <<files, cache, sources, render, stamps, blurred>>, FilesSound'
  PROVE  CacheInv'
<1>1. KnownStays
  BY DEF KnownStays, Known, Trusts, Upcoming
<1>2. CachedSound(cache') /\ SourcesSound(sources')
  BY DEF CacheInv
<1>3. ASSUME NEW table, table = cache' PROVE CachedSound(cache)'
  <2>1. CachedSound(table)'
    BY <1>1, <1>3, <1>2, TablesStay
  <2> QED BY <1>3, <2>1
<1>4. ASSUME NEW table, table = sources' PROVE SourcesSound(sources)'
  <2>1. SourcesSound(table)'
    BY <1>1, <1>4, <1>2, TablesStay
  <2> QED BY <1>4, <2>1
<1>5. ASSUME NEW q \in Renders, NEW it, it = render'[q] PROVE RenderSound(render[q])'
  <2>1. RenderSound(it)'
    BY <1>1, <1>5, RendersStay DEF CacheInv
  <2> QED BY <1>5, <2>1
<1> QED BY <1>3, <1>4, <1>5 DEF CacheInv

LEMMA LaterStep == ASSUME CacheInv, Later PROVE CacheInv'
<1>1. moment' = moment + 1 /\ moment < MaxMoments
      /\ UNCHANGED <<files, cache, sources, render, stamps, blurred, edits>>
  BY DEF Later
<1>2. moment \in Nat /\ moment' \in 1..MaxMoments
  BY <1>1, CacheAssumption DEF CacheInv, FilesSound
<1>3. ASSUME NEW f \in Files PROVE files[f].mtime \in Nat /\ files[f].mtime <= moment'
  BY <1>1, <1>2 DEF CacheInv, FilesSound, FileState
<1>4. FilesSound'
  BY <1>1, <1>2, <1>3 DEF CacheInv, FilesSound, FileState
<1> QED BY <1>1, <1>4, StandsStill

LEMMA CacheInvStarts == CacheInit => CacheInv
<1> SUFFICES ASSUME CacheInit PROVE CacheInv
  OBVIOUS
<1>1. FilesSound
  <2>1. ASSUME NEW f \in Files
        PROVE  /\ files[f].version = 1 /\ files[f].mtime = 1 /\ files[f] \in FileState
               /\ stamps[f] = {1}
               /\ f \in Templates \cup Partials => files[f].uses \in Seq(Partials)
               /\ f \in Modules => files[f].uses \in Seq(Modules)
    <3>1. files[f].uses \in Uses[f] /\ stamps[f] = {1}
      BY DEF CacheInit
    <3>2. PICK u : files[f] = [version |-> 1, mtime |-> 1, uses |-> u]
      BY DEF CacheInit
    <3>3. /\ f \in Templates \cup Partials => files[f].uses \in Seq(Partials)
          /\ f \in Modules => files[f].uses \in Seq(Modules)
      BY <3>1, CacheAssumption
    <3>4. files[f].uses \in Seq(Files)
      BY <3>3, NamesOfFiles DEF Files
    <3> QED BY <3>1, <3>2, <3>3, <3>4 DEF FileState
  <2>2. files = [f \in Files |-> files[f]] /\ stamps = [f \in Files |-> {1}]
    BY DEF CacheInit
  <2>3. files \in [Files -> FileState] /\ stamps \in [Files -> SUBSET Nat]
    BY <2>1, <2>2
  <2> QED BY <2>1, <2>3, CacheAssumption DEF CacheInit, FilesSound
<1>2. CachedSound(cache) /\ SourcesSound(sources)
  BY DEF CacheInit, CachedSound, SourcesSound
<1>3. render = [r \in Renders |-> NoRender]
  BY DEF CacheInit
<1> QED BY <1>1, <1>2, <1>3, AtRest DEF CacheInv

LEMMA CacheInvStays == CacheInv /\ [CacheNext]_cacheVars => CacheInv'
<1> SUFFICES ASSUME CacheInv, [CacheNext]_cacheVars PROVE CacheInv'
  OBVIOUS
<1>1. ASSUME NEW r \in Renders, NEW t \in Templates, Start(r, t) PROVE CacheInv'
  BY <1>1, StartStep
<1>2. ASSUME NEW r \in Renders, NEW uses \in Bodies, StartString(r, uses) PROVE CacheInv'
  BY <1>2, StartStringStep
<1>3. ASSUME NEW r \in Renders, Stat(r) PROVE CacheInv'
  BY <1>3, StatStep
<1>4. ASSUME NEW r \in Renders, Lookup(r) PROVE CacheInv'
  BY <1>4, LookupStep
<1>5. ASSUME NEW r \in Renders, ReadMain(r) PROVE CacheInv'
  BY <1>5, ReadMainStep
<1>6. ASSUME NEW r \in Renders, NextInclude(r) PROVE CacheInv'
  BY <1>6, NextIncludeStep
<1>7. ASSUME NEW r \in Renders, ReadInclude(r) PROVE CacheInv'
  BY <1>7, ReadIncludeStep
<1>8. ASSUME NEW r \in Renders, EndSource(r) PROVE CacheInv'
  BY <1>8, EndSourceStep
<1>9. ASSUME NEW r \in Renders, Resolve(r) PROVE CacheInv'
  BY <1>9, ResolveStep
<1>10. ASSUME NEW r \in Renders, StatModule(r) PROVE CacheInv'
  BY <1>10, StatModuleStep
<1>11. ASSUME NEW r \in Renders, Load(r) PROVE CacheInv'
  BY <1>11, LoadStep
<1>12. ASSUME NEW r \in Renders, Throw(r) PROVE CacheInv'
  BY <1>12, ThrowStep
<1>13. ASSUME NEW r \in Renders, EndModule(r) PROVE CacheInv'
  BY <1>13, EndModuleStep
<1>14. ASSUME NEW r \in Renders, EndProgram(r) PROVE CacheInv'
  BY <1>14, EndProgramStep
<1>15. ASSUME NEW f \in Files, NEW uses \in Uses[f], NEW mtime \in 1..moment, EditFile(f, uses, mtime)
       PROVE  CacheInv'
  BY <1>15, EditFileStep
<1>16. ASSUME NEW f \in Files, Delete(f) PROVE CacheInv'
  BY <1>16, DeleteStep
<1>17. CASE Later
  BY <1>17, LaterStep
<1>18. CASE UNCHANGED cacheVars
  <2>1. FilesSound'
    BY <1>18 DEF cacheVars, CacheInv, FilesSound, FileState
  <2> QED BY <1>18, <2>1, StandsStill DEF cacheVars
<1> QED
  BY <1>1, <1>2, <1>3, <1>4, <1>5, <1>6, <1>7, <1>8, <1>9, <1>10, <1>11, <1>12, <1>13, <1>14,
     <1>15, <1>16, <1>17, <1>18 DEF CacheNext

\* The sources open at once are bounded by the two limits.
LEMMA CacheInvHolds == CacheInv => RendersHold
<1> SUFFICES ASSUME CacheInv PROVE RendersHold
  OBVIOUS
<1>1. CacheTypeOK
  <2>1. ASSUME NEW f \in Files
        PROVE  files[f].version \in 0..(MaxEdits + 1) /\ files[f].mtime \in 0..MaxMoments
    BY CacheAssumption DEF CacheInv, FilesSound, FileState
  <2>2. ASSUME NEW r \in Renders PROVE Len(render[r].frames) <= MaxDepth + MaxLoads + 1
    <3> DEFINE it == render[r]
    <3>1. RenderSound(it) /\ it \in Rendering
      BY ItsSound
    <3>2. Len(it.frames) \in Nat /\ it.loads \in Nat /\ it.loads <= MaxLoads
      BY <3>1 DEF Rendering, RenderSound
    <3>3. CASE it.pc \in {"idle", "stat", "lookup", "read"}
      <4>1. it.frames = <<>>
        BY <3>1, <3>3, NothingYet DEF RenderSound, Staged
      <4>2. Len(it.frames) = 0
        BY <4>1
      <4> QED BY <4>2, CacheAssumption
    <3>4. CASE it.pc \in Including
      <4>1. Len(it.frames) <= MaxDepth + 1
        BY <3>1, <3>4 DEF RenderSound, Staged
      <4> QED BY <3>2, <4>1, CacheAssumption
    <3>5. CASE it.pc \in Running
      <4>1. Len(it.frames) <= it.loads + 1
        BY <3>5, AtWork
      <4> QED BY <3>2, <4>1, CacheAssumption
    <3> QED BY <3>1, <3>3, <3>4, <3>5 DEF Rendering
  <2> QED BY <2>1, <2>2 DEF CacheInv, FilesSound, CachedSound, SourcesSound, CacheTypeOK
<1>2. RendersWhatWasThere
  BY DEF CacheInv, RenderSound, WasThere, RendersWhatWasThere, Used
<1>3. EvaluatedOnce
  BY DEF CacheInv, RenderSound, Once, EvaluatedOnce
<1> QED BY <1>1, <1>2, <1>3 DEF RendersHold

\* Whatever templates, partials and modules there are, however many renders
\* and edits overlap and wherever the limits lie: of the files whose mtimes
\* never repeat, a page holds only contents that were there while it was
\* rendered, and the body of a module runs once per page (JhsEngine::render,
\* load_program, read_source).
THEOREM PagesAreCurrent == CacheSpec => []RendersHold
<1>1. CacheInit => CacheInv
  BY CacheInvStarts
<1>2. CacheInv /\ [CacheNext]_cacheVars => CacheInv'
  BY CacheInvStays
<1>3. CacheInv => RendersHold
  BY CacheInvHolds
<1> QED BY <1>1, <1>2, <1>3, PTL DEF CacheSpec
=============================================================================
