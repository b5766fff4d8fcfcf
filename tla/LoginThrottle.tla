---------------------------- MODULE LoginThrottle ----------------------------
(***************************************************************************)
(* What slows a client down: the token bucket every request pays into      *)
(* (rate_limit.rs, middleware/rate_limit.rs) and, behind it, the throttle  *)
(* of failed logins (LoginThrottle, consulted by login in routes/auth.rs). *)
(*                                                                         *)
(* Each table sits behind its own mutex, and every call reads the clock    *)
(* before it takes one: an action is one critical section, and the instant *)
(* it works with is the one its request read earlier.  Between the check   *)
(* and the record stands the Argon2 verification, so several attempts are  *)
(* verified at once.  Time is counted in units of the shortest lockout.    *)
(***************************************************************************)
EXTENDS Naturals, Sequences, FiniteSets

CONSTANTS Clients, Names, Attempts,
          Burst, Rate,              \* [rate_limit]: capacity, tokens per unit
          MaxFailures,              \* LOGIN_MAX_FAILURES
          MaxLockout,               \* LOGIN_LOCKOUT_MAX and LOGIN_IDLE_HORIZON
          SprayFailures,            \* LOGIN_SPRAY_FAILURES
          SprayWindow,              \* LOGIN_SPRAY_WINDOW, LOGIN_SPRAY_LOCKOUT
          MaxTracked,               \* MAX_TRACKED_IPS, MAX_TRACKED_LOGIN_KEYS
          MaxTime                   \* bound on the clock

ASSUME ThrottleAssumption ==
    /\ IsFiniteSet(Attempts) /\ Attempts # {}
    /\ Burst \in Nat /\ Rate \in Nat
    /\ MaxFailures \in Nat \ {0} /\ MaxLockout \in Nat
    /\ SprayFailures \in Nat \ {0} /\ SprayWindow \in Nat
    /\ MaxTracked \in Nat \ {0} /\ MaxTime \in Nat \ {0}

VARIABLES clock,
          buckets,     \* RateLimiter.buckets
          meter,       \* history: what each bucket admitted since it was made
          pairs,       \* LoginThrottle.pairs
          slate,       \* history: what was tried on each tracked pair, and what it cost
          sprays,      \* LoginThrottle.sprays
          attempt

throttleVars == <<clock, buckets, meter, pairs, slate, sprays, attempt>>

Pairs == Clients \X Names

NoAttempt == [pc |-> "idle"]

\* An instant of 0 stands for "not locked": clocks start at 1.
ThrottleTypeOK ==
    /\ clock \in 1..MaxTime
    /\ DOMAIN buckets \subseteq Clients /\ DOMAIN meter = DOMAIN buckets
    /\ \A c \in DOMAIN buckets : buckets[c].tokens \in 0..Burst
    /\ DOMAIN pairs \subseteq Pairs /\ DOMAIN slate = DOMAIN pairs
    /\ \A p \in DOMAIN pairs : pairs[p].failures \in 0..(MaxFailures - 1)
    /\ DOMAIN sprays \subseteq Clients
    /\ \A c \in DOMAIN sprays : Len(sprays[c].recent) < SprayFailures
    /\ \A r \in Attempts :
          attempt[r].pc \in {"idle", "limit", "check", "pair", "verify", "failed", "spray"}

ThrottleInit ==
    /\ clock = 1
    /\ buckets = <<>> /\ meter = <<>>
    /\ pairs = <<>> /\ slate = <<>> /\ sprays = <<>>
    /\ attempt = [r \in Attempts |-> NoAttempt]

(* Tables.  A new key in a full table first drops what is stale, and       *)
(* everything when nothing is.                                             *)

Only(table, keys) == [k \in DOMAIN table \cap keys |-> table[k]]

Put(table, key, value) ==
    [k \in DOMAIN table \cup {key} |-> IF k = key THEN value ELSE table[k]]

Kept(table, key, Stale(_)) ==
    LET live == {k \in DOMAIN table : ~Stale(table[k])}
    IN  IF key \in DOMAIN table \/ Cardinality(DOMAIN table) < MaxTracked
            THEN DOMAIN table
            ELSE IF Cardinality(live) < MaxTracked THEN live ELSE {}

Since(now, then) == IF now > then THEN now - then ELSE 0

Least(a, b) == IF a < b THEN a ELSE b

Stands(r, pc) == attempt[r].pc = pc

Proceed(r, pc) == attempt' = [attempt EXCEPT ![r].pc = pc]

Leave(r) == attempt' = [attempt EXCEPT ![r] = NoAttempt]

Tick ==
    /\ clock < MaxTime
    /\ clock' = clock + 1
    /\ UNCHANGED <<buckets, meter, pairs, slate, sprays, attempt>>

(* The token bucket of an address (middleware::rate_limit::run).            *)

Attempt(r, c, n) ==
    /\ Stands(r, "idle")
    /\ attempt' = [attempt EXCEPT ![r] =
          [pc |-> "limit", client |-> c, name |-> n, now |-> clock]]
    /\ UNCHANGED <<clock, buckets, meter, pairs, slate, sprays>>

\* sweep_stale: a bucket that is full again says nothing.  Unlike the rest
\* of the call it reads the clock anew.
FullAgain(b) == b.tokens + Since(clock, b.last) * Rate >= Burst

\* Bucket::try_acquire up to the decision; "rewound" records how far back an
\* instant read before another request's moves last_refill.
Refilled(b, now) ==
    [tokens |-> Least(b.tokens + Since(now, b.last) * Rate, Burst), last |-> now,
     rewound |-> IF now < b.last THEN b.last - now ELSE 0]

Limit(r) ==
    /\ Stands(r, "limit")
    /\ LET c      == attempt[r].client
           now    == attempt[r].now
           kept   == Kept(buckets, c, FullAgain)
           bucket == IF c \in kept THEN buckets[c] ELSE [tokens |-> Burst, last |-> now]
           record == IF c \in kept THEN meter[c]
                     ELSE [born |-> now, admitted |-> 0, rewound |-> 0]
           filled == Refilled(bucket, now)
           takes  == IF filled.tokens >= 1 THEN 1 ELSE 0
       IN  /\ buckets' = Put(Only(buckets, kept), c,
                             [tokens |-> filled.tokens - takes, last |-> filled.last])
           /\ meter' = Put(Only(meter, kept), c,
                           [record EXCEPT !.admitted = @ + takes,
                                          !.rewound = @ + filled.rewound])
           /\ IF takes = 1 THEN Proceed(r, "check") ELSE Leave(r)
    /\ UNCHANGED <<clock, pairs, slate, sprays>>

(* login: the check, the verification and the record of its outcome.        *)

Locked(table, key, now) == key \in DOMAIN table /\ table[key].until > now

CheckAddress(r) ==
    /\ Stands(r, "check")
    /\ IF Locked(sprays, attempt[r].client, clock)
          THEN Leave(r)
          ELSE attempt' = [attempt EXCEPT ![r].pc = "pair", ![r].now = clock]
    /\ UNCHANGED <<clock, buckets, meter, pairs, slate, sprays>>

Pair(r) == <<attempt[r].client, attempt[r].name>>

CheckPair(r) ==
    /\ Stands(r, "pair")
    /\ IF Locked(pairs, Pair(r), attempt[r].now) THEN Leave(r) ELSE Proceed(r, "verify")
    /\ UNCHANGED <<clock, buckets, meter, pairs, slate, sprays>>

\* record_success wipes the pair, whatever lock it holds, and keeps the
\* address's history.
Succeed(r) ==
    /\ Stands(r, "verify")
    /\ pairs' = Only(pairs, Pairs \ {Pair(r)})
    /\ slate' = Only(slate, Pairs \ {Pair(r)})
    /\ Leave(r)
    /\ UNCHANGED <<clock, buckets, meter, sprays>>

\* Storage trouble is no credential failure: it is not recorded.
Hiccup(r) ==
    /\ Stands(r, "verify")
    /\ Leave(r)
    /\ UNCHANGED <<clock, buckets, meter, pairs, slate, sprays>>

Fail(r) ==
    /\ Stands(r, "verify")
    /\ attempt' = [attempt EXCEPT ![r].pc = "failed", ![r].now = clock]
    /\ UNCHANGED <<clock, buckets, meter, pairs, slate, sprays>>

\* lockout_for: 1, 2, 4, ... units, at most 2^6 of them and at most the cap.
Lockout(n) ==
    Least(2 ^ Least(n - 1, 6), MaxLockout)

\* Slip: a failure that arrives during a lockout escalates it.
FailureEscalating(entry, now) ==
    IF entry.until > now
        THEN [entry EXCEPT !.seen = now, !.lockouts = @ + 1,
                           !.until = now + Lockout(entry.lockouts + 1)]
    ELSE IF entry.failures + 1 < MaxFailures
        THEN [entry EXCEPT !.failures = @ + 1, !.seen = now]
        ELSE [failures |-> 0, lockouts |-> entry.lockouts + 1, seen |-> now,
              until |-> now + Lockout(entry.lockouts + 1)]

\* Slip: every trip costs the base lockout.
FailureUndoubled(entry, now) ==
    IF entry.until > now THEN [entry EXCEPT !.seen = now]
    ELSE IF entry.failures + 1 < MaxFailures
        THEN [entry EXCEPT !.failures = @ + 1, !.seen = now]
        ELSE [failures |-> 0, lockouts |-> entry.lockouts + 1, seen |-> now,
              until |-> now + 1]

Failure(entry, now) ==
    IF entry.until > now THEN [entry EXCEPT !.seen = now]
    ELSE IF entry.failures + 1 < MaxFailures
        THEN [entry EXCEPT !.failures = @ + 1, !.seen = now]
        ELSE [failures |-> 0, lockouts |-> entry.lockouts + 1, seen |-> now,
              until |-> now + Lockout(entry.lockouts + 1)]

\* record_failure_at, the pair: a failure that arrives while the pair is
\* locked extends nothing and does not reach the address's counter.
RecordPair(r) ==
    /\ Stands(r, "failed")
    /\ LET p     == Pair(r)
           now   == attempt[r].now
           Stale(e) == e.until <= now /\ Since(now, e.seen) >= MaxLockout
           kept  == Kept(pairs, p, Stale)
           entry == IF p \in kept THEN pairs[p]
                    ELSE [failures |-> 0, lockouts |-> 0, until |-> 0, seen |-> now]
           after == Failure(entry, now)
           price == IF after.lockouts > entry.lockouts THEN Lockout(after.lockouts) ELSE 0
           tale  == IF p \in kept THEN slate[p] ELSE [born |-> now, tried |-> 0, due |-> 0]
       IN  /\ pairs' = Put(Only(pairs, kept), p, after)
           /\ slate' = Put(Only(slate, kept), p,
                           [born |-> Least(tale.born, now), tried |-> tale.tried + 1,
                            due |-> tale.due + price])
           /\ IF entry.until > now THEN Leave(r) ELSE Proceed(r, "spray")
    /\ UNCHANGED <<clock, buckets, meter, sprays>>

\* The stamps left of the window are popped from the front only: stamps
\* recorded out of order hide behind a younger one.
Windowed(stamps, now) ==
    LET old(i) == Since(now, stamps[i]) > SprayWindow
        first  == CHOOSE i \in 1..(Len(stamps) + 1) :
                      /\ \A j \in 1..(i - 1) : old(j)
                      /\ i <= Len(stamps) => ~old(i)
    IN  SubSeq(stamps, first, Len(stamps))

\* record_failure_at, the address: failures on any names inside the window.
RecordSpray(r) ==
    /\ Stands(r, "spray")
    /\ LET c     == attempt[r].client
           now   == attempt[r].now
           Stale(e) == /\ e.until <= now
                       /\ e.recent # <<>> =>
                             Since(now, e.recent[Len(e.recent)]) >= SprayWindow
           kept  == Kept(sprays, c, Stale)
           entry == IF c \in kept THEN sprays[c] ELSE [recent |-> <<>>, until |-> 0]
           recent == Windowed(Append(entry.recent, now), now)
       IN  sprays' = Put(Only(sprays, kept), c,
              IF entry.until > now THEN entry
              ELSE IF Len(recent) < SprayFailures
                  THEN [entry EXCEPT !.recent = recent]
                  ELSE [recent |-> <<>>, until |-> now + SprayWindow])
    /\ Leave(r)
    /\ UNCHANGED <<clock, buckets, meter, pairs, slate>>

ThrottleNext ==
    \/ Tick
    \/ \E r \in Attempts :
          \/ \E c \in Clients, n \in Names : Attempt(r, c, n)
          \/ Limit(r) \/ CheckAddress(r) \/ CheckPair(r)
          \/ Succeed(r) \/ Hiccup(r) \/ Fail(r)
          \/ RecordPair(r) \/ RecordSpray(r)

ThrottleSpec == ThrottleInit /\ [][ThrottleNext]_throttleVars

-----------------------------------------------------------------------------
(* Properties.                                                             *)

\* What brute force gets: of the attempts that failed on a tracked pair, all
\* but those another attempt's failure overtook count towards a lockout, and
\* the lockouts were served one after the other, each as long as its turn
\* asks (login checks before Argon2 and records after it, so as many
\* attempts as there are requests in flight can slip in at each trip).
GuessesPaidFor ==
    \A p \in DOMAIN pairs :
        LET e == pairs[p] IN
        /\ slate[p].tried <=
              (MaxFailures + Cardinality(Attempts) - 1) * e.lockouts + e.failures
        /\ e.lockouts > 0 => e.until >= slate[p].born + slate[p].due

\* A table is full of keys that cannot be dropped: the one case in which
\* locks in force are forgotten.
Overflown(table) == Cardinality(DOMAIN table) = MaxTracked

LocksHold ==
    /\ \A p \in DOMAIN pairs : pairs[p].until > clock =>
          \/ p \in DOMAIN pairs' /\ pairs'[p].until = pairs[p].until
          \/ p \notin DOMAIN pairs' /\ Overflown(pairs)
          \/ p \notin DOMAIN pairs' /\ \E r \in Attempts : Stands(r, "verify") /\ Pair(r) = p
    /\ \A c \in DOMAIN sprays : sprays[c].until > clock =>
          \/ c \in DOMAIN sprays' /\ sprays'[c].until = sprays[c].until
          \/ c \notin DOMAIN sprays' /\ Overflown(sprays)

\* A lock in force is neither extended nor shortened by what arrives while it
\* runs.  It ends early for a pair when an attempt that was already being
\* verified succeeds, and for either table when the table is full.
LockKept == [][LocksHold]_throttleVars

\* No window of time admits more than the burst and what is regenerated in it
\* -- plus what is regenerated twice when a request that read the clock first
\* gets to its bucket last and moves last_refill back.
AdmittedBounded ==
    \A c \in DOMAIN buckets :
        LET b == buckets[c]  m == meter[c] IN
        /\ b.tokens <= Burst
        /\ m.admitted + b.tokens <= Burst + Rate * (Since(clock, m.born) + m.rewound)

\* On well-typed states: what brute force gets out of the login, and what a
\* window of time admits.
LimitsHold == ThrottleTypeOK /\ GuessesPaidFor /\ AdmittedBounded
=============================================================================
