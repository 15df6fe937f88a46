--------------------------- MODULE LoginThrottle ----------------------------
(***************************************************************************)
(* login's per-identifier throttle (login/src/throttle.rs) as its proxy    *)
(* uses it (login/src/proxy.rs): an attempt is admitted and counted before *)
(* it is sent to Kratos and settled when the answer is in.  Attempts       *)
(* overlap, the entry may be gone or another when one settles, and a       *)
(* client that goes away settles nothing.                                  *)
(***************************************************************************)
EXTENDS Integers, FiniteSets, FiniteSetsExt

CONSTANTS
  Keys,         \* identifiers, normalised and hashed
  Requests,     \* login submissions, each made again and again
  FREE_ATTEMPTS, SHORT_DELAY_ATTEMPTS, SHORT_DELAY, LONG_DELAY, FORGET_AFTER, MAX_TRACKED,
  None,         \* no identifier
  MaxAttempts,  \* bound on the attempts counted for one identifier
  MaxTime       \* bound on the clock

ASSUME ThrottleAssumption ==
  /\ FREE_ATTEMPTS \in Nat \ {0} /\ SHORT_DELAY_ATTEMPTS \in Nat
  /\ SHORT_DELAY \in Nat /\ LONG_DELAY \in Nat /\ SHORT_DELAY <= LONG_DELAY
  /\ LONG_DELAY < FORGET_AFTER /\ FORGET_AFTER \in Nat
  /\ MAX_TRACKED \in Nat \ {0}
  /\ IsFiniteSet(Requests) /\ None \notin Keys \cup (0..MaxTime)
  /\ MaxAttempts \in Nat \ {0} /\ MaxTime \in Nat

VARIABLES
  now,
  entries,  \* key -> [attempts, last_attempt], for the tracked ones
  sent,     \* request -> the key of the attempt Kratos is looking at, or None
  own,      \* request -> whether the entry it was counted in is still there
  guesses,  \* key -> wrong passwords tried since its entry was made
  strays,   \* key -> attempts another entry counted, given back to this one
  last      \* key -> when an attempt was last admitted, or None

vars == <<now, entries, sent, own, guesses, strays, last>>

\* The types; only identifiers with attempts are kept (throttle.rs:5-6).
TypeOK ==
  /\ now \in 0..MaxTime
  /\ entries \in [DOMAIN entries -> [attempts : 1..MaxAttempts, last_attempt : 0..MaxTime]]
  /\ DOMAIN entries \subseteq Keys
  /\ sent \in [Requests -> Keys \cup {None}]
  /\ own \in [Requests -> BOOLEAN]
  /\ guesses \in [Keys -> Nat] /\ strays \in [Keys -> Nat]
  /\ last \in [Keys -> (0..MaxTime) \cup {None}]

Init ==
  /\ now = 0
  /\ entries = <<>>
  /\ sent = [r \in Requests |-> None]
  /\ own = [r \in Requests |-> FALSE]
  /\ guesses = [k \in Keys |-> 0] /\ strays = [k \in Keys |-> 0]
  /\ last = [k \in Keys |-> None]

-----------------------------------------------------------------------------
delay_after(attempts) ==
  IF attempts < FREE_ATTEMPTS THEN 0
  ELSE IF attempts < FREE_ATTEMPTS + SHORT_DELAY_ATTEMPTS THEN SHORT_DELAY
  ELSE LONG_DELAY

wait_until(k) == entries[k].last_attempt + delay_after(entries[k].attempts)

\* Tracked and not forgotten.
Known(k) == k \in DOMAIN entries /\ now < entries[k].last_attempt + FORGET_AFTER

With(k, entry) ==
  [j \in DOMAIN entries \cup {k} |-> IF j = k THEN entry ELSE entries[j]]
Keep(ks) == [j \in ks |-> entries[j]]

\* The batch that makes room: of all batches of its size one that goes first,
\* the ones not yet delaying anyone before the others, then the oldest.
Batch == Min({Max({MAX_TRACKED \div 10, 1}), Cardinality(DOMAIN entries)})
Before(j, k) ==
  LET delaying(x) == entries[x].attempts >= FREE_ATTEMPTS IN
  \/ ~delaying(j) /\ delaying(k)
  \/ (delaying(j) <=> delaying(k)) /\ entries[j].last_attempt < entries[k].last_attempt

\* Mutant: the oldest go, delaying or not.
EvictOldest(gone) ==
  /\ gone \in kSubset(Batch, DOMAIN entries)
  /\ \A j \in gone, k \in DOMAIN entries \ gone :
       entries[j].last_attempt <= entries[k].last_attempt

evict(gone) ==
  /\ gone \in kSubset(Batch, DOMAIN entries)
  /\ \A j \in gone, k \in DOMAIN entries \ gone : ~Before(k, j)

\* The entries of these keys are gone: what they counted is counted no longer.
Forget(ks) ==
  /\ own' = [r \in Requests |-> own[r] /\ sent[r] \notin ks]
  /\ guesses' = [k \in Keys |-> IF k \in ks THEN 0 ELSE guesses[k]]
  /\ strays' = [k \in Keys |-> IF k \in ks THEN 0 ELSE strays[k]]

-----------------------------------------------------------------------------
\* Mutant: an attempt is not counted while it is under way.
AdmitUncounted(r, k) ==
  /\ sent[r] = None
  /\ Known(k) /\ now >= wait_until(k)
  /\ entries' = [entries EXCEPT ![k].last_attempt = now]
  /\ sent' = [sent EXCEPT ![r] = k]
  /\ own' = [own EXCEPT ![r] = TRUE]
  /\ last' = [last EXCEPT ![k] = now]
  /\ UNCHANGED <<now, guesses, strays>>

\* admit finds the key's entry: it counts the attempt at once.
AdmitKnown(r, k) ==
  /\ sent[r] = None
  /\ Known(k) /\ now >= wait_until(k)
  /\ entries[k].attempts < MaxAttempts
  /\ entries' = With(k, [attempts |-> entries[k].attempts + 1, last_attempt |-> now])
  /\ sent' = [sent EXCEPT ![r] = k]
  /\ own' = [own EXCEPT ![r] = TRUE]
  /\ last' = [last EXCEPT ![k] = now]
  /\ UNCHANGED <<now, guesses, strays>>

\* admit refuses an attempt that comes too soon, and changes nothing.
AdmitWaits(r, k) ==
  /\ sent[r] = None
  /\ Known(k) /\ now < wait_until(k)
  /\ UNCHANGED vars

\* admit makes an entry: the key is new or was forgotten, and others make room.
AdmitNew(r, k) ==
  /\ sent[r] = None
  /\ ~Known(k)
  /\ \E gone \in SUBSET DOMAIN entries :
       /\ IF Cardinality(DOMAIN entries) >= MAX_TRACKED THEN evict(gone) ELSE gone = {}
       /\ entries' = [j \in (DOMAIN entries \ gone) \cup {k} |->
                        IF j = k THEN [attempts |-> 1, last_attempt |-> now] ELSE entries[j]]
       /\ own' = [q \in Requests |-> q = r \/ (own[q] /\ sent[q] \notin gone \cup {k})]
       /\ guesses' = [j \in Keys |-> IF j \in gone \cup {k} THEN 0 ELSE guesses[j]]
       /\ strays' = [j \in Keys |-> IF j \in gone \cup {k} THEN 0 ELSE strays[j]]
  /\ sent' = [sent EXCEPT ![r] = k]
  /\ last' = [last EXCEPT ![k] = now]
  /\ UNCHANGED now

\* settle, with a wrong password: the attempt stays counted.
SettleFailed(r) ==
  LET k == sent[r] IN
  /\ k # None
  /\ sent' = [sent EXCEPT ![r] = None]
  /\ own' = [own EXCEPT ![r] = FALSE]
  /\ guesses' = IF own[r] THEN [guesses EXCEPT ![k] = @ + 1] ELSE guesses
  /\ UNCHANGED <<now, entries, strays, last>>

\* settle, with the right password: the identifier starts from zero.
SettleSucceeded(r) ==
  LET k == sent[r] IN
  /\ k # None
  /\ entries' = Keep(DOMAIN entries \ {k})
  /\ sent' = [sent EXCEPT ![r] = None]
  /\ Forget({k})
  /\ UNCHANGED <<now, last>>

\* Mutant: an attempt given back takes the entry with it.
SettleForgets(r) ==
  LET k == sent[r] IN
  /\ k # None
  /\ entries' = Keep(DOMAIN entries \ {k})
  /\ sent' = [sent EXCEPT ![r] = None]
  /\ own' = [own EXCEPT ![r] = FALSE]
  /\ UNCHANGED <<now, guesses, strays, last>>

\* settle, with no verdict (no CSRF cookie, Kratos down): the attempt is given
\* back to whatever entry the key has by now.
SettleNotAnAttempt(r) ==
  LET k == sent[r]
      left == IF k \in DOMAIN entries THEN entries[k].attempts - 1 ELSE 0
  IN
  /\ k # None
  /\ sent' = [sent EXCEPT ![r] = None]
  /\ \/ /\ left > 0
        /\ entries' = [entries EXCEPT ![k].attempts = left]
        /\ own' = [own EXCEPT ![r] = FALSE]
        /\ strays' = IF own[r] THEN strays ELSE [strays EXCEPT ![k] = @ + 1]
        /\ UNCHANGED guesses
     \/ /\ left = 0
        /\ entries' = Keep(DOMAIN entries \ {k})
        /\ Forget({k})
  /\ UNCHANGED <<now, last>>

\* The client goes away, or the Kratos URL cannot be built: settle never runs.
NeverSettled(r) ==
  /\ sent[r] # None
  /\ sent' = [sent EXCEPT ![r] = None]
  /\ own' = [own EXCEPT ![r] = FALSE]
  /\ UNCHANGED <<now, entries, guesses, strays, last>>

Sweep ==
  LET kept == {k \in DOMAIN entries : now < entries[k].last_attempt + FORGET_AFTER} IN
  /\ kept # DOMAIN entries
  /\ entries' = Keep(kept)
  /\ Forget(DOMAIN entries \ kept)
  /\ UNCHANGED <<now, sent, last>>

Tick ==
  /\ now < MaxTime
  /\ now' = now + 1
  /\ UNCHANGED <<entries, sent, own, guesses, strays, last>>

Next ==
  \/ \E r \in Requests :
       \/ \E k \in Keys : AdmitKnown(r, k) \/ AdmitWaits(r, k) \/ AdmitNew(r, k)
       \/ SettleFailed(r)
       \/ SettleSucceeded(r)
       \/ SettleNotAnAttempt(r)
       \/ NeverSettled(r)
  \/ Sweep
  \/ Tick

Spec == Init /\ [][Next]_vars

-----------------------------------------------------------------------------
\* Attempts of the key's entry that are under way, and with them those that were
\* wrong guesses.
UnderWay(k) == {r \in Requests : sent[r] = k /\ own[r]}
Counted(k) == guesses[k] + Cardinality(UnderWay(k))

\* "in flight ones included, so parallel requests can't all slip through"
\* (throttle.rs:62-63): an entry counts its wrong guesses and the attempts under
\* way, but for what a late attempt of an earlier entry took back.
GuessesAreCounted ==
  \A k \in DOMAIN entries : entries[k].attempts + strays[k] >= Counted(k)

\* An attempt is admitted only once the delay that the guesses of its entry call
\* for has passed since the last admitted one, however the attempts before it
\* overlapped and settled (throttle.rs:74-82, 108-121).
GuessesAreDelayed ==
  [][\A k \in Keys : (\E r \in Requests : sent[r] = None /\ sent'[r] = k) =>
       last[k] = None \/ now >= last[k] + delay_after(Counted(k) - strays[k])]_vars

\* "It is a delay, not a lockout" (throttle.rs:2-4): whatever others try, and
\* however often, an identifier waits no longer than LONG_DELAY from the last
\* attempt that was admitted.
NeverLockedOut ==
  \A k \in DOMAIN entries : last[k] # None /\ wait_until(k) <= last[k] + LONG_DELAY

\* "Memory is bounded" (throttle.rs:5-6), and a flood of new identifiers pushes
\* out one that is being delayed only when no other is left (throttle.rs:84-86).
RoomIsMadeFairly ==
  [][/\ Cardinality(DOMAIN entries') <= MAX_TRACKED
     /\ \A k \in DOMAIN entries \ DOMAIN entries', j \in DOMAIN entries \cap DOMAIN entries' :
          (DOMAIN entries' \ DOMAIN entries # {} /\ entries[k].attempts >= FREE_ATTEMPTS) =>
             entries[j].attempts >= FREE_ATTEMPTS]_vars

\* "Wrong credentials: the attempt stays counted" (throttle.rs:52).
GuessStaysCounted ==
  \A k \in DOMAIN entries : entries[k].attempts >= Counted(k)

\* An entry is as old as its last admitted attempt, which is not to come.
LastIsNoted ==
  /\ \A k \in DOMAIN entries : last[k] = entries[k].last_attempt
  /\ \A k \in Keys : last[k] # None => last[k] <= now

\* What has no entry has nothing counted.
UntrackedCountsNothing ==
  \A k \in Keys \ DOMAIN entries : guesses[k] = 0 /\ UnderWay(k) = {}

\* What every state of throttle.rs keeps: guesses stay counted, and whom they
\* delay is never locked out.
CountInv ==
  /\ TypeOK
  /\ LastIsNoted /\ UntrackedCountsNothing
  /\ GuessesAreCounted /\ NeverLockedOut
=============================================================================
