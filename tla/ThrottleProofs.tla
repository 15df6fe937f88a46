--------------------------- MODULE ThrottleProofs ----------------------------
(***************************************************************************)
(* Proofs about LoginThrottle, for any identifiers, requests and limits.   *)
(* CountInv is inductive: what an entry counts covers the attempts under   *)
(* way and the wrong guesses (GuessesAreCounted), one that is gone counts  *)
(* nothing (UntrackedCountsNothing), and an entry's time is that of the    *)
(* last admitted attempt (LastIsNoted), from which the delays follow.      *)
(***************************************************************************)
EXTENDS LoginThrottle, FiniteSetTheorems, TLAPS

\* Few attempts wait for less, nobody longer than LONG_DELAY.
LEMMA DelayGrows ==
  ASSUME NEW m \in Int, NEW n \in Int, m <= n
  PROVE  /\ delay_after(n) \in 0..LONG_DELAY
         /\ delay_after(m) <= delay_after(n)
  BY ThrottleAssumption DEF delay_after

\* Finitely many attempts are under way.
LEMMA UnderWayIsFinite ==
  ASSUME NEW k
  PROVE  IsFiniteSet(UnderWay(k)) /\ Cardinality(UnderWay(k)) \in Nat
<1>1. IsFiniteSet(UnderWay(k))
  BY ThrottleAssumption, FS_Subset DEF UnderWay
<1> QED
  BY <1>1, FS_CardinalityType

\* What an entry has in it.
LEMMA EntryTypes ==
  ASSUME TypeOK, NEW k \in DOMAIN entries
  PROVE  /\ k \in Keys /\ entries[k].attempts \in Nat /\ entries[k].last_attempt \in 0..MaxTime
         /\ entries[k].last_attempt \in Nat /\ now \in Nat
  BY ThrottleAssumption DEF TypeOK

\* An admitted attempt is one more under way.
LEMMA OneMoreUnderWay ==
  ASSUME NEW k, NEW r
  PROVE  /\ Cardinality(UnderWay(k) \cup {r}) \in Nat
         /\ Cardinality(UnderWay(k)) \in Nat
         /\ Cardinality(UnderWay(k) \cup {r}) <= Cardinality(UnderWay(k)) + 1
<1> DEFINE S == UnderWay(k)
<1>1. IsFiniteSet(S) /\ Cardinality(S) \in Nat
  BY UnderWayIsFinite
<1> HIDE DEF S
<1>2. Cardinality(S \cup {r}) = IF r \in S THEN Cardinality(S) ELSE Cardinality(S) + 1
  BY <1>1, FS_AddElement
<1>3. Cardinality(S \cup {r}) \in Nat /\ Cardinality(S \cup {r}) <= Cardinality(S) + 1
  BY <1>1, <1>2
<1> QED
  BY <1>1, <1>3 DEF S

\* One attempt less, if it was among them.
LEMMA OneLessUnderWay ==
  ASSUME NEW k, NEW r
  PROVE  /\ Cardinality(UnderWay(k) \ {r}) \in Nat
         /\ Cardinality(UnderWay(k)) \in Nat
         /\ Cardinality(UnderWay(k) \ {r})
              = IF r \in UnderWay(k) THEN Cardinality(UnderWay(k)) - 1 ELSE Cardinality(UnderWay(k))
<1> DEFINE S == UnderWay(k)
<1>1. IsFiniteSet(S) /\ Cardinality(S) \in Nat
  BY UnderWayIsFinite
<1> HIDE DEF S
<1>2. IsFiniteSet(S \ {r})
      /\ Cardinality(S \ {r}) = IF r \in S THEN Cardinality(S) - 1 ELSE Cardinality(S)
  BY <1>1, FS_RemoveElement
<1>3. Cardinality(S \ {r}) \in Nat
  BY <1>2, FS_CardinalityType
<1> QED
  BY <1>1, <1>2, <1>3 DEF S

\* A known entry's time is enough for nobody to be locked out.
LEMMA NotedIsNotLockedOut ==
  ASSUME TypeOK, LastIsNoted
  PROVE  NeverLockedOut
<1> SUFFICES ASSUME NEW k \in DOMAIN entries
             PROVE  last[k] # None /\ wait_until(k) <= last[k] + LONG_DELAY
  BY DEF NeverLockedOut
<1>1. last[k] = entries[k].last_attempt /\ last[k] \in 0..MaxTime /\ entries[k].attempts \in Nat
  BY EntryTypes DEF LastIsNoted
<1> QED
  BY <1>1, DelayGrows, ThrottleAssumption DEF wait_until

\* The throttle begins with nobody tracked.
LEMMA InitCountInv == Init => CountInv
<1> SUFFICES ASSUME Init PROVE CountInv
  OBVIOUS
<1>1. TypeOK
  BY ThrottleAssumption DEF Init, TypeOK
<1> QED
  BY <1>1 DEF Init, CountInv, LastIsNoted, UntrackedCountsNothing, UnderWay, GuessesAreCounted,
     NeverLockedOut

\* admit for an identifier with an entry: it is counted before Kratos answers.
LEMMA AdmitKnownKeepsCountInv ==
  ASSUME CountInv, NEW r \in Requests, NEW k \in Keys, AdmitKnown(r, k)
  PROVE  CountInv'
<1> USE DEF CountInv
<1>0. /\ k \in DOMAIN entries /\ sent[r] = None /\ DOMAIN entries' = DOMAIN entries
      /\ entries'[k] = [attempts |-> entries[k].attempts + 1, last_attempt |-> now]
      /\ \A j \in DOMAIN entries \ {k} : entries'[j] = entries[j]
  BY DEF AdmitKnown, Known, With
<1>1. TypeOK'
  <2>1. entries[k].attempts + 1 \in 1..MaxAttempts /\ now \in 0..MaxTime
    BY <1>0, EntryTypes, ThrottleAssumption DEF AdmitKnown, TypeOK
  <2> QED
    BY <1>0, <2>1 DEF AdmitKnown, TypeOK, With
<1>2. LastIsNoted'
  BY <1>0, ThrottleAssumption DEF AdmitKnown, LastIsNoted, TypeOK
<1>3. /\ UnderWay(k)' = UnderWay(k) \cup {r}
      /\ \A j \in Keys \ {k} : UnderWay(j)' = UnderWay(j)
  BY <1>0, ThrottleAssumption DEF AdmitKnown, UnderWay, TypeOK
<1>4. UntrackedCountsNothing'
  BY <1>0, <1>3 DEF AdmitKnown, UntrackedCountsNothing
<1>5. GuessesAreCounted'
  <2> SUFFICES ASSUME NEW j \in DOMAIN entries
               PROVE  entries'[j].attempts + strays[j]
                        >= guesses[j] + Cardinality(UnderWay(j)')
    BY <1>0 DEF GuessesAreCounted, Counted, AdmitKnown
  <2>1. /\ entries[j].attempts + strays[j] >= guesses[j] + Cardinality(UnderWay(j))
        /\ j \in Keys /\ entries[j].attempts \in Nat /\ strays[j] \in Nat /\ guesses[j] \in Nat
    BY EntryTypes DEF GuessesAreCounted, Counted, TypeOK
  <2>2. CASE j # k
    BY <1>0, <1>3, <2>1, <2>2
  <2>3. CASE j = k
    <3>1. entries'[j].attempts = entries[j].attempts + 1 /\ UnderWay(j)' = UnderWay(j) \cup {r}
      BY <1>0, <1>3, <2>3
    <3> QED
      <4>1. /\ Cardinality(UnderWay(j)') \in Nat /\ Cardinality(UnderWay(j)) \in Nat
            /\ Cardinality(UnderWay(j)') <= Cardinality(UnderWay(j)) + 1
        BY <3>1, OneMoreUnderWay
      <4> QED
        BY <2>1, <3>1, <4>1
  <2> QED
    BY <2>2, <2>3
<1>6. NeverLockedOut'
  BY <1>1, <1>2, NotedIsNotLockedOut, PTL
<1> QED
  BY <1>1, <1>2, <1>4, <1>5, <1>6

\* The entry is new: of the key's attempts only this one is in it.
LEMMA AdmitNewKeepsCountInv ==
  ASSUME CountInv, NEW r \in Requests, NEW k \in Keys, AdmitNew(r, k)
  PROVE  CountInv'
<1> USE DEF CountInv
<1>0. PICK gone \in SUBSET DOMAIN entries :
        /\ entries' = [j \in (DOMAIN entries \ gone) \cup {k} |->
                         IF j = k THEN [attempts |-> 1, last_attempt |-> now] ELSE entries[j]]
        /\ own' = [q \in Requests |-> q = r \/ (own[q] /\ sent[q] \notin gone \cup {k})]
        /\ guesses' = [j \in Keys |-> IF j \in gone \cup {k} THEN 0 ELSE guesses[j]]
        /\ strays' = [j \in Keys |-> IF j \in gone \cup {k} THEN 0 ELSE strays[j]]
  BY DEF AdmitNew
<1>1. /\ sent[r] = None /\ sent' = [sent EXCEPT ![r] = k]
      /\ last' = [last EXCEPT ![k] = now] /\ now' = now
  BY DEF AdmitNew
<1>2. TypeOK'
  BY <1>0, <1>1, ThrottleAssumption DEF TypeOK
<1>3. LastIsNoted'
  BY <1>0, <1>1, ThrottleAssumption DEF LastIsNoted, TypeOK
<1>4. /\ UnderWay(k)' = {r}
      /\ \A j \in Keys \ {k} : UnderWay(j)' = IF j \in gone THEN {} ELSE UnderWay(j)
  <2>1. /\ sent'[r] = k /\ own'[r]
        /\ \A q \in Requests \ {r} : sent'[q] = sent[q]
    BY <1>0, <1>1 DEF TypeOK
  <2>2. \A q \in Requests \ {r} : own'[q] <=> own[q] /\ sent[q] \notin gone \cup {k}
    BY <1>0
  <2>3. UnderWay(k)' = {r}
    BY <2>1, <2>2 DEF UnderWay
  <2>4. ASSUME NEW j \in Keys \ {k}, NEW q
        PROVE  q \in UnderWay(j)' <=> j \notin gone /\ q \in UnderWay(j)
    <3>1. CASE q = r
      BY <1>1, <2>1, <3>1, ThrottleAssumption DEF UnderWay
    <3>2. CASE q # r
      BY <2>1, <2>2, <3>2 DEF UnderWay
    <3> QED
      BY <3>1, <3>2
  <2> QED
    BY <2>3, <2>4
<1>5. UntrackedCountsNothing'
  BY <1>0, <1>4 DEF UntrackedCountsNothing
<1>6. GuessesAreCounted'
  <2> SUFFICES ASSUME NEW j \in DOMAIN entries'
               PROVE  entries'[j].attempts + strays'[j]
                        >= guesses'[j] + Cardinality(UnderWay(j)')
    BY DEF GuessesAreCounted, Counted
  <2>1. CASE j = k
    <3>1. entries'[k].attempts = 1 /\ strays'[k] = 0 /\ guesses'[k] = 0
      BY <1>0
    <3>2. Cardinality(UnderWay(k)') = 1
      BY <1>4, FS_Singleton
    <3> QED
      BY <2>1, <3>1, <3>2
  <2>2. CASE j # k
    <3>1. j \in Keys /\ j \in DOMAIN entries \ gone /\ j \notin gone \cup {k}
      BY <1>0, <2>2 DEF TypeOK
    <3>2. /\ entries'[j] = entries[j] /\ guesses'[j] = guesses[j] /\ strays'[j] = strays[j]
          /\ UnderWay(j)' = UnderWay(j)
      BY <1>0, <1>4, <2>2, <3>1
    <3> QED
      BY <3>1, <3>2 DEF GuessesAreCounted, Counted
  <2> QED
    BY <2>1, <2>2
<1>7. NeverLockedOut'
  BY <1>2, <1>3, NotedIsNotLockedOut, PTL
<1> QED
  BY <1>2, <1>3, <1>5, <1>6, <1>7

\* An attempt is no longer under way; what it was counted in stays.
LEMMA SettledUnderWay ==
  ASSUME TypeOK, NEW r \in Requests,
         sent' = [sent EXCEPT ![r] = None], own' = [own EXCEPT ![r] = FALSE]
  PROVE  \A k \in Keys : UnderWay(k)' = UnderWay(k) \ {r}
  BY ThrottleAssumption DEF TypeOK, UnderWay

\* settle after wrong credentials: the attempt stays counted.
LEMMA SettleFailedKeepsCountInv ==
  ASSUME CountInv, NEW r \in Requests, SettleFailed(r)
  PROVE  CountInv'
<1> USE DEF CountInv
<1>1. TypeOK'
  BY DEF SettleFailed, TypeOK
<1>2. LastIsNoted' /\ NeverLockedOut'
  BY DEF SettleFailed, LastIsNoted, NeverLockedOut, wait_until
<1>3. \A k \in Keys : UnderWay(k)' = UnderWay(k) \ {r}
  BY SettledUnderWay DEF SettleFailed
<1>4. /\ r \in UnderWay(sent[r]) <=> own[r]
      /\ \A k \in Keys \ {sent[r]} : r \notin UnderWay(k)
      /\ sent[r] \in Keys
  BY DEF UnderWay, SettleFailed, TypeOK
<1>5. UntrackedCountsNothing'
  BY <1>3, <1>4 DEF SettleFailed, UntrackedCountsNothing, TypeOK
<1>6. GuessesAreCounted'
  <2> SUFFICES ASSUME NEW j \in DOMAIN entries
               PROVE  entries[j].attempts + strays[j]
                        >= guesses'[j] + Cardinality(UnderWay(j)')
    BY DEF GuessesAreCounted, Counted, SettleFailed
  <2>1. /\ entries[j].attempts + strays[j] >= guesses[j] + Cardinality(UnderWay(j))
        /\ j \in Keys /\ guesses[j] \in Nat
    BY DEF GuessesAreCounted, Counted, TypeOK
  <2>2. guesses'[j] = IF own[r] /\ j = sent[r] THEN guesses[j] + 1 ELSE guesses[j]
    BY <1>4, <2>1 DEF SettleFailed, TypeOK
  <2>3. guesses'[j] + Cardinality(UnderWay(j) \ {r}) = guesses[j] + Cardinality(UnderWay(j))
    BY <1>4, <2>1, <2>2, OneLessUnderWay
  <2> QED
    BY <1>3, <2>1, <2>3
<1> QED
  BY <1>1, <1>2, <1>5, <1>6

\* Entries that go take all they counted with them.
LEMMA ForgetKeepsCountInv ==
  ASSUME CountInv, NEW ks \in SUBSET Keys,
         entries' = Keep(DOMAIN entries \ ks), Forget(ks), UNCHANGED <<now, last>>,
         sent' \in [Requests -> Keys \cup {None}],
         \A r \in Requests : sent'[r] = sent[r] \/ (sent'[r] = None /\ sent[r] \in ks)
  PROVE  CountInv'
<1> USE DEF CountInv
<1>1. DOMAIN entries' = DOMAIN entries \ ks /\ \A k \in DOMAIN entries' : entries'[k] = entries[k]
  BY DEF Keep
<1>2. TypeOK'
  BY <1>1 DEF TypeOK, Forget, Keep
<1>3. LastIsNoted' /\ NeverLockedOut'
  BY <1>1 DEF LastIsNoted, NeverLockedOut, wait_until
<1>4. \A k \in Keys : UnderWay(k)' = IF k \in ks THEN {} ELSE UnderWay(k)
  <2>1. \A r \in Requests : own'[r] <=> own[r] /\ sent[r] \notin ks
    BY DEF Forget
  <2>2. ASSUME NEW k \in Keys, NEW r
        PROVE  r \in UnderWay(k)' <=> k \notin ks /\ r \in UnderWay(k)
    BY <2>1, ThrottleAssumption DEF UnderWay
  <2> QED
    BY <2>2
<1>5. \A k \in Keys : /\ guesses'[k] = IF k \in ks THEN 0 ELSE guesses[k]
                     /\ strays'[k] = IF k \in ks THEN 0 ELSE strays[k]
  BY DEF Forget
<1>6. UntrackedCountsNothing'
  BY <1>1, <1>4, <1>5 DEF UntrackedCountsNothing
<1>7. GuessesAreCounted'
  <2> SUFFICES ASSUME NEW k \in DOMAIN entries'
               PROVE  entries'[k].attempts + strays'[k] >= guesses'[k] + Cardinality(UnderWay(k)')
    BY DEF GuessesAreCounted, Counted
  <2>1. k \in DOMAIN entries /\ k \in Keys /\ k \notin ks
    BY <1>1 DEF TypeOK
  <2> QED
    BY <1>1, <1>4, <1>5, <2>1 DEF GuessesAreCounted, Counted
<1> QED
  BY <1>2, <1>3, <1>6, <1>7

\* settle after a login: the entry goes.
LEMMA SettleSucceededKeepsCountInv ==
  ASSUME CountInv, NEW r \in Requests, SettleSucceeded(r)
  PROVE  CountInv'
<1>1. sent[r] \in Keys /\ sent' \in [Requests -> Keys \cup {None}]
  BY DEF SettleSucceeded, CountInv, TypeOK
<1>2. \A q \in Requests : sent'[q] = sent[q] \/ (sent'[q] = None /\ sent[q] \in {sent[r]})
  BY DEF SettleSucceeded, CountInv, TypeOK
<1>3. {sent[r]} \in SUBSET Keys
  BY <1>1
<1> QED
  BY <1>1, <1>2, <1>3, ForgetKeepsCountInv DEF SettleSucceeded

\* settle after something that was no guess: the attempt is taken back.
LEMMA SettleNotAnAttemptKeepsCountInv ==
  ASSUME CountInv, NEW r \in Requests, SettleNotAnAttempt(r)
  PROVE  CountInv'
<1> DEFINE k == sent[r]
           left == IF k \in DOMAIN entries THEN entries[k].attempts - 1 ELSE 0
<1>0. k \in Keys /\ sent' = [sent EXCEPT ![r] = None] /\ UNCHANGED <<now, last>>
  BY DEF SettleNotAnAttempt, CountInv, TypeOK
<1>1. CASE left = 0 /\ entries' = Keep(DOMAIN entries \ {k}) /\ Forget({k})
  <2>1. \A q \in Requests : sent'[q] = sent[q] \/ (sent'[q] = None /\ sent[q] \in {k})
    BY <1>0 DEF CountInv, TypeOK
  <2>2. {k} \in SUBSET Keys /\ sent' \in [Requests -> Keys \cup {None}]
    BY <1>0 DEF CountInv, TypeOK
  <2> QED
    BY <1>0, <1>1, <2>1, <2>2, ForgetKeepsCountInv
<1>2. CASE /\ left > 0 /\ entries' = [entries EXCEPT ![k].attempts = left]
           /\ own' = [own EXCEPT ![r] = FALSE] /\ UNCHANGED guesses
           /\ strays' = IF own[r] THEN strays ELSE [strays EXCEPT ![k] = @ + 1]
  <2> USE DEF CountInv
  <2>1. k \in DOMAIN entries /\ left = entries[k].attempts - 1 /\ DOMAIN entries' = DOMAIN entries
    BY <1>2
  <2>2. /\ entries'[k].attempts = left /\ entries'[k].last_attempt = entries[k].last_attempt
        /\ \A j \in DOMAIN entries \ {k} : entries'[j] = entries[j]
        /\ entries[k].attempts \in 1..MaxAttempts /\ left \in 1..MaxAttempts
    BY <1>2, <2>1, ThrottleAssumption DEF TypeOK
  <2> HIDE DEF left
  <2>3. TypeOK'
    BY <1>0, <1>2, <2>1, <2>2 DEF TypeOK
  <2>4. LastIsNoted'
    BY <1>0, <2>1, <2>2 DEF LastIsNoted
  <2>5. NeverLockedOut'
    BY <2>3, <2>4, NotedIsNotLockedOut, PTL
  <2>6. \A j \in Keys : UnderWay(j)' = UnderWay(j) \ {r}
    BY <1>0, <1>2, SettledUnderWay
  <2>7. (r \in UnderWay(k) <=> own[r]) /\ \A j \in Keys \ {k} : r \notin UnderWay(j)
    BY DEF UnderWay
  <2>8. UntrackedCountsNothing'
    BY <1>2, <2>1, <2>6 DEF UntrackedCountsNothing
  <2>9. GuessesAreCounted'
    <3> SUFFICES ASSUME NEW j \in DOMAIN entries
                 PROVE  entries'[j].attempts + strays'[j] >= guesses[j] + Cardinality(UnderWay(j)')
      BY <1>2, <2>1 DEF GuessesAreCounted, Counted
    <3>1. /\ entries[j].attempts + strays[j] >= guesses[j] + Cardinality(UnderWay(j))
          /\ j \in Keys /\ guesses[j] \in Nat /\ strays[j] \in Nat /\ entries[j].attempts \in Nat
      BY EntryTypes DEF GuessesAreCounted, Counted, TypeOK
    <3>2. CASE j # k
      <4>1. entries'[j] = entries[j] /\ strays'[j] = strays[j]
        BY <1>2, <2>2, <3>2
      <4> QED
        BY <2>6, <2>7, <3>1, <3>2, <4>1, OneLessUnderWay
    <3>3. CASE j = k
      <4>1. entries'[j].attempts = entries[j].attempts - 1
        BY <2>1, <2>2, <3>3
      <4>2. strays'[j] = IF own[r] THEN strays[j] ELSE strays[j] + 1
        BY <1>2, <3>1, <3>3 DEF TypeOK
      <4>3. Cardinality(UnderWay(j)')
              = IF own[r] THEN Cardinality(UnderWay(j)) - 1 ELSE Cardinality(UnderWay(j))
        BY <2>6, <2>7, <3>1, <3>3, OneLessUnderWay
      <4> QED
        BY <3>1, <4>1, <4>2, <4>3, UnderWayIsFinite
    <3> QED
      BY <3>2, <3>3
  <2> QED
    BY <2>3, <2>4, <2>5, <2>8, <2>9
<1> QED
  BY <1>0, <1>1, <1>2 DEF SettleNotAnAttempt

\* A client goes away before its attempt settles: it stays counted.
LEMMA NeverSettledKeepsCountInv ==
  ASSUME CountInv, NEW r \in Requests, NeverSettled(r)
  PROVE  CountInv'
<1> USE DEF CountInv
<1>1. TypeOK'
  BY DEF NeverSettled, TypeOK
<1>2. LastIsNoted' /\ NeverLockedOut'
  BY DEF NeverSettled, LastIsNoted, NeverLockedOut, wait_until
<1>3. \A k \in Keys : UnderWay(k)' = UnderWay(k) \ {r}
  BY SettledUnderWay DEF NeverSettled
<1>4. UntrackedCountsNothing'
  BY <1>3 DEF NeverSettled, UntrackedCountsNothing
<1>5. GuessesAreCounted'
  <2> SUFFICES ASSUME NEW k \in DOMAIN entries
               PROVE  entries[k].attempts + strays[k] >= guesses[k] + Cardinality(UnderWay(k)')
    BY DEF NeverSettled, GuessesAreCounted, Counted
  <2>1. /\ entries[k].attempts + strays[k] >= guesses[k] + Cardinality(UnderWay(k))
        /\ k \in Keys /\ guesses[k] \in Nat /\ strays[k] \in Nat /\ entries[k].attempts \in Nat
    BY EntryTypes DEF GuessesAreCounted, Counted, TypeOK
  <2> QED
    <3>1. /\ Cardinality(UnderWay(k)') \in Nat /\ Cardinality(UnderWay(k)) \in Nat
          /\ Cardinality(UnderWay(k)') <= Cardinality(UnderWay(k))
      <4>1. UnderWay(k)' = UnderWay(k) \ {r}
        BY <1>3, <2>1
      <4> QED
        BY <4>1, OneLessUnderWay
    <3> QED
      BY <2>1, <3>1
<1> QED
  BY <1>1, <1>2, <1>4, <1>5

\* The sweep forgets entries that are old enough.
LEMMA SweepKeepsCountInv == CountInv /\ Sweep => CountInv'
<1> SUFFICES ASSUME CountInv, Sweep PROVE CountInv'
  OBVIOUS
<1> DEFINE kept == {k \in DOMAIN entries : now < entries[k].last_attempt + FORGET_AFTER}
           ks == DOMAIN entries \ kept
<1>1. entries' = Keep(kept) /\ Forget(ks) /\ UNCHANGED <<now, sent, last>>
  BY DEF Sweep
<1>2. kept = DOMAIN entries \ ks
  OBVIOUS
<1>3. ks \in SUBSET Keys /\ sent' \in [Requests -> Keys \cup {None}]
  BY <1>1 DEF CountInv, TypeOK
<1> HIDE DEF kept, ks
<1> QED
  BY <1>1, <1>2, <1>3, ForgetKeepsCountInv

\* Time passes.
LEMMA TickKeepsCountInv == CountInv /\ Tick => CountInv'
  BY ThrottleAssumption
     DEF CountInv, Tick, TypeOK, LastIsNoted, UntrackedCountsNothing, UnderWay, GuessesAreCounted,
         Counted, NeverLockedOut, wait_until

\* Every step of throttle.rs keeps CountInv.
LEMMA NextKeepsCountInv == CountInv /\ [Next]_vars => CountInv'
<1> SUFFICES ASSUME CountInv, [Next]_vars PROVE CountInv'
  OBVIOUS
<1>1. CASE UNCHANGED vars
  BY <1>1 DEF vars, CountInv, TypeOK, LastIsNoted, UntrackedCountsNothing, UnderWay,
     GuessesAreCounted, Counted, NeverLockedOut, wait_until
<1>2. CASE Next
  <2>1. CASE \E r \in Requests, k \in Keys : AdmitWaits(r, k)
    BY <1>1, <2>1 DEF AdmitWaits
  <2> QED
    BY <1>2, <2>1, AdmitKnownKeepsCountInv, AdmitNewKeepsCountInv, SettleFailedKeepsCountInv,
       SettleSucceededKeepsCountInv, SettleNotAnAttemptKeepsCountInv, NeverSettledKeepsCountInv,
       SweepKeepsCountInv, TickKeepsCountInv DEF Next
<1> QED
  BY <1>1, <1>2

\* Wrong guesses and attempts under way stay counted, and whom they delay is not
\* locked out, however attempts overlap, settle late or never (throttle.rs:60-134).
THEOREM CountInvariance == Spec => []CountInv
  BY InitCountInv, NextKeepsCountInv, PTL DEF Spec

\* The delay that the guesses of an entry call for is kept, whatever was admitted
\* and given back since (throttle.rs:74-82).
THEOREM GuessesAreDelayedHolds == Spec => GuessesAreDelayed
<1>1. ASSUME CountInv, [Next]_vars
      PROVE  [\A k \in Keys : (\E r \in Requests : sent[r] = None /\ sent'[r] = k) =>
               last[k] = None \/ now >= last[k] + delay_after(Counted(k) - strays[k])]_vars
  <2> USE DEF CountInv
  <2> SUFFICES ASSUME Next, NEW k \in Keys, NEW r \in Requests, sent[r] = None, sent'[r] = k,
                      last[k] # None
               PROVE  now >= last[k] + delay_after(Counted(k) - strays[k])
    BY <1>1
  <2>0. /\ Counted(k) - strays[k] \in Int /\ strays[k] \in Nat
        /\ last[k] \in Nat /\ now \in Nat /\ last[k] <= now
    BY <1>1, UnderWayIsFinite, ThrottleAssumption DEF Counted, TypeOK, LastIsNoted
  <2>1. AdmitKnown(r, k) \/ AdmitNew(r, k)
    <3>1. \/ \E q \in Requests, j \in Keys : AdmitKnown(q, j) \/ AdmitNew(q, j)
          \/ UNCHANGED sent
          \/ \E q \in Requests : sent' = [sent EXCEPT ![q] = None]
      BY DEF Next, AdmitWaits, vars, SettleFailed, SettleSucceeded, SettleNotAnAttempt,
             NeverSettled, Sweep, Tick
    <3> QED
      <4>1. sent \in [Requests -> Keys \cup {None}] /\ k # None
        BY <1>1, ThrottleAssumption DEF TypeOK
      <4>2. ASSUME NEW q \in Requests, sent' = [sent EXCEPT ![q] = None] PROVE FALSE
        BY <4>1, <4>2
      <4>3. ASSUME NEW q \in Requests, NEW j \in Keys, AdmitKnown(q, j) \/ AdmitNew(q, j)
            PROVE  q = r /\ j = k
        <5>1. sent' = [sent EXCEPT ![q] = j]
          BY <4>3 DEF AdmitKnown, AdmitNew
        <5> QED
          BY <4>1, <5>1
      <4> QED
        BY <3>1, <4>1, <4>2, <4>3
  <2>2. CASE Known(k)
    <3>1. /\ k \in DOMAIN entries /\ entries[k].attempts \in Nat
          /\ last[k] = entries[k].last_attempt
          /\ entries[k].attempts + strays[k] >= Counted(k)
      BY <1>1, <2>2, EntryTypes DEF Known, LastIsNoted, GuessesAreCounted
    <3>2. now >= last[k] + delay_after(entries[k].attempts)
      BY <2>1, <2>2, <3>1 DEF AdmitKnown, AdmitNew, wait_until
    <3>3. delay_after(Counted(k) - strays[k]) <= delay_after(entries[k].attempts)
          /\ delay_after(Counted(k) - strays[k]) \in Nat /\ delay_after(entries[k].attempts) \in Nat
      <4>1. Counted(k) \in Int /\ Counted(k) - strays[k] <= entries[k].attempts
        BY <1>1, <2>0, <3>1, UnderWayIsFinite DEF Counted, TypeOK
      <4> QED
        BY <2>0, <3>1, <4>1, DelayGrows, ThrottleAssumption
    <3> QED
      BY <2>0, <3>2, <3>3
  <2>3. CASE k \notin DOMAIN entries
    <3>1. Counted(k) = 0
      BY <1>1, <2>3, FS_EmptySet DEF UntrackedCountsNothing, Counted
    <3>2. delay_after(Counted(k) - strays[k]) = 0
      BY <2>0, <3>1, ThrottleAssumption DEF delay_after
    <3> QED
      BY <2>0, <3>2
  <2>4. CASE k \in DOMAIN entries /\ ~Known(k)
    <3>1. now >= last[k] + FORGET_AFTER
      BY <1>1, <2>4, EntryTypes, ThrottleAssumption DEF Known, LastIsNoted
    <3>2. delay_after(Counted(k) - strays[k]) \in 0..LONG_DELAY
      BY <2>0, DelayGrows
    <3> QED
      BY <2>0, <3>1, <3>2, ThrottleAssumption
  <2> QED
    BY <2>2, <2>3, <2>4
<1> QED
  BY <1>1, CountInvariance, PTL DEF Spec, GuessesAreDelayed

-----------------------------------------------------------------------------
(* Memory                                                                  *)

Bounded == IsFiniteSet(DOMAIN entries) /\ Cardinality(DOMAIN entries) <= MAX_TRACKED

\* A batch is never empty when there is no room, so it does make some.
LEMMA BatchIsSome ==
  ASSUME IsFiniteSet(DOMAIN entries), Cardinality(DOMAIN entries) >= MAX_TRACKED
  PROVE  Batch \in Nat \ {0}
<1>1. /\ Cardinality(DOMAIN entries) \in Nat \ {0} /\ MAX_TRACKED \div 10 \in Int
  BY FS_CardinalityType, ThrottleAssumption
<1> DEFINE m == Max({MAX_TRACKED \div 10, 1})
<1>2. \A x \in Int : Max({x, 1}) \in Int /\ Max({x, 1}) >= 1
  <2> TAKE x \in Int
  <2>1. \E y \in {x, 1} : \A z \in {x, 1} : y >= z
    BY x >= 1 \/ 1 >= x
  <2>2. Max({x, 1}) \in {x, 1} /\ \A z \in {x, 1} : Max({x, 1}) >= z
    BY <2>1 DEF Max
  <2> QED
    BY <2>2
<1>3. m \in Int /\ m >= 1
  BY <1>1, <1>2
<1>4. \A x, y \in Int : Min({x, y}) \in {x, y}
  <2> TAKE x, y \in Int
  <2>1. \E z \in {x, y} : \A w \in {x, y} : z =< w
    BY x <= y \/ y <= x
  <2> QED
    BY <2>1 DEF Min
<1> QED
  BY <1>1, <1>3, <1>4 DEF Batch

\* admit for a new identifier: at most MAX_TRACKED are tracked then, and of those
\* pushed out none is delaying anyone unless all that stay are.
LEMMA AdmitNewMakesRoom ==
  ASSUME Bounded, TypeOK, NEW r \in Requests, NEW k \in Keys, AdmitNew(r, k)
  PROVE  /\ Bounded'
         /\ \A i \in DOMAIN entries \ DOMAIN entries', j \in DOMAIN entries \cap DOMAIN entries' :
              (DOMAIN entries' \ DOMAIN entries # {} /\ entries[i].attempts >= FREE_ATTEMPTS) =>
                 entries[j].attempts >= FREE_ATTEMPTS
<1>1. PICK gone \in SUBSET DOMAIN entries :
        /\ IF Cardinality(DOMAIN entries) >= MAX_TRACKED THEN evict(gone) ELSE gone = {}
        /\ DOMAIN entries' = (DOMAIN entries \ gone) \cup {k}
  BY DEF AdmitNew
<1> DEFINE rest == DOMAIN entries \ gone
<1>2. /\ IsFiniteSet(rest) /\ Cardinality(rest) \in Nat /\ IsFiniteSet(gone) /\ Cardinality(gone) \in Nat
      /\ Cardinality(rest) = Cardinality(DOMAIN entries) - Cardinality(gone)
  <2>1. IsFiniteSet(gone)
    BY <1>1, FS_Subset DEF Bounded
  <2>2. DOMAIN entries \cap gone = gone
    BY <1>1
  <2> QED
    BY <2>1, <2>2, FS_Difference, FS_CardinalityType DEF Bounded
<1>3. Cardinality(DOMAIN entries) \in Nat /\ MAX_TRACKED \in Nat \ {0}
  BY FS_CardinalityType, ThrottleAssumption DEF Bounded
<1>4. Cardinality(rest) < MAX_TRACKED
  <2>1. CASE Cardinality(DOMAIN entries) >= MAX_TRACKED
    <3>1. Cardinality(gone) = Batch
      BY <1>1, <2>1 DEF evict, kSubset
    <3> QED
      BY <1>2, <1>3, <2>1, <3>1, BatchIsSome DEF Bounded
  <2>2. CASE Cardinality(DOMAIN entries) < MAX_TRACKED
    BY <1>2, <1>3, <2>2
  <2> QED
    BY <1>3, <2>1, <2>2
<1>5. Bounded'
  <2>1. IsFiniteSet(rest \cup {k}) /\ Cardinality(rest \cup {k}) <= Cardinality(rest) + 1
    BY <1>2, FS_AddElement
  <2>2. Cardinality(rest \cup {k}) \in Nat
    BY <2>1, FS_CardinalityType
  <2> QED
    BY <1>1, <1>2, <1>3, <1>4, <2>1, <2>2 DEF Bounded
<1>6. ASSUME NEW i \in DOMAIN entries \ DOMAIN entries', NEW j \in DOMAIN entries \cap DOMAIN entries',
             DOMAIN entries' \ DOMAIN entries # {}, entries[i].attempts >= FREE_ATTEMPTS
      PROVE  entries[j].attempts >= FREE_ATTEMPTS
  <2>1. i \in gone /\ j \in DOMAIN entries \ gone
    BY <1>1, <1>6
  <2>2. ~Before(j, i)
    BY <1>1, <2>1 DEF evict
  <2> QED
    BY <1>6, <2>2 DEF Before
<1> QED
  BY <1>5, <1>6

\* Every other step tracks nobody new.
LEMMA OthersTrackNobodyNew ==
  ASSUME TypeOK, [Next]_vars
  PROVE  \/ DOMAIN entries' \subseteq DOMAIN entries
         \/ \E r \in Requests, k \in Keys : AdmitNew(r, k)
<1>1. CASE \E r \in Requests, k \in Keys : AdmitKnown(r, k) \/ AdmitWaits(r, k)
  BY <1>1 DEF AdmitKnown, AdmitWaits, Known, With, vars
<1>2. CASE \E r \in Requests : SettleFailed(r) \/ SettleSucceeded(r) \/ NeverSettled(r)
  BY <1>2 DEF SettleFailed, SettleSucceeded, NeverSettled, Keep
<1>3. CASE \E r \in Requests : SettleNotAnAttempt(r)
  BY <1>3 DEF SettleNotAnAttempt, Keep, With
<1>4. CASE Sweep \/ Tick \/ UNCHANGED vars
  BY <1>4 DEF Sweep, Tick, Keep, vars
<1> QED
  BY <1>1, <1>2, <1>3, <1>4 DEF Next

\* Memory is bounded, and a flood of new identifiers pushes out none that is being
\* delayed while there is another (throttle.rs:5-6, 84-86).
THEOREM RoomIsMadeFairlyHolds == Spec => RoomIsMadeFairly
<1>1. Init => Bounded
  BY FS_EmptySet, ThrottleAssumption DEF Init, Bounded
<1>2. ASSUME CountInv, Bounded, [Next]_vars
      PROVE  /\ Bounded'
             /\ [/\ Cardinality(DOMAIN entries') <= MAX_TRACKED
                 /\ \A k \in DOMAIN entries \ DOMAIN entries', j \in DOMAIN entries \cap DOMAIN entries' :
                      (DOMAIN entries' \ DOMAIN entries # {} /\ entries[k].attempts >= FREE_ATTEMPTS) =>
                         entries[j].attempts >= FREE_ATTEMPTS]_vars
  <2>1. CASE \E r \in Requests, k \in Keys : AdmitNew(r, k)
    BY <1>2, <2>1, AdmitNewMakesRoom DEF CountInv, Bounded
  <2>2. CASE DOMAIN entries' \subseteq DOMAIN entries
    <3>1. Bounded'
      BY <1>2, <2>2, FS_Subset, FS_CardinalityType, ThrottleAssumption DEF Bounded
    <3> QED
      BY <2>2, <3>1 DEF Bounded
  <2> QED
    BY <1>2, <2>1, <2>2, OthersTrackNobodyNew DEF CountInv
<1> QED
  BY <1>1, <1>2, CountInvariance, PTL DEF Spec, RoomIsMadeFairly
=============================================================================
