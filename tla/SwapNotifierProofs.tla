--------------------------- MODULE SwapNotifierProofs ---------------------------
(***************************************************************************)
(* Proofs about the notification of swaps, for any window, timer period,   *)
(* number of swaps and of checks that run at the same time.                *)
(***************************************************************************)
EXTENDS SwapNotifier, SequenceLemmas

\* A check looks at swaps that were executed.
SoundCheck(r) ==
    /\ \A i \in DOMAIN r.events : r.events[i] \in DOMAIN executedAt
    /\ r.seen \subseteq DOMAIN executedAt

\* What is known of the swap that check r is about to mark or to notify.
CheckKnows(r) ==
    /\ r.next = "insert" =>
          Head(r.events) \notin notifiedSwaps /\ r.seen = notifiedSwaps
    /\ r.next = "notify" =>
          Head(r.events) \in notifiedSwaps /\ notifications[Head(r.events)] = 0

\* As long as checks do not overlap, what was notified is marked, once.
OneAtATime ==
    "overlap" \notin mishaps =>
       /\ Len(checks) <= 1
       /\ \A i \in 1 .. MaxSwaps :
             /\ notifications[i] <= 1
             /\ notifications[i] = 1 => i \in notifiedSwaps
       /\ \A c \in DOMAIN checks : CheckKnows(checks[c])

NotifierInv ==
    /\ NotifierTypeOK
    /\ \A c \in DOMAIN checks : SoundCheck(checks[c])
    /\ OneAtATime
-----------------------------------------------------------------------------
\* The events a check gets are those of swaps that were executed.
LEMMA RecentIsSound ==
    ASSUME NotifierTypeOK
    PROVE  /\ Recent \in Seq(1 .. MaxSwaps)
           /\ \A i \in DOMAIN Recent : Recent[i] \in DOMAIN executedAt
<1> DEFINE past == { i \in DOMAIN executedAt : executedAt[i] < height - Window }
           old == Cardinality(past)
<1>1. /\ DOMAIN executedAt = 1 .. Len(executedAt)
      /\ Len(executedAt) \in Nat /\ MaxSwaps \in Nat
      /\ Len(executedAt) <= MaxSwaps
  BY NotifierAssumption, LenProperties DEF NotifierTypeOK
<1>2. IsFiniteSet(1 .. Len(executedAt))
      /\ Cardinality(1 .. Len(executedAt)) = Len(executedAt)
  <2>1. \A n \in Nat : /\ IsFiniteSet(1 .. n)
                       /\ Cardinality(1 .. n) = IF 1 > n THEN 0 ELSE n - 1 + 1
    BY FS_Interval
  <2> QED BY <1>1, <2>1
<1>3. old \in Nat /\ old <= Len(executedAt)
  BY <1>1, <1>2, FS_Subset, FS_CardinalityType
<1>4. Recent = [ i \in 1 .. Len(executedAt) - old |-> old + i ]
  BY DEF Recent
<1> HIDE DEF old
<1>5. \A i \in 1 .. Len(executedAt) - old :
         old + i \in 1 .. Len(executedAt) /\ old + i \in 1 .. MaxSwaps
  BY <1>1, <1>3
<1>6. Len(executedAt) - old \in Nat
  BY <1>1, <1>3
<1>7. [ i \in 1 .. Len(executedAt) - old |-> old + i ] \in Seq(1 .. MaxSwaps)
  <2>1. [ i \in 1 .. Len(executedAt) - old |-> old + i ]
           \in [1 .. Len(executedAt) - old -> 1 .. MaxSwaps]
    BY <1>5
  <2> QED BY <1>6, <2>1, SeqDef
<1> QED BY <1>1, <1>4, <1>5, <1>7

\* The checks in order, each sound.
LEMMA ChecksAreSound ==
    ASSUME NotifierInv
    PROVE  /\ checks \in Seq({ r \in Check : SoundCheck(r) })
           /\ Len(checks) \in Nat /\ DOMAIN checks = 1 .. Len(checks)
<1>1. checks \in Seq(Check)
  BY DEF NotifierInv, NotifierTypeOK
<1>2. Len(checks) \in Nat /\ DOMAIN checks = 1 .. Len(checks)
  BY <1>1, LenProperties
<1>3. \A c \in 1 .. Len(checks) : checks[c] \in Check /\ SoundCheck(checks[c])
  BY <1>1, <1>2, ElementOfSeq DEF NotifierInv
<1> QED BY <1>1, <1>2, <1>3, SeqDef

LEMMA SoundChecks ==
    ASSUME NEW s \in Seq({ r \in Check : SoundCheck(r) })
    PROVE  /\ s \in Seq(Check)
           /\ \A c \in DOMAIN s : SoundCheck(s[c])
<1>1. /\ \A c \in 1 .. Len(s) : s[c] \in { r \in Check : SoundCheck(r) }
      /\ DOMAIN s = 1 .. Len(s) /\ Len(s) \in Nat
  BY ElementOfSeq, LenProperties
<1> QED BY <1>1, SeqDef
-----------------------------------------------------------------------------
(***************************************************************************)
(* The steps of a check.                                                   *)
(***************************************************************************)

\* A check goes on as r.
LEMMA CheckGoesOn ==
    ASSUME NotifierInv, NEW c \in DOMAIN checks, NEW r \in Check,
           SoundCheck(r), checks' = [checks EXCEPT ![c] = r],
           UNCHANGED << height, executedAt, lastPoll, mishaps >>,
           notifiedSwaps' \subseteq DOMAIN executedAt,
           notifications' \in [1 .. MaxSwaps -> Nat],
           "overlap" \notin mishaps =>
              /\ CheckKnows(r)'
              /\ \A i \in 1 .. MaxSwaps :
                    /\ notifications'[i] <= 1
                    /\ notifications'[i] = 1 => i \in notifiedSwaps'
    PROVE  NotifierInv'
<1> DEFINE Sound == { s \in Check : SoundCheck(s) }
<1>1. /\ checks \in Seq(Sound) /\ r \in Sound /\ c \in 1 .. Len(checks)
      /\ Len(checks) \in Nat
  BY ChecksAreSound
<1>2. /\ checks' \in Seq(Sound) /\ Len(checks') = Len(checks)
      /\ \A k \in 1 .. Len(checks) :
            checks'[k] = IF k = c THEN r ELSE checks[k]
  <2> HIDE DEF Sound
  <2> QED BY <1>1, ExceptSeq
<1>3. checks' \in Seq(Check) /\ \A k \in DOMAIN checks' : SoundCheck(checks'[k])
  BY <1>2, SoundChecks
<1>4. NotifierTypeOK'
  BY <1>3 DEF NotifierInv, NotifierTypeOK
<1>5. \A k \in DOMAIN checks' : SoundCheck(checks[k])'
  BY <1>3 DEF SoundCheck
<1>6. OneAtATime'
  <2> SUFFICES ASSUME "overlap" \notin mishaps
               PROVE  /\ Len(checks') <= 1
                      /\ \A k \in DOMAIN checks' : CheckKnows(checks[k])'
    BY DEF OneAtATime
  <2>1. Len(checks) <= 1
    BY DEF NotifierInv, OneAtATime
  <2>2. DOMAIN checks' = 1 .. Len(checks')
    BY <1>3, LenProperties
  <2>3. \A k \in DOMAIN checks' : k = c
    BY <1>1, <1>2, <2>1, <2>2
  <2>4. checks'[c] = r
    BY <1>1, <1>2
  <2> QED BY <1>2, <2>1, <2>3, <2>4 DEF CheckKnows
<1> QED BY <1>4, <1>5, <1>6 DEF NotifierInv

LEMMA CheckEnds ==
    ASSUME NotifierInv, NEW c \in DOMAIN checks,
           checks' = RemoveAt(checks, c),
           UNCHANGED << height, executedAt, lastPoll, notifiedSwaps,
                        notifications >>,
           mishaps' \in {mishaps, mishaps \cup {"failure"}}
    PROVE  NotifierInv'
<1> DEFINE Sound == { s \in Check : SoundCheck(s) }
<1>1. /\ checks \in Seq(Sound) /\ c \in 1 .. Len(checks)
      /\ Len(checks) \in Nat
  BY ChecksAreSound
<1>2. checks' \in Seq(Sound) /\ Len(checks') = Len(checks) - 1
  <2> HIDE DEF Sound
  <2> QED BY <1>1, RemoveAtKeeps
<1>3. checks' \in Seq(Check) /\ \A k \in DOMAIN checks' : SoundCheck(checks'[k])
  BY <1>2, SoundChecks
<1>4. NotifierTypeOK'
  BY <1>3 DEF NotifierInv, NotifierTypeOK
<1>5. \A k \in DOMAIN checks' : SoundCheck(checks[k])'
  BY <1>3 DEF SoundCheck
<1>6. OneAtATime'
  <2>1. DOMAIN checks' = 1 .. Len(checks')
    BY <1>3, LenProperties
  <2>2. "overlap" \notin mishaps' => Len(checks') <= 0
    BY <1>1, <1>2 DEF NotifierInv, OneAtATime
  <2> QED BY <1>1, <1>2, <2>1, <2>2 DEF NotifierInv, OneAtATime
<1> QED BY <1>4, <1>5, <1>6 DEF NotifierInv

LEMMA CheckStepKeepsInv ==
    ASSUME NotifierInv, NEW c \in DOMAIN checks,
           \/ Lookup(c) \/ AlreadyNotified(c) \/ Insert(c) \/ Notify(c)
           \/ Refreshed(c) \/ CallFails(c)
    PROVE  NotifierInv'
<1>1. /\ checks[c] \in Check /\ SoundCheck(checks[c])
      /\ "overlap" \notin mishaps =>
            /\ CheckKnows(checks[c])
            /\ \A i \in 1 .. MaxSwaps :
                  /\ notifications[i] <= 1
                  /\ notifications[i] = 1 => i \in notifiedSwaps
  <2>1. checks \in Seq(Check) /\ c \in 1 .. Len(checks)
    BY ChecksAreSound, SoundChecks
  <2>2. checks[c] \in Check
    BY <2>1, ElementOfSeq
  <2> QED BY <2>2 DEF NotifierInv, OneAtATime
<1>2. /\ checks[c].events \in Seq(1 .. MaxSwaps) /\ checks[c].events # << >>
      /\ Now(c) \in DOMAIN executedAt /\ Now(c) \in 1 .. MaxSwaps
      /\ checks[c].seen \subseteq DOMAIN executedAt
  <2>1. checks[c].events \in Seq(1 .. MaxSwaps) /\ checks[c].events # << >>
    BY <1>1 DEF Check
  <2>2. Len(checks[c].events) \in Nat /\ Len(checks[c].events) # 0
        /\ DOMAIN checks[c].events = 1 .. Len(checks[c].events)
    BY <2>1, EmptySeq, LenProperties
  <2>3. 1 \in 1 .. Len(checks[c].events)
    BY <2>2
  <2>4. checks[c].events[1] \in 1 .. MaxSwaps
    BY <2>1, <2>3, ElementOfSeq
  <2> QED BY <1>1, <2>1, <2>2, <2>3, <2>4 DEF Now, SoundCheck
<1>3. /\ notifiedSwaps \subseteq DOMAIN executedAt
      /\ DOMAIN executedAt \subseteq 1 .. MaxSwaps
      /\ notifications \in [1 .. MaxSwaps -> Nat]
      /\ checks = [k \in DOMAIN checks |-> checks[k]]
  <2>1. executedAt \in Seq(Nat) /\ Len(executedAt) <= MaxSwaps
        /\ MaxSwaps \in Nat
    BY NotifierAssumption DEF NotifierInv, NotifierTypeOK
  <2>2. Len(executedAt) \in Nat /\ DOMAIN executedAt = 1 .. Len(executedAt)
    BY <2>1, LenProperties
  <2>3. \A i \in 1 .. Len(executedAt) : i \in 1 .. MaxSwaps
    BY <2>1, <2>2
  <2>4. checks \in Seq(Check)
    BY DEF NotifierInv, NotifierTypeOK
  <2> QED BY <2>2, <2>3, <2>4 DEF NotifierInv, NotifierTypeOK
<1>4. CASE Lookup(c)
  <2>1. PICK r : r = [checks[c] EXCEPT !.next = "insert",
                                       !.seen = notifiedSwaps]
    OBVIOUS
  <2>2. checks' = [checks EXCEPT ![c] = r]
    BY <1>3, <1>4, <2>1 DEF Lookup
  <2>3. /\ r \in Check /\ SoundCheck(r)
        /\ r.next = "insert" /\ r.seen = notifiedSwaps
        /\ Head(r.events) = Now(c)
    BY <1>1, <1>2, <1>3, <2>1 DEF Check, SoundCheck, Now
  <2>4. CheckKnows(r)'
    BY <1>4, <2>3 DEF Lookup, CheckKnows
  <2>5. UNCHANGED << height, executedAt, lastPoll, notifiedSwaps,
                     notifications, mishaps >>
    BY <1>4 DEF Lookup
  <2> QED BY <1>1, <1>3, <2>2, <2>3, <2>4, <2>5, CheckGoesOn
<1>5. CASE Insert(c)
  <2>1. PICK r : r = [checks[c] EXCEPT !.next = "notify"]
    OBVIOUS
  <2>2. checks' = [checks EXCEPT ![c] = r]
    BY <1>3, <1>5, <2>1 DEF Insert
  <2>3. /\ r \in Check /\ SoundCheck(r) /\ r.next = "notify"
        /\ Head(r.events) = Now(c)
    BY <1>1, <2>1 DEF Check, SoundCheck, Now
  <2>4. notifiedSwaps' \subseteq DOMAIN executedAt /\ Now(c) \in notifiedSwaps'
    BY <1>2, <1>3, <1>5 DEF Insert
  <2>5. UNCHANGED << height, executedAt, lastPoll, notifications, mishaps >>
    BY <1>5 DEF Insert
  <2>6. ASSUME "overlap" \notin mishaps
        PROVE  /\ CheckKnows(r)'
               /\ \A i \in 1 .. MaxSwaps :
                     /\ notifications'[i] <= 1
                     /\ notifications'[i] = 1 => i \in notifiedSwaps'
    <3>1. Now(c) \notin notifiedSwaps /\ checks[c].seen = notifiedSwaps
      BY <1>1, <1>5, <2>6 DEF CheckKnows, Insert, At, Now
    <3>2. notifiedSwaps' = notifiedSwaps \cup {Now(c)}
      BY <1>5, <3>1 DEF Insert
    <3>3. notifications[Now(c)] = 0
      <4>1. notifications[Now(c)] \in Nat /\ notifications[Now(c)] <= 1
            /\ notifications[Now(c)] # 1
        BY <1>1, <1>2, <1>3, <2>6, <3>1
      <4> QED BY <4>1
    <3> QED BY <1>1, <2>3, <2>5, <2>6, <3>2, <3>3 DEF CheckKnows
  <2> QED BY <1>3, <2>2, <2>3, <2>4, <2>5, <2>6, CheckGoesOn
<1>6. CASE Notify(c)
  <2>1. PICK r : r = [checks[c] EXCEPT !.next = "refresh"]
    OBVIOUS
  <2>2. checks' = [checks EXCEPT ![c] = r]
    BY <1>3, <1>6, <2>1 DEF Notify
  <2>3. r \in Check /\ SoundCheck(r) /\ r.next = "refresh"
    BY <1>1, <2>1 DEF Check, SoundCheck
  <2>4. notifications' =
           [notifications EXCEPT ![Now(c)] = notifications[Now(c)] + 1]
    BY <1>6 DEF Notify
  <2>5. notifications' \in [1 .. MaxSwaps -> Nat]
    <3>1. notifications[Now(c)] + 1 \in Nat
      BY <1>2, <1>3
    <3> QED BY <1>3, <2>4, <3>1
  <2>6. UNCHANGED << height, executedAt, lastPoll, notifiedSwaps, mishaps >>
    BY <1>6 DEF Notify
  <2>7. ASSUME "overlap" \notin mishaps
        PROVE  /\ CheckKnows(r)'
               /\ \A i \in 1 .. MaxSwaps :
                     /\ notifications'[i] <= 1
                     /\ notifications'[i] = 1 => i \in notifiedSwaps'
    <3>1. Now(c) \in notifiedSwaps /\ notifications[Now(c)] = 0
      BY <1>1, <1>6, <2>7 DEF CheckKnows, Notify, At, Now
    <3>2. \A i \in 1 .. MaxSwaps :
             notifications'[i] = IF i = Now(c) THEN 1 ELSE notifications[i]
      BY <1>2, <1>3, <2>4, <3>1
    <3> QED BY <1>1, <2>3, <2>6, <2>7, <3>1, <3>2 DEF CheckKnows
  <2> QED BY <1>3, <2>2, <2>3, <2>5, <2>6, <2>7, CheckGoesOn
<1>7. CASE /\ Refreshed(c)
           /\ Len(checks[c].events) # 1
  <2>1. PICK r : r = [checks[c] EXCEPT !.events = Tail(checks[c].events),
                                       !.next = "lookup"]
    OBVIOUS
  <2>2. checks' = [checks EXCEPT ![c] = r]
    BY <1>3, <1>7, <2>1 DEF Refreshed
  <2>3. /\ Len(checks[c].events) \in Nat /\ Len(checks[c].events) # 0
        /\ Tail(checks[c].events) \in Seq(1 .. MaxSwaps)
        /\ Len(Tail(checks[c].events)) = Len(checks[c].events) - 1
        /\ \A i \in 1 .. Len(checks[c].events) - 1 :
              Tail(checks[c].events)[i] = checks[c].events[i + 1]
    BY <1>2, HeadTailProperties, EmptySeq, LenProperties
  <2>4. Tail(checks[c].events) # << >>
    <3>1. Len(Tail(checks[c].events)) # 0
      BY <1>7, <2>3
    <3> QED BY <2>3, <3>1, EmptySeq
  <2>5. \A i \in DOMAIN Tail(checks[c].events) :
           Tail(checks[c].events)[i] \in DOMAIN executedAt
    <3>1. /\ DOMAIN Tail(checks[c].events) = 1 .. Len(Tail(checks[c].events))
          /\ DOMAIN checks[c].events = 1 .. Len(checks[c].events)
      BY <1>2, <2>3, LenProperties
    <3>2. \A i \in 1 .. Len(checks[c].events) - 1 :
             i + 1 \in 1 .. Len(checks[c].events)
      BY <2>3
    <3> QED BY <1>1, <2>3, <3>1, <3>2 DEF SoundCheck
  <2>6. r \in Check /\ SoundCheck(r) /\ r.next = "lookup"
    BY <1>1, <1>2, <2>1, <2>3, <2>4, <2>5 DEF Check, SoundCheck
  <2>7. CheckKnows(r)'
    BY <2>6 DEF CheckKnows
  <2>8. UNCHANGED << height, executedAt, lastPoll, notifiedSwaps,
                     notifications, mishaps >>
    BY <1>7 DEF Refreshed
  <2> QED BY <1>1, <1>3, <2>2, <2>6, <2>7, <2>8, CheckGoesOn
<1>8. CASE \/ AlreadyNotified(c) \/ CallFails(c)
           \/ Refreshed(c) /\ Len(checks[c].events) = 1
  <2>1. /\ checks' = RemoveAt(checks, c)
        /\ UNCHANGED << height, executedAt, lastPoll, notifiedSwaps,
                        notifications >>
        /\ mishaps' \in {mishaps, mishaps \cup {"failure"}}
    BY <1>8 DEF AlreadyNotified, CallFails, Refreshed
  <2> QED BY <2>1, CheckEnds
<1> QED BY <1>4, <1>5, <1>6, <1>7, <1>8
-----------------------------------------------------------------------------
(***************************************************************************)
(* The chain, the timer, and the invariant.                                *)
(***************************************************************************)

LEMMA BlockKeepsInv ==
    ASSUME NotifierInv, NEW n \in Nat, NewBlock(n)
    PROVE  NotifierInv'
<1> DEFINE new == [ i \in 1 .. n |-> height + 1 ]
<1>1. /\ executedAt \in Seq(Nat) /\ height \in Nat /\ MaxSwaps \in Nat
      /\ Len(executedAt) \in Nat
      /\ DOMAIN executedAt = 1 .. Len(executedAt)
  BY NotifierAssumption, LenProperties DEF NotifierInv, NotifierTypeOK
<1>2. new \in Seq(Nat) /\ Len(new) = n
  <2>1. new \in [1 .. n -> Nat]
    BY <1>1
  <2>2. new \in Seq(Nat)
    BY <2>1, SeqDef
  <2>3. DOMAIN new = 1 .. n
    OBVIOUS
  <2> HIDE DEF new
  <2> QED BY <2>2, <2>3, LenProperties
<1>3. executedAt' = executedAt \o new /\ Len(executedAt) + n <= MaxSwaps
      /\ height' = height + 1
  BY DEF NewBlock
<1>4. UNCHANGED << lastPoll, notifiedSwaps, notifications, checks, mishaps >>
  BY DEF NewBlock
<1> HIDE DEF new
<1>5. executedAt' \in Seq(Nat) /\ Len(executedAt') = Len(executedAt) + n
  BY <1>1, <1>2, <1>3, ConcatProperties
<1>6. DOMAIN executedAt \subseteq DOMAIN executedAt'
  <2>1. DOMAIN executedAt' = 1 .. Len(executedAt) + n
    BY <1>5, LenProperties
  <2> QED BY <1>1, <2>1
<1>7. NotifierTypeOK'
  BY <1>1, <1>3, <1>4, <1>5, <1>6 DEF NotifierInv, NotifierTypeOK
<1>8. \A c \in DOMAIN checks' : SoundCheck(checks[c])'
  BY <1>4, <1>6 DEF NotifierInv, SoundCheck
<1>9. OneAtATime'
  BY <1>4 DEF NotifierInv, OneAtATime, CheckKnows
<1> QED BY <1>7, <1>8, <1>9 DEF NotifierInv

LEMMA PollKeepsInv ==
    ASSUME NotifierInv, Poll
    PROVE  NotifierInv'
<1> DEFINE Sound == { s \in Check : SoundCheck(s) }
<1>1. checks \in Seq(Sound) /\ Len(checks) \in Nat
  BY ChecksAreSound
<1>2. /\ UNCHANGED << height, executedAt, notifiedSwaps, notifications >>
      /\ lastPoll' = height
      /\ mishaps' = IF checks = << >> THEN mishaps
                    ELSE mishaps \cup {"overlap"}
  BY DEF Poll
<1>3. CASE checks' = checks
  BY <1>2, <1>3 DEF NotifierInv, NotifierTypeOK, SoundCheck, OneAtATime,
     CheckKnows
<1>4. CASE Recent # << >>
  <2>1. PICK r : r = [ events |-> Recent, next |-> "lookup", seen |-> {} ]
    OBVIOUS
  <2>2. checks' = Append(checks, r)
    BY <1>4, <2>1 DEF Poll
  <2>3. r \in Sound /\ r.next = "lookup"
    BY <1>4, <2>1, RecentIsSound DEF NotifierInv, Check, SoundCheck
  <2>4. /\ checks' \in Seq(Sound) /\ Len(checks') = Len(checks) + 1
        /\ checks'[Len(checks) + 1] = r
    <3> HIDE DEF Sound
    <3> QED BY <1>1, <2>2, <2>3, AppendProperties
  <2>5. /\ checks' \in Seq(Check)
        /\ \A k \in DOMAIN checks' : SoundCheck(checks'[k])
    BY <2>4, SoundChecks
  <2>6. NotifierTypeOK'
    BY <1>2, <2>5 DEF NotifierInv, NotifierTypeOK
  <2>7. \A k \in DOMAIN checks' : SoundCheck(checks[k])'
    BY <1>2, <2>5 DEF SoundCheck
  <2>8. OneAtATime'
    <3> SUFFICES ASSUME "overlap" \notin mishaps'
                 PROVE  /\ Len(checks') <= 1
                        /\ \A k \in DOMAIN checks' : CheckKnows(checks[k])'
      BY <1>2 DEF NotifierInv, OneAtATime
    <3>1. Len(checks) = 0
      <4>1. checks = << >>
        BY <1>2
      <4> QED BY <1>1, <4>1, EmptySeq
    <3>2. DOMAIN checks' = 1 .. 1
      BY <2>4, <2>5, <3>1, LenProperties
    <3>3. \A k \in DOMAIN checks' : checks'[k] = r
      BY <2>4, <3>1, <3>2
    <3> QED BY <2>3, <2>4, <3>1, <3>3 DEF CheckKnows
  <2> QED BY <2>6, <2>7, <2>8 DEF NotifierInv
<1> QED BY <1>3, <1>4 DEF Poll

LEMMA PollFailsKeepsInv ==
    ASSUME NotifierInv, PollFails
    PROVE  NotifierInv'
<1>1. /\ UNCHANGED << height, executedAt, notifiedSwaps, notifications, checks >>
      /\ lastPoll' = height
      /\ mishaps' = mishaps \cup {"failure"}
  BY DEF PollFails
<1>2. NotifierTypeOK'
  BY <1>1 DEF NotifierInv, NotifierTypeOK
<1>3. \A c \in DOMAIN checks' : SoundCheck(checks[c])'
  BY <1>1 DEF NotifierInv, SoundCheck
<1>4. OneAtATime'
  BY <1>1 DEF NotifierInv, OneAtATime, CheckKnows
<1> QED BY <1>2, <1>3, <1>4 DEF NotifierInv

\* The inductive invariant of the running checks and of what they marked.
THEOREM NotifierInvariance == Spec => []NotifierInv
<1>1. Init => NotifierInv
  <2> SUFFICES ASSUME Init PROVE NotifierInv
    OBVIOUS
  <2>1. NotifierTypeOK
    BY NotifierAssumption, EmptySeq DEF Init, NotifierTypeOK
  <2>2. /\ \A c \in DOMAIN checks : SoundCheck(checks[c])
        /\ OneAtATime
    BY EmptySeq DEF Init, OneAtATime
  <2> QED BY <2>1, <2>2 DEF NotifierInv
<1>2. NotifierInv /\ [Next]_vars => NotifierInv'
  <2> SUFFICES ASSUME NotifierInv, [Next]_vars
               PROVE  NotifierInv'
    OBVIOUS
  <2>1. ASSUME NEW n \in 0 .. MaxSwaps, NewBlock(n)
        PROVE  NotifierInv'
    BY <2>1, BlockKeepsInv
  <2>2. CASE Poll \/ PollFails
    BY <2>2, PollKeepsInv, PollFailsKeepsInv
  <2>3. CASE UNCHANGED vars
    BY <2>3 DEF vars, NotifierInv, NotifierTypeOK, SoundCheck, OneAtATime,
       CheckKnows
  <2> QED BY <2>1, <2>2, <2>3, CheckStepKeepsInv DEF Next
<1> QED BY <1>1, <1>2, PTL DEF Spec

\* Type correctness, for any window, timer and number of checks.
THEOREM NotifierTypeCorrect == Spec => []NotifierTypeOK
<1>1. NotifierInv => NotifierTypeOK
  BY DEF NotifierInv
<1> QED BY <1>1, NotifierInvariance, PTL

\* Nobody is told of the same swap twice while checks do not overlap, however
\* many checks see it and however many are given up half way
\* (BlockchainViewModel.swift:1001-1004).
THEOREM NotifiedOnce == Spec => []NotifiedAtMostOnce
<1>1. NotifierInv => NotifiedAtMostOnce
  BY DEF NotifierInv, OneAtATime, NotifiedAtMostOnce
<1> QED BY <1>1, NotifierInvariance, PTL
-----------------------------------------------------------------------------
(***************************************************************************)
(* Swaps far enough from the one before are notified.  The timer cannot    *)
(* miss the blocks between the one in which the older swaps have left the  *)
(* window and the one in which this swap leaves it: some check sees it as  *)
(* its first event.  What is marked, there or by another check, is about   *)
(* to be notified by the check that marked it, or was.                     *)
(***************************************************************************)

TimerKeepsUp == lastPoll <= height /\ height <= lastPoll + PollInterval

SwapsInOrder ==
    \A j \in DOMAIN executedAt :
       /\ executedAt[j] <= height
       /\ \A i \in 1 .. j - 1 : executedAt[i] <= executedAt[j]

\* Some check is at swap i, and at one of these steps.
Handled(i, steps) ==
    \E c \in DOMAIN checks : Now(c) = i /\ checks[c].next \in steps

Marked(i) ==
    i \in notifiedSwaps \/ \E c \in DOMAIN checks : i \in checks[c].seen

\* Swap i is notified, or some check at one of these steps is at it.
Served(i, steps) == notifications[i] >= 1 \/ Handled(i, steps)

MarkedAreServed ==
    \A i \in 1 .. MaxSwaps : Marked(i) => Served(i, {"notify"})

\* A check has been asked for that sees swap i and none before it.
SeenFirst(i) == Spaced(i) /\ lastPoll + PollInterval > executedAt[i] + Window

FirstAreServed ==
    \A i \in DOMAIN executedAt :
       SeenFirst(i) => Served(i, {"lookup", "insert", "notify"})

NoticeInv ==
    /\ TimerKeepsUp
    /\ SwapsInOrder
    /\ "failure" \notin mishaps => MarkedAreServed /\ FirstAreServed

\* The other checks are still there when one goes on.
LEMMA OthersWait ==
    ASSUME NEW S, NEW s \in Seq(S), NEW c \in DOMAIN s, NEW r \in S,
           NEW t, t = [s EXCEPT ![c] = r]
    PROVE  /\ c \in DOMAIN t /\ t[c] = r
           /\ \A d \in DOMAIN s : d # c => d \in DOMAIN t /\ t[d] = s[d]
           /\ \A k \in DOMAIN t : k \in DOMAIN s /\ (k # c => t[k] = s[k])
<1>1. s = [k \in DOMAIN s |-> s[k]]
  BY LenProperties
<1> QED BY <1>1

\* The other checks are still there when one is over, at some index.
LEMMA OthersStay ==
    ASSUME NEW S, NEW s \in Seq(S), NEW c \in DOMAIN s,
           NEW t, t = RemoveAt(s, c)
    PROVE  /\ \A d \in DOMAIN s :
                 d # c => \E k \in DOMAIN t : t[k] = s[d]
           /\ \A k \in DOMAIN t : \E d \in DOMAIN s : t[k] = s[d]
<1>1. DOMAIN s = 1 .. Len(s) /\ Len(s) \in Nat /\ c \in 1 .. Len(s)
  BY LenProperties
<1>2. /\ t \in Seq(S) /\ Len(t) = Len(s) - 1
      /\ \A j \in 1 .. Len(s) - 1 : t[j] = IF j < c THEN s[j] ELSE s[j + 1]
  BY <1>1, RemoveAtValue
<1>3. DOMAIN t = 1 .. Len(s) - 1
  BY <1>2, LenProperties
<1>4. ASSUME NEW d \in DOMAIN s, d # c
      PROVE  \E k \in DOMAIN t : t[k] = s[d]
  <2>1. CASE d < c
    <3>1. d \in 1 .. Len(s) - 1
      BY <1>1, <2>1
    <3> QED BY <1>2, <1>3, <2>1, <3>1
  <2>2. CASE d > c
    <3>1. d - 1 \in 1 .. Len(s) - 1 /\ ~ (d - 1 < c) /\ d - 1 + 1 = d
      BY <1>1, <2>2
    <3> QED BY <1>2, <1>3, <3>1
  <2> QED BY <1>1, <1>4, <2>1, <2>2
<1>5. ASSUME NEW k \in DOMAIN t
      PROVE  \E d \in DOMAIN s : t[k] = s[d]
  <2>1. k \in DOMAIN s /\ k + 1 \in DOMAIN s
    BY <1>1, <1>3
  <2> QED BY <1>2, <1>3, <2>1
<1> QED BY <1>4, <1>5

\* Who is served by a check other than c stays served.
LEMMA ServedStays ==
    ASSUME NEW c \in DOMAIN checks, NEW i \in 1 .. MaxSwaps, NEW steps,
           Served(i, steps),
           notifications[i] \in Nat, notifications'[i] \in Nat,
           notifications'[i] >= notifications[i],
           \A d \in DOMAIN checks :
              d # c => \E k \in DOMAIN checks' : checks'[k] = checks[d],
           Now(c) = i /\ checks[c].next \in steps => Served(i, steps)'
    PROVE  Served(i, steps)'
<1>1. CASE notifications[i] >= 1
  <2>1. notifications'[i] >= 1
    BY <1>1
  <2> QED BY <2>1 DEF Served
<1>2. CASE Handled(i, steps)
  <2>1. PICK d \in DOMAIN checks : Now(d) = i /\ checks[d].next \in steps
    BY <1>2 DEF Handled
  <2>2. CASE d = c
    BY <2>1, <2>2
  <2>3. CASE d # c
    <3>1. PICK k \in DOMAIN checks' : checks'[k] = checks[d]
      BY <2>3
    <3> QED BY <2>1, <3>1 DEF Served, Handled, Now
  <2> QED BY <2>2, <2>3
<1> QED BY <1>1, <1>2 DEF Served

\* What a step of check c has to do for the others to be served.
LEMMA StepServes ==
    ASSUME NotifierTypeOK, NotifierTypeOK', NoticeInv,
           NEW c \in DOMAIN checks,
           UNCHANGED << height, executedAt, lastPoll >>, mishaps \subseteq mishaps',
           \A d \in DOMAIN checks :
              d # c => \E k \in DOMAIN checks' : checks'[k] = checks[d],
           \A i \in 1 .. MaxSwaps : notifications'[i] >= notifications[i],
           \A i \in 1 .. MaxSwaps : "failure" \notin mishaps' =>
              /\ Marked(i)' => Marked(i) \/ Served(i, {"notify"})'
              /\ At(c, "notify") /\ Now(c) = i => Served(i, {"notify"})'
              /\ (At(c, "lookup") \/ At(c, "insert")) /\ Now(c) = i =>
                    Served(i, {"lookup", "insert", "notify"})'
    PROVE  NoticeInv'
<1>1. TimerKeepsUp' /\ SwapsInOrder'
  BY DEF NoticeInv, TimerKeepsUp, SwapsInOrder
<1>2. \A i \in 1 .. MaxSwaps : notifications[i] \in Nat /\ notifications'[i] \in Nat
  BY DEF NotifierTypeOK
<1>3. DOMAIN executedAt \subseteq 1 .. MaxSwaps
  <2>1. executedAt \in Seq(Nat) /\ Len(executedAt) <= MaxSwaps
        /\ MaxSwaps \in Nat
    BY NotifierAssumption DEF NotifierTypeOK
  <2>2. Len(executedAt) \in Nat /\ DOMAIN executedAt = 1 .. Len(executedAt)
    BY <2>1, LenProperties
  <2> QED BY <2>1, <2>2
<1>4. ASSUME "failure" \notin mishaps'
      PROVE  MarkedAreServed' /\ FirstAreServed'
  <2>1. MarkedAreServed /\ FirstAreServed
    BY <1>4 DEF NoticeInv
  <2>2. ASSUME NEW i \in 1 .. MaxSwaps, Marked(i)'
        PROVE  Served(i, {"notify"})'
    <3>1. CASE Served(i, {"notify"})'
      BY <3>1
    <3>2. CASE Marked(i)
      <4>1. Served(i, {"notify"})
        BY <2>1, <3>2 DEF MarkedAreServed
      <4>2. Now(c) = i /\ checks[c].next \in {"notify"} => Served(i, {"notify"})'
        BY <1>4 DEF At
      <4> QED BY <1>2, <4>1, <4>2, ServedStays
    <3> QED BY <1>4, <2>2, <3>1, <3>2
  <2>3. ASSUME NEW i \in DOMAIN executedAt', SeenFirst(i)'
        PROVE  Served(i, {"lookup", "insert", "notify"})'
    <3>1. i \in DOMAIN executedAt /\ i \in 1 .. MaxSwaps /\ SeenFirst(i)
      BY <1>3, <2>3 DEF SeenFirst, Spaced
    <3>2. Served(i, {"lookup", "insert", "notify"})
      BY <2>1, <3>1 DEF FirstAreServed
    <3>3. Now(c) = i /\ checks[c].next \in {"lookup", "insert", "notify"} =>
             Served(i, {"lookup", "insert", "notify"})'
      <4>1. Served(i, {"notify"})' => Served(i, {"lookup", "insert", "notify"})'
        BY DEF Served, Handled
      <4> QED BY <1>4, <3>1, <4>1 DEF At
    <3> QED BY <1>2, <3>1, <3>2, <3>3, ServedStays
  <2> QED BY <2>2, <2>3 DEF MarkedAreServed, FirstAreServed
<1> QED BY <1>1, <1>4 DEF NoticeInv

\* A check that goes on as r.
LEMMA GoingOnServes ==
    ASSUME NotifierInv, NotifierTypeOK', NoticeInv,
           NEW c \in DOMAIN checks, NEW r \in Check,
           checks' = [checks EXCEPT ![c] = r],
           UNCHANGED << height, executedAt, lastPoll, mishaps >>,
           \A i \in 1 .. MaxSwaps : notifications'[i] >= notifications[i],
           r.seen \subseteq checks[c].seen \cup notifiedSwaps,
           notifiedSwaps' \subseteq
              notifiedSwaps \cup checks[c].seen \cup {Head(r.events)},
           notifiedSwaps' \subseteq notifiedSwaps \cup checks[c].seen
              \/ r.next = "notify",
           At(c, "notify") => notifications'[Now(c)] >= 1,
           At(c, "lookup") \/ At(c, "insert") =>
              /\ Head(r.events) = Now(c)
              /\ r.next \in {"insert", "notify"}
    PROVE  NoticeInv'
<1>1. checks \in Seq(Check) /\ NotifierTypeOK
  BY DEF NotifierInv, NotifierTypeOK
<1>2. /\ c \in DOMAIN checks' /\ checks'[c] = r
      /\ \A d \in DOMAIN checks :
            d # c => d \in DOMAIN checks' /\ checks'[d] = checks[d]
      /\ \A k \in DOMAIN checks' :
            k \in DOMAIN checks /\ (k # c => checks'[k] = checks[k])
  BY <1>1, OthersWait
<1>3. ASSUME NEW i \in 1 .. MaxSwaps, Marked(i)'
      PROVE  Marked(i) \/ Served(i, {"notify"})'
  <2>1. CASE \E k \in DOMAIN checks' : i \in checks'[k].seen
    <3>1. PICK k \in DOMAIN checks' : i \in checks'[k].seen
      BY <2>1
    <3> QED BY <1>2, <3>1 DEF Marked
  <2>2. CASE i \in notifiedSwaps'
    <3>1. CASE i \in notifiedSwaps \cup checks[c].seen
      BY <3>1 DEF Marked
    <3>2. CASE i = Head(r.events) /\ r.next = "notify"
      BY <1>2, <3>2 DEF Served, Handled, Now
    <3> QED BY <2>2, <3>1, <3>2
  <2> QED BY <1>3, <2>1, <2>2 DEF Marked
<1>4. ASSUME NEW i \in 1 .. MaxSwaps, At(c, "notify"), Now(c) = i
      PROVE  Served(i, {"notify"})'
  BY <1>4 DEF Served
<1>5. ASSUME NEW i \in 1 .. MaxSwaps, At(c, "lookup") \/ At(c, "insert"),
             Now(c) = i
      PROVE  Served(i, {"lookup", "insert", "notify"})'
  <2>1. Head(checks'[c].events) = i /\ checks'[c].next \in {"insert", "notify"}
    BY <1>2, <1>5
  <2> QED BY <1>2, <2>1 DEF Served, Handled, Now
<1>6. \A d \in DOMAIN checks :
         d # c => \E k \in DOMAIN checks' : checks'[k] = checks[d]
  BY <1>2
<1> QED BY <1>1, <1>3, <1>4, <1>5, <1>6, StepServes

\* A check that is over.
LEMMA EndingServes ==
    ASSUME NotifierInv, NotifierTypeOK', NoticeInv,
           NEW c \in DOMAIN checks,
           checks' = RemoveAt(checks, c),
           UNCHANGED << height, executedAt, lastPoll, notifiedSwaps,
                        notifications >>,
           mishaps \subseteq mishaps',
           \/ "failure" \in mishaps'
           \/ At(c, "lookup") /\ Now(c) \in notifiedSwaps
           \/ At(c, "refresh")
    PROVE  NoticeInv'
<1>1. checks \in Seq(Check) /\ NotifierTypeOK
  BY DEF NotifierInv, NotifierTypeOK
<1>2. /\ \A d \in DOMAIN checks :
            d # c => \E k \in DOMAIN checks' : checks'[k] = checks[d]
      /\ \A k \in DOMAIN checks' : \E d \in DOMAIN checks :
            checks'[k] = checks[d]
  BY <1>1, OthersStay
<1>3. \A i \in 1 .. MaxSwaps : Marked(i)' => Marked(i)
  BY <1>2 DEF Marked
<1>4. ASSUME NEW i \in 1 .. MaxSwaps, "failure" \notin mishaps',
             At(c, "lookup") \/ At(c, "insert"), Now(c) = i
      PROVE  Served(i, {"lookup", "insert", "notify"})'
  <2>1. At(c, "lookup") /\ i \in notifiedSwaps
    BY <1>4 DEF At
  <2>2. Served(i, {"notify"})
    BY <1>4, <2>1 DEF NoticeInv, MarkedAreServed, Marked
  <2>3. CASE notifications[i] >= 1
    BY <2>3 DEF Served
  <2>4. CASE Handled(i, {"notify"})
    <3>1. PICK d \in DOMAIN checks : Now(d) = i /\ checks[d].next = "notify"
      BY <2>4 DEF Handled
    <3>2. d # c
      BY <2>1, <3>1 DEF At
    <3>3. PICK k \in DOMAIN checks' : checks'[k] = checks[d]
      BY <1>2, <3>2
    <3> QED BY <3>1, <3>3 DEF Served, Handled, Now
  <2> QED BY <2>2, <2>3, <2>4 DEF Served
<1>5. ASSUME NEW i \in 1 .. MaxSwaps, "failure" \notin mishaps'
      PROVE  ~ At(c, "notify")
  BY <1>5 DEF At
<1>6. \A i \in 1 .. MaxSwaps : notifications'[i] >= notifications[i]
  BY <1>1 DEF NotifierTypeOK
<1> QED BY <1>1, <1>2, <1>3, <1>4, <1>5, <1>6, StepServes

LEMMA CheckStepKeepsNotice ==
    ASSUME NotifierInv, NotifierTypeOK', NoticeInv, NEW c \in DOMAIN checks,
           \/ Lookup(c) \/ AlreadyNotified(c) \/ Insert(c) \/ Notify(c)
           \/ Refreshed(c) \/ CallFails(c)
    PROVE  NoticeInv'
<1>1. /\ checks \in Seq(Check) /\ c \in 1 .. Len(checks)
      /\ checks = [k \in DOMAIN checks |-> checks[k]]
      /\ notifications \in [1 .. MaxSwaps -> Nat]
      /\ notifiedSwaps \subseteq 1 .. MaxSwaps
  <2>1. /\ checks \in Seq(Check) /\ notifications \in [1 .. MaxSwaps -> Nat]
        /\ notifiedSwaps \subseteq DOMAIN executedAt
        /\ executedAt \in Seq(Nat) /\ Len(executedAt) <= MaxSwaps
        /\ MaxSwaps \in Nat
    BY NotifierAssumption DEF NotifierInv, NotifierTypeOK
  <2>2. Len(executedAt) \in Nat /\ DOMAIN executedAt = 1 .. Len(executedAt)
    BY <2>1, LenProperties
  <2>3. \A i \in 1 .. Len(executedAt) : i \in 1 .. MaxSwaps
    BY <2>1, <2>2
  <2> QED BY <2>1, <2>2, <2>3, LenProperties
<1>2. checks[c] \in Check
  BY <1>1, ElementOfSeq
<1>3. /\ checks[c].events \in Seq(1 .. MaxSwaps) /\ checks[c].events # << >>
      /\ Now(c) \in 1 .. MaxSwaps
  <2>1. checks[c].events \in Seq(1 .. MaxSwaps) /\ checks[c].events # << >>
    BY <1>2 DEF Check
  <2> QED BY <2>1, HeadTailProperties DEF Now
<1>4. \A i \in 1 .. MaxSwaps : notifications[i] >= notifications[i]
  BY <1>1
<1>5. CASE Lookup(c)
  <2>1. PICK r : r = [checks[c] EXCEPT !.next = "insert",
                                       !.seen = notifiedSwaps]
    OBVIOUS
  <2>2. checks' = [checks EXCEPT ![c] = r]
    BY <1>1, <1>5, <2>1 DEF Lookup
  <2>3. /\ r \in Check /\ r.next = "insert" /\ r.seen = notifiedSwaps
        /\ Head(r.events) = Now(c) /\ ~ At(c, "notify")
    BY <1>1, <1>2, <1>5, <2>1 DEF Check, Now, Lookup, At
  <2>4. UNCHANGED << height, executedAt, lastPoll, notifiedSwaps,
                     notifications, mishaps >>
    BY <1>5 DEF Lookup
  <2> QED BY <1>4, <2>2, <2>3, <2>4, GoingOnServes
<1>6. CASE Insert(c)
  <2>1. PICK r : r = [checks[c] EXCEPT !.next = "notify"]
    OBVIOUS
  <2>2. checks' = [checks EXCEPT ![c] = r]
    BY <1>1, <1>6, <2>1 DEF Insert
  <2>3. /\ r \in Check /\ r.next = "notify" /\ r.seen = checks[c].seen
        /\ Head(r.events) = Now(c) /\ ~ At(c, "notify")
    BY <1>2, <1>6, <2>1 DEF Check, Now, Insert, At
  <2>4. /\ UNCHANGED << height, executedAt, lastPoll, notifications, mishaps >>
        /\ notifiedSwaps' \subseteq
              notifiedSwaps \cup checks[c].seen \cup {Now(c)}
    BY <1>6 DEF Insert
  <2> QED BY <1>4, <2>2, <2>3, <2>4, GoingOnServes
<1>7. CASE Notify(c)
  <2>1. PICK r : r = [checks[c] EXCEPT !.next = "refresh"]
    OBVIOUS
  <2>2. checks' = [checks EXCEPT ![c] = r]
    BY <1>1, <1>7, <2>1 DEF Notify
  <2>3. /\ r \in Check /\ r.seen = checks[c].seen
        /\ ~ At(c, "lookup") /\ ~ At(c, "insert")
    BY <1>2, <1>7, <2>1 DEF Check, Notify, At
  <2>4. notifications' =
           [notifications EXCEPT ![Now(c)] = notifications[Now(c)] + 1]
    BY <1>7 DEF Notify
  <2>5. notifications'[Now(c)] = notifications[Now(c)] + 1
        /\ \A i \in 1 .. MaxSwaps :
              i # Now(c) => notifications'[i] = notifications[i]
    BY <1>1, <1>3, <2>4
  <2>6. \A i \in 1 .. MaxSwaps : notifications'[i] >= notifications[i]
    <3>1. \A i \in 1 .. MaxSwaps : notifications[i] \in Nat
      BY <1>1
    <3>2. \A i \in 1 .. MaxSwaps : notifications'[i] = notifications[i]
                                   \/ notifications'[i] = notifications[i] + 1
      BY <2>5
    <3> QED BY <3>1, <3>2
  <2>7. notifications'[Now(c)] >= 1
    <3>1. notifications[Now(c)] \in Nat
      BY <1>1, <1>3
    <3> QED BY <2>5, <3>1
  <2>8. UNCHANGED << height, executedAt, lastPoll, notifiedSwaps, mishaps >>
    BY <1>7 DEF Notify
  <2> QED BY <2>2, <2>3, <2>6, <2>7, <2>8, GoingOnServes
<1>8. CASE Refreshed(c) /\ Len(checks[c].events) # 1
  <2>1. PICK r : r = [checks[c] EXCEPT !.events = Tail(checks[c].events),
                                       !.next = "lookup"]
    OBVIOUS
  <2>2. checks' = [checks EXCEPT ![c] = r]
    BY <1>1, <1>8, <2>1 DEF Refreshed
  <2>3. Tail(checks[c].events) \in Seq(1 .. MaxSwaps) \ {<< >>}
    <3>1. /\ Tail(checks[c].events) \in Seq(1 .. MaxSwaps)
          /\ Len(Tail(checks[c].events)) = Len(checks[c].events) - 1
          /\ Len(checks[c].events) \in Nat
      BY <1>3, HeadTailProperties, LenProperties
    <3>2. Len(Tail(checks[c].events)) # 0
      BY <1>8, <3>1
    <3> QED BY <3>1, <3>2, EmptySeq
  <2>4. /\ r \in Check /\ r.seen = checks[c].seen
        /\ ~ At(c, "lookup") /\ ~ At(c, "insert") /\ ~ At(c, "notify")
    BY <1>2, <1>8, <2>1, <2>3 DEF Check, Refreshed, At
  <2>5. UNCHANGED << height, executedAt, lastPoll, notifiedSwaps,
                     notifications, mishaps >>
    BY <1>8 DEF Refreshed
  <2> QED BY <1>4, <2>2, <2>4, <2>5, GoingOnServes
<1>9. CASE \/ AlreadyNotified(c) \/ CallFails(c)
           \/ Refreshed(c) /\ Len(checks[c].events) = 1
  <2>1. /\ checks' = RemoveAt(checks, c)
        /\ UNCHANGED << height, executedAt, lastPoll, notifiedSwaps,
                        notifications >>
        /\ mishaps \subseteq mishaps'
        /\ \/ "failure" \in mishaps'
           \/ At(c, "lookup") /\ Now(c) \in notifiedSwaps
           \/ At(c, "refresh")
    BY <1>9 DEF AlreadyNotified, CallFails, Refreshed
  <2> QED BY <2>1, EndingServes
<1> QED BY <1>5, <1>6, <1>7, <1>8, <1>9

LEMMA BlockKeepsNotice ==
    ASSUME NotifierTypeOK, NoticeInv, NEW n \in Nat, NewBlock(n)
    PROVE  NoticeInv'
<1> DEFINE new == [ i \in 1 .. n |-> height + 1 ]
           m == Len(executedAt)
<1>1. /\ executedAt \in Seq(Nat) /\ height \in Nat /\ lastPoll \in Nat
      /\ Window \in Nat /\ PollInterval \in Nat /\ PollInterval <= Window
      /\ m \in Nat /\ DOMAIN executedAt = 1 .. m
      /\ \A j \in 1 .. m : executedAt[j] \in Nat
  BY NotifierAssumption, LenProperties DEF NotifierTypeOK
<1>2. /\ height < lastPoll + PollInterval /\ height' = height + 1
      /\ UNCHANGED << lastPoll, notifiedSwaps, notifications, checks, mishaps >>
  BY <1>1 DEF NewBlock
<1>3. /\ new \in Seq(Nat) /\ Len(new) = n
      /\ \A i \in 1 .. n : new[i] = height + 1
  <2>1. new \in [1 .. n -> Nat] /\ DOMAIN new = 1 .. n
    BY <1>1
  <2>2. new \in Seq(Nat)
    BY <2>1, SeqDef
  <2>3. \A i \in 1 .. n : new[i] = height + 1
    OBVIOUS
  <2> HIDE DEF new
  <2> QED BY <2>1, <2>2, <2>3, LenProperties
<1>4. executedAt' = executedAt \o new
  BY DEF NewBlock
<1> HIDE DEF new
<1>5. /\ DOMAIN executedAt' = 1 .. m + n
      /\ \A j \in 1 .. m : executedAt'[j] = executedAt[j]
      /\ \A j \in 1 .. m + n : ~ (j \in 1 .. m) => executedAt'[j] = height + 1
  <2>1. /\ executedAt \o new \in Seq(Nat) /\ Len(executedAt \o new) = m + n
        /\ \A j \in 1 .. m + n :
              (executedAt \o new)[j] =
                 IF j <= m THEN executedAt[j] ELSE new[j - m]
    BY <1>1, <1>3, ConcatProperties
  <2>2. DOMAIN executedAt' = 1 .. m + n
    BY <1>4, <2>1, LenProperties
  <2>3. ASSUME NEW j \in 1 .. m + n, ~ (j \in 1 .. m)
        PROVE  executedAt'[j] = height + 1
    <3>1. j - m \in 1 .. n /\ ~ (j <= m)
      BY <1>1, <2>3
    <3> QED BY <1>3, <1>4, <2>1, <3>1
  <2>4. ASSUME NEW j \in 1 .. m
        PROVE  executedAt'[j] = executedAt[j]
    <3>1. j \in 1 .. m + n /\ j <= m
      BY <1>1
    <3> QED BY <1>4, <2>1, <3>1
  <2> QED BY <2>2, <2>3, <2>4
<1> HIDE DEF m
<1>6. TimerKeepsUp'
  BY <1>1, <1>2 DEF NoticeInv, TimerKeepsUp
<1>7. SwapsInOrder'
  <2> SUFFICES ASSUME NEW j \in 1 .. m + n
               PROVE  /\ executedAt'[j] <= height'
                      /\ \A i \in 1 .. j - 1 : executedAt'[i] <= executedAt'[j]
    BY <1>5 DEF SwapsInOrder
  <2>1. \A k \in 1 .. m : executedAt'[k] \in Nat /\ executedAt'[k] <= height
    BY <1>1, <1>5 DEF NoticeInv, SwapsInOrder
  <2>2. CASE j \in 1 .. m
    <3>1. \A i \in 1 .. j - 1 : i \in 1 .. m
      BY <1>1, <2>2
    <3>2. \A i \in 1 .. j - 1 : executedAt[i] <= executedAt[j]
      BY <1>1, <2>2 DEF NoticeInv, SwapsInOrder
    <3>3. executedAt'[j] <= height'
      BY <1>1, <1>2, <2>1, <2>2
    <3> QED BY <1>5, <2>2, <3>1, <3>2, <3>3
  <2>3. CASE ~ (j \in 1 .. m)
    <3>1. executedAt'[j] = height + 1
      BY <1>5, <2>3
    <3>2. ASSUME NEW i \in 1 .. j - 1
          PROVE  executedAt'[i] <= executedAt'[j]
      <4>1. i \in 1 .. m + n
        BY <1>1
      <4>2. CASE i \in 1 .. m
        BY <1>1, <2>1, <3>1, <4>2
      <4>3. CASE ~ (i \in 1 .. m)
        BY <1>1, <1>5, <3>1, <4>1, <4>3
      <4> QED BY <4>2, <4>3
    <3> QED BY <1>1, <1>2, <3>1, <3>2
  <2> QED BY <2>2, <2>3
<1>8. ASSUME "failure" \notin mishaps'
      PROVE  MarkedAreServed' /\ FirstAreServed'
  <2>1. MarkedAreServed /\ FirstAreServed
    BY <1>2, <1>8 DEF NoticeInv
  <2>2. MarkedAreServed'
    BY <1>2, <2>1 DEF MarkedAreServed, Marked, Served, Handled, Now
  <2>3. ASSUME NEW i \in 1 .. m + n, SeenFirst(i)'
        PROVE  Served(i, {"lookup", "insert", "notify"})'
    <3>1. i \in 1 .. m
      <4> SUFFICES ASSUME ~ (i \in 1 .. m) PROVE FALSE
        OBVIOUS
      <4>1. lastPoll + PollInterval > height + 1 + Window
        BY <1>2, <1>5, <2>3 DEF SeenFirst
      <4>2. lastPoll <= height
        BY DEF NoticeInv, TimerKeepsUp
      <4> QED BY <1>1, <4>1, <4>2
    <3>2. SeenFirst(i)
      <4>1. executedAt'[i] = executedAt[i]
        BY <1>5, <3>1
      <4>2. \A j \in 1 .. i - 1 : executedAt'[j] = executedAt[j]
        <5>1. \A j \in 1 .. i - 1 : j \in 1 .. m
          BY <1>1, <3>1
        <5> QED BY <1>5, <5>1
      <4> QED BY <1>2, <2>3, <4>1, <4>2 DEF SeenFirst, Spaced
    <3>3. Served(i, {"lookup", "insert", "notify"})
      BY <1>1, <2>1, <3>1, <3>2 DEF FirstAreServed
    <3> QED BY <1>2, <3>3 DEF Served, Handled, Now
  <2> QED BY <1>5, <2>2, <2>3 DEF FirstAreServed
<1> QED BY <1>6, <1>7, <1>8 DEF NoticeInv

\* If the older swaps have left the window and swap i has not, i comes first.
LEMMA FirstInWindow ==
    ASSUME NotifierTypeOK, SwapsInOrder, NEW i \in DOMAIN executedAt,
           executedAt[i] >= height - Window,
           \A j \in 1 .. i - 1 : executedAt[j] < height - Window
    PROVE  Recent # << >> /\ Head(Recent) = i
<1> DEFINE past == { j \in DOMAIN executedAt : executedAt[j] < height - Window }
           m == Len(executedAt)
<1>1. /\ executedAt \in Seq(Nat) /\ m \in Nat /\ DOMAIN executedAt = 1 .. m
      /\ height \in Nat /\ Window \in Nat
      /\ \A j \in 1 .. m : executedAt[j] \in Nat
  BY NotifierAssumption, LenProperties DEF NotifierTypeOK
<1>2. past = 1 .. i - 1
  <2>1. \A j \in 1 .. i - 1 : j \in past
    BY <1>1
  <2>2. ASSUME NEW j \in past, ~ (j \in 1 .. i - 1)
        PROVE  FALSE
    <3>1. j \in 1 .. m /\ (j = i \/ i \in 1 .. j - 1)
      BY <1>1, <2>2
    <3>2. executedAt[i] <= executedAt[j]
      BY <1>1, <3>1 DEF SwapsInOrder
    <3> QED BY <1>1, <2>2, <3>1, <3>2
  <2> QED BY <2>1, <2>2
<1>3. Cardinality(past) = i - 1
  <2>1. \A n \in Nat : Cardinality(1 .. n) = IF 1 > n THEN 0 ELSE n - 1 + 1
    BY FS_Interval
  <2>2. i - 1 \in Nat
    BY <1>1
  <2>3. Cardinality(1 .. i - 1) = i - 1
    BY <2>1, <2>2
  <2> QED BY <1>2, <2>3
<1>4. Recent = [ k \in 1 .. m - (i - 1) |-> i - 1 + k ]
  BY <1>3 DEF Recent
<1>5. 1 \in 1 .. m - (i - 1) /\ i - 1 + 1 = i
  BY <1>1
<1>6. 1 \in DOMAIN Recent /\ Recent[1] = i
  BY <1>4, <1>5
<1> QED BY <1>6

LEMMA PollKeepsNotice ==
    ASSUME NotifierTypeOK, NoticeInv, Poll
    PROVE  NoticeInv'
<1>1. /\ checks \in Seq(Check) /\ Len(checks) \in Nat
      /\ DOMAIN checks = 1 .. Len(checks)
      /\ height \in Nat /\ lastPoll \in Nat /\ executedAt \in Seq(Nat)
      /\ Window \in Nat /\ PollInterval \in Nat
      /\ \A j \in DOMAIN executedAt : executedAt[j] \in Nat
      /\ DOMAIN executedAt = 1 .. Len(executedAt) /\ Len(executedAt) \in Nat
  BY NotifierAssumption, LenProperties DEF NotifierTypeOK
<1>2. /\ UNCHANGED << height, executedAt, notifiedSwaps, notifications >>
      /\ lastPoll' = height
      /\ "failure" \notin mishaps' => "failure" \notin mishaps
  BY DEF Poll
<1>3. TimerKeepsUp'
  BY <1>1, <1>2 DEF TimerKeepsUp
<1>4. SwapsInOrder'
  BY <1>2 DEF NoticeInv, SwapsInOrder
<1> DEFINE new == [ events |-> Recent, next |-> "lookup", seen |-> {} ]
<1>5. /\ \A c \in DOMAIN checks : c \in DOMAIN checks' /\ checks'[c] = checks[c]
      /\ \A k \in DOMAIN checks' : k \in DOMAIN checks \/ checks'[k] = new
      /\ Recent # << >> => \E k \in DOMAIN checks' : checks'[k] = new
  <2>1. CASE Recent = << >>
    BY <2>1 DEF Poll
  <2>2. CASE Recent # << >>
    <3>1. checks' = Append(checks, new)
      BY <2>2 DEF Poll
    <3>2. new \in Check
      BY <2>2, RecentIsSound DEF Check
    <3> HIDE DEF new
    <3>3. /\ checks' \in Seq(Check) /\ Len(checks') = Len(checks) + 1
          /\ \A k \in 1 .. Len(checks) : checks'[k] = checks[k]
          /\ checks'[Len(checks) + 1] = new
      BY <1>1, <3>1, <3>2, AppendProperties
    <3>4. DOMAIN checks' = 1 .. Len(checks) + 1
      BY <3>3, LenProperties
    <3>5. /\ \A k \in 1 .. Len(checks) : k \in 1 .. Len(checks) + 1
          /\ Len(checks) + 1 \in 1 .. Len(checks) + 1
          /\ \A k \in 1 .. Len(checks) + 1 :
                k \in 1 .. Len(checks) \/ k = Len(checks) + 1
      BY <1>1
    <3> QED BY <1>1, <3>3, <3>4, <3>5
  <2> QED BY <2>1, <2>2
<1>6. \A i, steps : Served(i, steps) => Served(i, steps)'
  BY <1>2, <1>5 DEF Served, Handled, Now
<1>7. ASSUME "failure" \notin mishaps'
      PROVE  MarkedAreServed' /\ FirstAreServed'
  <2>1. MarkedAreServed /\ FirstAreServed
    BY <1>2, <1>7 DEF NoticeInv
  <2>2. ASSUME NEW i \in 1 .. MaxSwaps, Marked(i)'
        PROVE  Served(i, {"notify"})'
    <3>1. Marked(i)
      <4>1. CASE i \in notifiedSwaps'
        BY <1>2, <4>1 DEF Marked
      <4>2. CASE \E k \in DOMAIN checks' : i \in checks'[k].seen
        <5>1. PICK k \in DOMAIN checks' : i \in checks'[k].seen
          BY <4>2
        <5>2. k \in DOMAIN checks
          BY <1>5, <5>1
        <5> QED BY <1>5, <5>1, <5>2 DEF Marked
      <4> QED BY <2>2, <4>1, <4>2 DEF Marked
    <3>2. Served(i, {"notify"})
      BY <2>1, <3>1 DEF MarkedAreServed
    <3> QED BY <1>6, <3>2
  <2>3. ASSUME NEW i \in DOMAIN executedAt, SeenFirst(i)'
        PROVE  Served(i, {"lookup", "insert", "notify"})'
    <3>1. Spaced(i) /\ height + PollInterval > executedAt[i] + Window
      BY <1>2, <2>3 DEF SeenFirst, Spaced
    <3>2. CASE SeenFirst(i)
      <4>1. Served(i, {"lookup", "insert", "notify"})
        BY <2>1, <3>2 DEF FirstAreServed
      <4> QED BY <1>6, <4>1
    <3>3. CASE ~ SeenFirst(i)
      <4>1. lastPoll + PollInterval <= executedAt[i] + Window
        BY <1>1, <3>1, <3>3 DEF SeenFirst
      <4>2. executedAt[i] >= height - Window
        BY <1>1, <4>1 DEF NoticeInv, TimerKeepsUp
      <4>3. \A j \in 1 .. i - 1 : executedAt[j] < height - Window
        <5>1. \A j \in 1 .. i - 1 : j \in DOMAIN executedAt
          BY <1>1
        <5>2. \A j \in 1 .. i - 1 :
                 executedAt[j] \in Nat
                 /\ executedAt[j] + PollInterval <= executedAt[i]
          BY <1>1, <3>1, <5>1 DEF Spaced
        <5> QED BY <1>1, <3>1, <5>2
      <4>4. Recent # << >> /\ Head(Recent) = i
        BY <4>2, <4>3, FirstInWindow DEF NoticeInv
      <4>5. PICK k \in DOMAIN checks' : checks'[k] = new
        BY <1>5, <4>4
      <4>6. Head(checks'[k].events) = i /\ checks'[k].next = "lookup"
        BY <4>4, <4>5
      <4> QED BY <4>6 DEF Served, Handled, Now
    <3> QED BY <3>2, <3>3
  <2> QED BY <1>2, <2>2, <2>3 DEF MarkedAreServed, FirstAreServed
<1> QED BY <1>3, <1>4, <1>7 DEF NoticeInv

\* A fetch that fails is a failure, after which nothing is claimed.
LEMMA PollFailsKeepsNotice ==
    ASSUME NotifierTypeOK, NoticeInv, PollFails
    PROVE  NoticeInv'
<1>1. height \in Nat /\ PollInterval \in Nat
  BY NotifierAssumption DEF NotifierTypeOK
<1>2. UNCHANGED << height, executedAt >> /\ lastPoll' = height
      /\ "failure" \in mishaps'
  BY DEF PollFails
<1>3. TimerKeepsUp'
  BY <1>1, <1>2 DEF TimerKeepsUp
<1>4. SwapsInOrder'
  BY <1>2 DEF NoticeInv, SwapsInOrder
<1> QED BY <1>2, <1>3, <1>4 DEF NoticeInv

\* The inductive invariant of who is about to be notified.
THEOREM NoticeInvariance == Spec => []NoticeInv
<1>1. Init => NoticeInv
  <2> SUFFICES ASSUME Init PROVE NoticeInv
    OBVIOUS
  <2>1. /\ executedAt = << >> /\ checks = << >> /\ notifiedSwaps = {}
        /\ height = Window /\ lastPoll = Window
        /\ Window \in Nat /\ PollInterval \in Nat
    BY NotifierAssumption DEF Init
  <2>2. DOMAIN executedAt = {} /\ DOMAIN checks = {}
    BY <2>1, EmptySeq
  <2> QED BY <2>1, <2>2 DEF NoticeInv, TimerKeepsUp, SwapsInOrder,
         MarkedAreServed, Marked, FirstAreServed
<1>2. NotifierInv /\ NotifierTypeOK' /\ NoticeInv /\ [Next]_vars => NoticeInv'
  <2> SUFFICES ASSUME NotifierInv, NotifierTypeOK', NoticeInv, [Next]_vars
               PROVE  NoticeInv'
    OBVIOUS
  <2>1. NotifierTypeOK
    BY DEF NotifierInv
  <2>2. ASSUME NEW n \in 0 .. MaxSwaps, NewBlock(n)
        PROVE  NoticeInv'
    BY <2>1, <2>2, BlockKeepsNotice
  <2>3. CASE Poll \/ PollFails
    BY <2>1, <2>3, PollKeepsNotice, PollFailsKeepsNotice
  <2>4. CASE UNCHANGED vars
    BY <2>4 DEF vars, NoticeInv, TimerKeepsUp, SwapsInOrder, MarkedAreServed,
       Marked, Served, Handled, Now, FirstAreServed, SeenFirst, Spaced
  <2> QED BY <2>2, <2>3, <2>4, CheckStepKeepsNotice DEF Next
<1>3. NotifierInv => NotifierTypeOK
  BY DEF NotifierInv
<1> QED BY <1>1, <1>2, <1>3, NotifierInvariance, PTL DEF Spec

\* A swap that comes a timer period after the user's previous one, or later,
\* is notified once it is out of sight, unless a call failed: for any window
\* not shorter than the period, any number of checks at the same time, and
\* whatever insertions they lose (BlockchainViewModel.swift:986-1004).
THEOREM SpacedNotified == Spec => []SpacedSwapsAreNotified
<1>1. NotifierInv /\ NoticeInv => SpacedSwapsAreNotified
  <2> SUFFICES ASSUME NotifierInv, NoticeInv, "failure" \notin mishaps,
                      NEW i \in DOMAIN executedAt, OutOfSight(i), Spaced(i)
               PROVE  notifications[i] >= 1
    BY DEF SpacedSwapsAreNotified
  <2>1. /\ lastPoll \in Nat /\ Window \in Nat /\ PollInterval \in Nat \ {0}
        /\ executedAt[i] \in Nat
    BY NotifierAssumption, LenProperties DEF NotifierInv, NotifierTypeOK
  <2>2. lastPoll + PollInterval > executedAt[i] + Window
    BY <2>1 DEF OutOfSight
  <2>3. Served(i, {"lookup", "insert", "notify"})
    BY <2>2 DEF NoticeInv, FirstAreServed, SeenFirst
  <2>4. DOMAIN checks = {}
    BY EmptySeq DEF OutOfSight
  <2> QED BY <2>3, <2>4 DEF Served, Handled
<1> QED BY <1>1, NotifierInvariance, NoticeInvariance, PTL
=============================================================================
