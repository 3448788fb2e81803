----------------------------- MODULE SwapNotifier -----------------------------
(***************************************************************************)
(* How the app learns of executed swaps.  Every five seconds a timer       *)
(* starts checkForExecutedTrades, which asks the chain for the events of   *)
(* the latest sealed blocks and notifies the user of each swap not seen    *)
(* before.  Checks overlap when one takes longer than the timer.           *)
(*                                                                         *)
(* The module follows one logged-in user in a running app, and only the    *)
(* events of swaps that this user takes part in: the others are passed     *)
(* over without a trace.                                                   *)
(***************************************************************************)
EXTENDS Integers, FiniteSets, SequencesExt

CONSTANTS
    Window,        \* how many blocks back a check looks: 10
    PollInterval,  \* bound: blocks sealed between two checks (five seconds)
    MaxChecks,     \* bound: checks that run at the same time
    MaxHeight,     \* bound
    MaxSwaps       \* bound: swaps of this user

ASSUME NotifierAssumption ==
    /\ {Window, PollInterval, MaxChecks} \subseteq Nat \ {0}
    /\ {MaxHeight, MaxSwaps} \subseteq Nat
    /\ PollInterval <= Window

VARIABLES
    height,         \* of the latest sealed block
    executedAt,     \* the height of each swap executed so far, in order
    lastPoll,       \* history: the height the latest check has asked for
    notifiedSwaps,  \* the swaps (by index in executedAt) marked as notified
    notifications,  \* how often each swap was notified
    checks,         \* the running checks
    mishaps         \* history: "overlap" of checks, "failure" of a call

vars == << height, executedAt, lastPoll, notifiedSwaps, notifications,
           checks, mishaps >>

\* A check: the events left to look at, what it does next with the first of
\* them, and notifiedSwaps as it was when the first one was looked up.
Check == [ events : Seq(1 .. MaxSwaps) \ {<< >>},
           next : {"lookup", "insert", "notify", "refresh"},
           seen : SUBSET (1 .. MaxSwaps) ]

\* Block heights are far above the window on the chain.
Init ==
    /\ height = Window
    /\ executedAt = << >>
    /\ lastPoll = Window
    /\ notifiedSwaps = {}
    /\ notifications = [i \in 1 .. MaxSwaps |-> 0]
    /\ checks = << >>
    /\ mishaps = {}
-----------------------------------------------------------------------------
\* The chain seals a block in which n swaps of the user are executed.  The
\* timer keeps up: at most PollInterval blocks pass between two checks.
NewBlock(n) ==
    /\ height < MaxHeight
    /\ height - lastPoll < PollInterval
    /\ Len(executedAt) + n <= MaxSwaps
    /\ height' = height + 1
    /\ executedAt' = executedAt \o [i \in 1 .. n |-> height + 1]
    /\ UNCHANGED << lastPoll, notifiedSwaps, notifications, checks, mishaps >>

\* Mutant: only the latest block is asked for.
RecentLatest ==
    SelectSeq([i \in DOMAIN executedAt |-> i],
              LAMBDA i : executedAt[i] = height)

\* The events from height - Window to height, in the order of the chain:
\* all but the oldest.
Recent ==
    LET old == Cardinality({ i \in DOMAIN executedAt :
                                executedAt[i] < height - Window })
    IN  [ i \in 1 .. Len(executedAt) - old |-> old + i ]

\* checkForExecutedTrades up to its loop.  Its awaits, of the latest block and
\* of the events, are one step: what is sealed in between is left to the next
\* check in either case.
Poll ==
    /\ Len(checks) < MaxChecks
    /\ lastPoll' = height
    /\ checks' = IF Recent = << >> THEN checks
                 ELSE Append(checks, [ events |-> Recent, next |-> "lookup",
                                       seen |-> {} ])
    /\ mishaps' = IF checks = << >> THEN mishaps
                  ELSE mishaps \cup {"overlap"}
    /\ UNCHANGED << height, executedAt, notifiedSwaps, notifications >>

\* The latest block or the events cannot be fetched: nothing is looked at.
PollFails ==
    /\ Len(checks) < MaxChecks
    /\ lastPoll' = height
    /\ mishaps' = mishaps \cup {"failure"}
    /\ UNCHANGED << height, executedAt, notifiedSwaps, notifications, checks >>

At(c, step) == checks[c].next = step
Now(c)      == Head(checks[c].events)

Lookup(c) ==
    /\ At(c, "lookup")
    /\ Now(c) \notin notifiedSwaps
    /\ checks' = [checks EXCEPT ![c].next = "insert",
                                ![c].seen = notifiedSwaps]
    /\ UNCHANGED << height, executedAt, lastPoll, notifiedSwaps,
                    notifications, mishaps >>

\* A swap that is marked already ends the whole check.
AlreadyNotified(c) ==
    /\ At(c, "lookup")
    /\ Now(c) \in notifiedSwaps
    /\ checks' = RemoveAt(checks, c)
    /\ UNCHANGED << height, executedAt, lastPoll, notifiedSwaps,
                    notifications, mishaps >>

\* Mutant: the swap is not marked.
NotInserted(c) ==
    /\ At(c, "insert")
    /\ checks' = [checks EXCEPT ![c].next = "notify"]
    /\ UNCHANGED << height, executedAt, lastPoll, notifiedSwaps,
                    notifications, mishaps >>

\* The function is not confined to the main actor and the set is not
\* protected: of two insertions at the same time one may be lost.
Insert(c) ==
    /\ At(c, "insert")
    /\ notifiedSwaps' \in { s \cup {Now(c)} :
                            s \in {notifiedSwaps, checks[c].seen} }
    /\ checks' = [checks EXCEPT ![c].next = "notify"]
    /\ UNCHANGED << height, executedAt, lastPoll, notifications, mishaps >>

\* notifySwap
Notify(c) ==
    /\ At(c, "notify")
    /\ notifications' = [notifications EXCEPT ![Now(c)] = @ + 1]
    /\ checks' = [checks EXCEPT ![c].next = "refresh"]
    /\ UNCHANGED << height, executedAt, lastPoll, notifiedSwaps, mishaps >>

\* Mutant: a check that has looked at all its events keeps running.
RefreshedForever(c) ==
    /\ At(c, "refresh")
    /\ checks' = [checks EXCEPT ![c].events = Tail(@), ![c].next = "lookup"]
    /\ UNCHANGED << height, executedAt, lastPoll, notifiedSwaps,
                    notifications, mishaps >>

\* getUserNfts and getGlobalTradingBlock; then on to the next event.
Refreshed(c) ==
    /\ At(c, "refresh")
    /\ checks' = IF Len(checks[c].events) = 1 THEN RemoveAt(checks, c)
                 ELSE [checks EXCEPT ![c].events = Tail(@),
                                     ![c].next = "lookup"]
    /\ UNCHANGED << height, executedAt, lastPoll, notifiedSwaps,
                    notifications, mishaps >>

\* notifySwap or a refresh throws: the check is abandoned.
CallFails(c) ==
    /\ At(c, "notify") \/ At(c, "refresh")
    /\ checks' = RemoveAt(checks, c)
    /\ mishaps' = mishaps \cup {"failure"}
    /\ UNCHANGED << height, executedAt, lastPoll, notifiedSwaps,
                    notifications >>

Next ==
    \/ \E n \in 0 .. MaxSwaps : NewBlock(n)
    \/ Poll
    \/ PollFails
    \/ \E c \in DOMAIN checks : Lookup(c)
    \/ \E c \in DOMAIN checks : AlreadyNotified(c)
    \/ \E c \in DOMAIN checks : Insert(c)
    \/ \E c \in DOMAIN checks : Notify(c)
    \/ \E c \in DOMAIN checks : Refreshed(c)
    \/ \E c \in DOMAIN checks : CallFails(c)

Spec == Init /\ [][Next]_vars

\* The chain seals blocks, the timer repeats, and awaited calls return.
Fairness ==
    /\ WF_vars(\E n \in 0 .. MaxSwaps : NewBlock(n))
    /\ WF_vars(Poll)
    /\ \A c \in 1 .. MaxChecks :
          /\ WF_vars(c \in DOMAIN checks /\ Lookup(c))
          /\ WF_vars(c \in DOMAIN checks /\ AlreadyNotified(c))
          /\ WF_vars(c \in DOMAIN checks /\ Insert(c))
          /\ WF_vars(c \in DOMAIN checks /\ Notify(c))
          /\ WF_vars(c \in DOMAIN checks /\ Refreshed(c))

FairSpec == Spec /\ Fairness
-----------------------------------------------------------------------------
(***************************************************************************)
(* Properties.                                                             *)
(***************************************************************************)

\* The types of all variables; a running check has an event to look at.
NotifierTypeOK ==
    /\ height \in Nat /\ lastPoll \in Nat
    /\ executedAt \in Seq(Nat) /\ Len(executedAt) <= MaxSwaps
    /\ notifiedSwaps \subseteq DOMAIN executedAt
    /\ notifications \in [1 .. MaxSwaps -> Nat]
    /\ checks \in Seq(Check)
    /\ mishaps \subseteq {"overlap", "failure"}

\* Nobody is told of the same swap twice, although every check sees again
\* what the last ones saw and some are given up half way, as long as no
\* check starts before the last one is over
\* (BlockchainViewModel.swift:1001-1004).
NotifiedAtMostOnce ==
    "overlap" \notin mishaps =>
       \A i \in 1 .. MaxSwaps : notifications[i] <= 1

\* The checks that could see swap i are over.
OutOfSight(i) ==
    checks = << >> /\ lastPoll > executedAt[i] + Window

Spaced(i) ==
    \A j \in 1 .. i - 1 : executedAt[j] + PollInterval <= executedAt[i]

\* A swap that comes at least one timer period after the user's previous
\* one is notified, although a check ends at the first swap already marked:
\* by the time the older one has left the window the newer has not.  Checks
\* that overlap, and race on notifiedSwaps, do not break this; a call that
\* fails does (BlockchainViewModel.swift:986-1004).
SpacedSwapsAreNotified ==
    "failure" \notin mishaps =>
       \A i \in DOMAIN executedAt :
          OutOfSight(i) /\ Spaced(i) => notifications[i] >= 1

\* The notification comes, as long as blocks are sealed until the swap is out
\* of the window, the timer runs and no call fails
\* (BlockchainViewModel.swift:975-1012, ContentView.swift:242-246).
SpacedSwapsGetNotified ==
    \A i \in 1 .. MaxSwaps :
       (/\ i \in DOMAIN executedAt
        /\ Spaced(i) /\ executedAt[i] + Window < MaxHeight)
       ~> notifications[i] >= 1 \/ "failure" \in mishaps

\* "user is involved in a recent trade, send a notification": of each swap
\* (BlockchainViewModel.swift:1000).
EverySwapIsNotified ==
    mishaps = {} =>
       \A i \in DOMAIN executedAt : OutOfSight(i) => notifications[i] >= 1
=============================================================================
