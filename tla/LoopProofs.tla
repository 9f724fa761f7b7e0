----------------------------- MODULE LoopProofs -----------------------------
(***************************************************************************)
(* What the loops of the code compute, for lists of any length.            *)
(*                                                                         *)
(* A loop is a recursive function.  That it exists, and what it computes,  *)
(* is proved by induction, which comes from the least element of a set of  *)
(* numbers (Least): the operators in the induction theorems of the library *)
(* are not instantiated by the provers.                                    *)
(*                                                                         *)
(* HeartbeatMonitor: it implements HeartbeatVerdict, that is, the walk     *)
(* over the bounded list gives the verdict of the whole history of         *)
(* heartbeats.                                                             *)
(*                                                                         *)
(* Conversions: ReferenceIsLossless, PodStateIsFirst, VersionIsStated and  *)
(* AgentHasAddress, for texts, pods, outputs of blade and lists of         *)
(* services of any length.                                                 *)
(***************************************************************************)
EXTENDS HeartbeatMonitor, Conversions, WellFoundedInduction, TLAPS

-----------------------------------------------------------------------------
(* HeartbeatMonitor: the bounds.                                           *)

\* The bounds as facts: every run that decides fits into the list.
LEMMA Bounds ==
    /\ Cap \in Nat /\ StopThreshold \in Nat /\ StartThreshold \in Nat /\ MaxBeats \in Nat
    /\ StopThreshold >= 1 /\ StartThreshold >= 1 /\ MaxBeats >= 1
    /\ StopThreshold <= Cap /\ StartThreshold <= Cap
    /\ MaxBeats + StopThreshold <= Cap + 1 /\ MaxBeats + StartThreshold <= Cap + 1
  BY MonitorAssumption DEF MonitorAssumption

-----------------------------------------------------------------------------
(* Induction.                                                              *)

Less == {p \in Nat \X Nat : p[1] < p[2]}

\* A set of numbers has a least element.
LEMMA Least ==
    ASSUME NEW T \in SUBSET Nat, T # {}
    PROVE  \E x \in T : \A y \in T : x <= y
  <1>1. IsWellFoundedOn(Less, Nat)
    BY NatLessThanWellFounded DEF Less, OpToRel
  <1>2. PICK x \in T : \A y \in T : ~(<<y, x>> \in Less)
    BY <1>1, WFMin, Zenon
  <1>3. \A y \in T : ~(y < x)
    BY <1>2, Zenon DEF Less
  <1>. QED  BY <1>3

\* A set of numbers up to n has a greatest element.
LEMMA Greatest ==
    ASSUME NEW n \in Nat, NEW T \in SUBSET (0 .. n), T # {}
    PROVE  \E x \in T : \A y \in T : y <= x
  <1>. DEFINE D == {n - x : x \in T}
  <1>0. \A x \in T : n - x \in Nat
    OBVIOUS
  <1>1. D \in SUBSET Nat /\ D # {}
    BY <1>0, Zenon
  <1>2. PICK d \in D : \A e \in D : d <= e
    BY <1>1, Least, Zenon
  <1>3. PICK x \in T : d = n - x
    OBVIOUS
  <1>4. ASSUME NEW y \in T PROVE y <= x
    <2>1. n - x <= n - y
      BY <1>2, <1>3, Zenon
    <2>. QED  BY <2>1
  <1>. QED  BY <1>4

\* What holds at 0 and at each next number holds up to n.
LEMMA Upwards ==
    ASSUME NEW n \in Nat, NEW S, 0 \in S, \A i \in 0 .. n - 1 : i \in S => i + 1 \in S
    PROVE  0 .. n \subseteq S
  <1>. SUFFICES ASSUME NEW k \in 0 .. n, k \notin S PROVE FALSE
    OBVIOUS
  <1>. DEFINE T == {i \in 0 .. n : i \notin S}
  <1>1. T \in SUBSET Nat /\ T # {}
    OBVIOUS
  <1>2. PICK m \in T : \A y \in T : m <= y
    BY <1>1, Least, Zenon
  <1>3. m # 0 /\ m - 1 \in 0 .. n - 1 /\ m - 1 \notin T
    BY <1>2
  <1>4. m - 1 \in S
    BY <1>3
  <1>5. (m - 1) + 1 \in S
    BY <1>3, <1>4
  <1>. QED  BY <1>5, <1>2

-----------------------------------------------------------------------------
(* The walk.                                                               *)

Start == [fail |-> 0, succ |-> 0]

\* The counts g of the first n steps of a walk over a list.
Steps(list, n, g) ==
    g = [i \in 0 .. n |-> IF i = 0 THEN Start ELSE Visit(g[i - 1], list[Len(list) + 1 - i])]

\* The walk over a list is defined, step by step.
LEMMA WalkDefined ==
    ASSUME NEW list \in Seq(BOOLEAN)
    PROVE  /\ Walk(list)[0] = Start
           /\ \A i \in 1 .. Len(list) :
                 Walk(list)[i] = Visit(Walk(list)[i - 1], list[Len(list) + 1 - i])
  <1>. DEFINE S == {n \in Nat : \E g : Steps(list, n, g)}
              L == Len(list)
  <1>1. 0 \in S
    <2>1. Steps(list, 0, [i \in 0 .. 0 |-> Start])
      BY DEF Steps
    <2>. QED  BY <2>1
  <1>2. ASSUME NEW n \in 0 .. L - 1, n \in S PROVE n + 1 \in S
    <2>1. PICK g : Steps(list, n, g)
      BY <1>2
    <2>. DEFINE x == Visit(g[n], list[Len(list) + 1 - (n + 1)])
                h == [i \in 0 .. n + 1 |-> IF i = n + 1 THEN x ELSE g[i]]
    <2>2. h[n + 1] = x /\ \A i \in 0 .. n : h[i] = g[i]
      OBVIOUS
    <2>3. \A i \in 0 .. n : g[i] = IF i = 0 THEN Start ELSE Visit(g[i - 1], list[Len(list) + 1 - i])
      BY <2>1 DEF Steps
    <2>4. ASSUME NEW i \in 0 .. n + 1
          PROVE  h[i] = IF i = 0 THEN Start ELSE Visit(h[i - 1], list[Len(list) + 1 - i])
      <3>. HIDE DEF h
      <3>1. CASE i = n + 1
        <4>1. i # 0 /\ i - 1 = n /\ h[n] = g[n]
          BY <3>1, <2>2
        <4>. QED  BY <3>1, <4>1, <2>2
      <3>2. CASE i # n + 1
        <4>1. i \in 0 .. n /\ (i # 0 => i - 1 \in 0 .. n)
          BY <3>2
        <4>. QED  BY <4>1, <2>2, <2>3
      <3>. QED  BY <3>1, <3>2
    <2>5. Steps(list, n + 1, h)
      BY <2>4 DEF Steps
    <2>. QED  BY <2>5
  <1>3. L \in Nat
    OBVIOUS
  <1>4. L \in S
    <2>. HIDE DEF S, L
    <2>1. 0 .. L \subseteq S
      BY <1>1, <1>2, <1>3, Upwards
    <2>. QED  BY <2>1, <1>3
  <1>5. PICK g : Steps(list, Len(list), g)
    BY <1>4
  <1>6. Steps(list, Len(list), Walk(list))
    BY <1>5, Zenon DEF Steps, Walk, Start
  <1>7. \A i \in 0 .. Len(list) :
           Walk(list)[i] = IF i = 0 THEN Start ELSE Visit(Walk(list)[i - 1], list[Len(list) + 1 - i])
    BY <1>6, Zenon DEF Steps
  <1>. QED  BY <1>7, <1>3

Deciding(list)  == Stops(list) \cup Starts(list)
LastStop(list)  == \E i \in Stops(list) : \A j \in Deciding(list) : j <= i
LastStart(list) == \E i \in Starts(list) : \A j \in Deciding(list) : j <= i

\* A run by the positions it covers.
LEMMA RunCovers ==
    ASSUME NEW list \in Seq(BOOLEAN), NEW t \in Nat, t >= 1, NEW ok \in BOOLEAN, NEW i \in Int
    PROVE  i \in Runs(list, t, ok) <=>
              i \in t .. Len(list) /\ \A q \in i - t + 1 .. i : list[q] = ok
  <1>1. ASSUME i \in Runs(list, t, ok), NEW q \in i - t + 1 .. i PROVE list[q] = ok
    <2>1. i - q \in 0 .. t - 1 /\ i - (i - q) = q
      OBVIOUS
    <2>. QED  BY <1>1, <2>1, Zenon DEF Runs
  <1>2. ASSUME i \in t .. Len(list), \A q \in i - t + 1 .. i : list[q] = ok,
               NEW j \in 0 .. t - 1
        PROVE  list[i - j] = ok
    <2>1. i - j \in i - t + 1 .. i
      OBVIOUS
    <2>. QED  BY <1>2, <2>1
  <1>. QED  BY <1>1, <1>2 DEF Runs

\* A run of failures covers failures only.
LEMMA StopCovers ==
    ASSUME NEW list \in Seq(BOOLEAN), NEW i \in Int
    PROVE  i \in Stops(list) <=>
              /\ i \in StopThreshold .. Len(list)
              /\ \A q \in i - StopThreshold + 1 .. i : list[q] = FALSE
  BY RunCovers, Bounds, Zenon DEF Stops

\* A run of successes covers successes only.
LEMMA StartCovers ==
    ASSUME NEW list \in Seq(BOOLEAN), NEW i \in Int
    PROVE  i \in Starts(list) <=>
              /\ i \in StartThreshold .. Len(list)
              /\ \A q \in i - StartThreshold + 1 .. i : list[q] = TRUE
  BY RunCovers, Bounds, Zenon DEF Starts

\* Runs end in the list.
LEMMA RunsInList ==
    ASSUME NEW list \in Seq(BOOLEAN)
    PROVE  Stops(list) \subseteq 1 .. Len(list) /\ Starts(list) \subseteq 1 .. Len(list)
  BY Bounds DEF Stops, Starts, Runs

\* The c results from position p on are ok, and no more than those.
Counted(list, p, c, ok) ==
    /\ p + c <= Len(list) + 1
    /\ \A q \in p .. p + c - 1 : list[q] = ok
    /\ p + c <= Len(list) => list[p + c] # ok

\* Nothing is counted where the result is another one.
LEMMA NoneCounted ==
    ASSUME NEW list \in Seq(BOOLEAN), NEW p \in 1 .. Len(list) + 1, NEW ok,
           p <= Len(list) => list[p] # ok
    PROVE  Counted(list, p, 0, ok)
  <1>1. p + 0 = p /\ \A q \in p .. p + 0 - 1 : FALSE
    OBVIOUS
  <1>. QED  BY <1>1 DEF Counted

\* After k steps a walk w has found no run that decides, and has counted the results
\* from the last one it has seen.
Undecided(list, k, w) ==
    /\ w.fail \in 0 .. StopThreshold - 1 /\ w.succ \in 0 .. StartThreshold - 1
    /\ \A i \in Stops(list) : i - StopThreshold + 1 <= Len(list) - k
    /\ \A i \in Starts(list) : i - StartThreshold + 1 <= Len(list) - k
    /\ Counted(list, Len(list) + 1 - k, w.fail, FALSE)
    /\ Counted(list, Len(list) + 1 - k, w.succ, TRUE)

\* A walk w has ended at the last run that decides.
EndsAtStop(list, w)  == w.fail = StopThreshold /\ w.succ # StartThreshold /\ LastStop(list)
EndsAtStart(list, w) == w.fail # StopThreshold /\ w.succ = StartThreshold /\ LastStart(list)

Walked(list, k, w) == Undecided(list, k, w) \/ EndsAtStop(list, w) \/ EndsAtStart(list, w)

\* The next result is a failure.
LEMMA VisitFailure ==
    ASSUME NEW list \in Seq(BOOLEAN), NEW k \in 0 .. Len(list) - 1, NEW w,
           Undecided(list, k, w), list[Len(list) - k] = FALSE
    PROVE  Walked(list, k + 1, [fail |-> w.fail + 1, succ |-> 0])
  <1>. DEFINE p == Len(list) - k
              f == w.fail
              v == [fail |-> f + 1, succ |-> 0]
  <1>0. /\ Len(list) \in Nat /\ p \in 1 .. Len(list) /\ Len(list) + 1 - k = p + 1
        /\ Len(list) - (k + 1) = p - 1 /\ Len(list) + 1 - (k + 1) = p
        /\ list[p] = FALSE /\ v.fail = f + 1 /\ v.succ = 0
        /\ f \in 0 .. StopThreshold - 1 /\ f \in Int /\ p \in Int
    BY Bounds DEF Undecided
  <1>. HIDE DEF p, f, v
  <1>1. /\ \A i \in Stops(list) : i - StopThreshold + 1 <= p
        /\ \A i \in Starts(list) : i - StartThreshold + 1 <= p
    BY DEF Undecided, p
  <1>2. /\ p + 1 + f <= Len(list) + 1
        /\ \A q \in p + 1 .. p + f : list[q] = FALSE
        /\ p + 1 + f <= Len(list) => list[p + 1 + f] # FALSE
    <2>1. Counted(list, p + 1, f, FALSE)
      BY <1>0, Zenon DEF Undecided, f
    <2>2. p + 1 + f - 1 = p + f
      BY <1>0, Bounds
    <2>. QED  BY <2>1, <2>2, Zenon DEF Counted
  <1>3. \A q \in p .. p + f : list[q] = FALSE
    <2>. SUFFICES ASSUME NEW q \in p .. p + f PROVE list[q] = FALSE
      OBVIOUS
    <2>1. q = p \/ q \in p + 1 .. p + f
      BY <1>0, Bounds
    <2>. QED  BY <2>1, <1>0, <1>2
  <1>4. ASSUME NEW i \in Starts(list) PROVE i <= p - 1
    <2>0. i \in Int
      BY RunsInList
    <2>1. i \in StartThreshold .. Len(list) /\ \A q \in i - StartThreshold + 1 .. i : list[q] = TRUE
      BY <2>0, StartCovers, Zenon
    <2>2. i - StartThreshold + 1 <= p
      BY <1>1
    <2>. QED  BY <2>1, <2>2, <1>0, Bounds
  <1>5. CASE f + 1 = StopThreshold
    <2>. DEFINE e == p + f
    <2>1. e \in Stops(list)
      <3>1. e \in Int /\ e \in StopThreshold .. Len(list) /\ e - StopThreshold + 1 = p
        BY <1>0, <1>2, <1>5, Bounds
      <3>2. \A q \in e - StopThreshold + 1 .. e : list[q] = FALSE
        BY <1>3, <3>1
      <3>. QED  BY <3>1, <3>2, StopCovers, Zenon
    <2>2. ASSUME NEW j \in Deciding(list) PROVE j <= e
      <3>1. CASE j \in Stops(list)
        <4>1. j \in Int /\ j - StopThreshold + 1 <= p
          BY <3>1, <1>1, RunsInList
        <4>. QED  BY <4>1, <1>0, <1>5, Bounds
      <3>2. CASE j \in Starts(list)
        <4>1. j \in Int /\ j <= p - 1
          BY <3>2, <1>4, RunsInList
        <4>. QED  BY <4>1, <1>0, <1>5, Bounds
      <3>. QED  BY <3>1, <3>2 DEF Deciding
    <2>3. LastStop(list)
      BY <2>1, <2>2 DEF LastStop
    <2>4. v.fail = StopThreshold /\ v.succ # StartThreshold
      BY <1>0, <1>5, Bounds
    <2>. QED  BY <2>3, <2>4 DEF Walked, EndsAtStop, v, f
  <1>6. CASE f + 1 # StopThreshold
    <2>1. v.fail \in 0 .. StopThreshold - 1 /\ v.succ \in 0 .. StartThreshold - 1
      BY <1>0, <1>6, Bounds
    <2>2. ASSUME NEW i \in Stops(list) PROVE i - StopThreshold + 1 <= p - 1
      <3>0. i \in Int
        BY RunsInList
      <3>1. i \in StopThreshold .. Len(list) /\ \A q \in i - StopThreshold + 1 .. i : list[q] = FALSE
        BY <3>0, StopCovers, Zenon
      <3>2. i - StopThreshold + 1 <= p
        BY <1>1
      <3>. SUFFICES ASSUME i - StopThreshold + 1 = p PROVE FALSE
        BY <3>1, <3>2, <1>0, Bounds
      <3>3. p + 1 + f \in i - StopThreshold + 1 .. i /\ p + 1 + f <= Len(list)
        BY <3>1, <1>0, <1>6, Bounds
      <3>. QED  BY <3>1, <3>3, <1>2, Zenon
    <2>3. ASSUME NEW i \in Starts(list) PROVE i - StartThreshold + 1 <= p - 1
      BY <1>4, <1>0, RunsInList, Bounds
    <2>4. Counted(list, p, v.fail, FALSE)
      <3>1. p + v.fail = p + 1 + f /\ p + v.fail - 1 = p + f
        BY <1>0, Bounds
      <3>. QED  BY <3>1, <1>2, <1>3, Zenon DEF Counted
    <2>5. Counted(list, p, v.succ, TRUE)
      <3>1. p + v.succ = p /\ p + v.succ - 1 = p - 1 /\ p <= Len(list) + 1 /\ p .. p - 1 = {}
        BY <1>0
      <3>2. list[p] # TRUE
        BY <1>0, Zenon
      <3>. QED  BY <3>1, <3>2, Zenon DEF Counted
    <2>6. Undecided(list, k + 1, v)
      BY <1>0, <2>1, <2>2, <2>3, <2>4, <2>5, Zenon DEF Undecided
    <2>. QED  BY <2>6 DEF Walked, v, f
  <1>. QED  BY <1>5, <1>6

\* The next result is a success.
LEMMA VisitSuccess ==
    ASSUME NEW list \in Seq(BOOLEAN), NEW k \in 0 .. Len(list) - 1, NEW w,
           Undecided(list, k, w), list[Len(list) - k] = TRUE
    PROVE  Walked(list, k + 1, [fail |-> 0, succ |-> w.succ + 1])
  <1>. DEFINE p == Len(list) - k
              c == w.succ
              v == [fail |-> 0, succ |-> c + 1]
  <1>0. /\ Len(list) \in Nat /\ p \in 1 .. Len(list) /\ Len(list) + 1 - k = p + 1
        /\ Len(list) - (k + 1) = p - 1 /\ Len(list) + 1 - (k + 1) = p
        /\ list[p] = TRUE /\ v.succ = c + 1 /\ v.fail = 0
        /\ c \in 0 .. StartThreshold - 1 /\ c \in Int /\ p \in Int
    BY Bounds DEF Undecided
  <1>. HIDE DEF p, c, v
  <1>1. /\ \A i \in Starts(list) : i - StartThreshold + 1 <= p
        /\ \A i \in Stops(list) : i - StopThreshold + 1 <= p
    BY DEF Undecided, p
  <1>2. /\ p + 1 + c <= Len(list) + 1
        /\ \A q \in p + 1 .. p + c : list[q] = TRUE
        /\ p + 1 + c <= Len(list) => list[p + 1 + c] # TRUE
    <2>1. Counted(list, p + 1, c, TRUE)
      BY <1>0, Zenon DEF Undecided, c
    <2>2. p + 1 + c - 1 = p + c
      BY <1>0, Bounds
    <2>. QED  BY <2>1, <2>2, Zenon DEF Counted
  <1>3. \A q \in p .. p + c : list[q] = TRUE
    <2>. SUFFICES ASSUME NEW q \in p .. p + c PROVE list[q] = TRUE
      OBVIOUS
    <2>1. q = p \/ q \in p + 1 .. p + c
      BY <1>0, Bounds
    <2>. QED  BY <2>1, <1>0, <1>2
  <1>4. ASSUME NEW i \in Stops(list) PROVE i <= p - 1
    <2>0. i \in Int
      BY RunsInList
    <2>1. i \in StopThreshold .. Len(list) /\ \A q \in i - StopThreshold + 1 .. i : list[q] = FALSE
      BY <2>0, StopCovers, Zenon
    <2>2. i - StopThreshold + 1 <= p
      BY <1>1
    <2>. QED  BY <2>1, <2>2, <1>0, Bounds
  <1>5. CASE c + 1 = StartThreshold
    <2>. DEFINE e == p + c
    <2>1. e \in Starts(list)
      <3>1. e \in Int /\ e \in StartThreshold .. Len(list) /\ e - StartThreshold + 1 = p
        BY <1>0, <1>2, <1>5, Bounds
      <3>2. \A q \in e - StartThreshold + 1 .. e : list[q] = TRUE
        BY <1>3, <3>1
      <3>. QED  BY <3>1, <3>2, StartCovers, Zenon
    <2>2. ASSUME NEW j \in Deciding(list) PROVE j <= e
      <3>1. CASE j \in Starts(list)
        <4>1. j \in Int /\ j - StartThreshold + 1 <= p
          BY <3>1, <1>1, RunsInList
        <4>. QED  BY <4>1, <1>0, <1>5, Bounds
      <3>2. CASE j \in Stops(list)
        <4>1. j \in Int /\ j <= p - 1
          BY <3>2, <1>4, RunsInList
        <4>. QED  BY <4>1, <1>0, <1>5, Bounds
      <3>. QED  BY <3>1, <3>2 DEF Deciding
    <2>3. LastStart(list)
      BY <2>1, <2>2 DEF LastStart
    <2>4. v.succ = StartThreshold /\ v.fail # StopThreshold
      BY <1>0, <1>5, Bounds
    <2>. QED  BY <2>3, <2>4 DEF Walked, EndsAtStart, v, c
  <1>6. CASE c + 1 # StartThreshold
    <2>1. v.succ \in 0 .. StartThreshold - 1 /\ v.fail \in 0 .. StopThreshold - 1
      BY <1>0, <1>6, Bounds
    <2>2. ASSUME NEW i \in Starts(list) PROVE i - StartThreshold + 1 <= p - 1
      <3>0. i \in Int
        BY RunsInList
      <3>1. i \in StartThreshold .. Len(list) /\ \A q \in i - StartThreshold + 1 .. i : list[q] = TRUE
        BY <3>0, StartCovers, Zenon
      <3>2. i - StartThreshold + 1 <= p
        BY <1>1
      <3>. SUFFICES ASSUME i - StartThreshold + 1 = p PROVE FALSE
        BY <3>1, <3>2, <1>0, Bounds
      <3>3. p + 1 + c \in i - StartThreshold + 1 .. i /\ p + 1 + c <= Len(list)
        BY <3>1, <1>0, <1>6, Bounds
      <3>. QED  BY <3>1, <3>3, <1>2, Zenon
    <2>3. ASSUME NEW i \in Stops(list) PROVE i - StopThreshold + 1 <= p - 1
      BY <1>4, <1>0, RunsInList, Bounds
    <2>4. Counted(list, p, v.succ, TRUE)
      <3>1. p + v.succ = p + 1 + c /\ p + v.succ - 1 = p + c
        BY <1>0, Bounds
      <3>. QED  BY <3>1, <1>2, <1>3, Zenon DEF Counted
    <2>5. Counted(list, p, v.fail, FALSE)
      <3>1. p + v.fail = p /\ p + v.fail - 1 = p - 1 /\ p <= Len(list) + 1 /\ p .. p - 1 = {}
        BY <1>0
      <3>2. list[p] # FALSE
        BY <1>0, Zenon
      <3>. QED  BY <3>1, <3>2, Zenon DEF Counted
    <2>6. Undecided(list, k + 1, v)
      BY <1>0, <2>1, <2>2, <2>3, <2>4, <2>5, Zenon DEF Undecided
    <2>. QED  BY <2>6 DEF Walked, v, c
  <1>. QED  BY <1>5, <1>6

\* A step of the walk.
LEMMA VisitWalked ==
    ASSUME NEW list \in Seq(BOOLEAN), NEW k \in 0 .. Len(list) - 1, NEW w, Walked(list, k, w)
    PROVE  Walked(list, k + 1, Visit(w, list[Len(list) - k]))
  <1>1. CASE Undecided(list, k, w)
    <2>1. ~Broken(w)
      BY <1>1, Bounds DEF Undecided, Broken
    <2>2. list[Len(list) - k] \in BOOLEAN
      OBVIOUS
    <2>3. CASE list[Len(list) - k] = FALSE
      <3>1. Visit(w, list[Len(list) - k]) = [fail |-> w.fail + 1, succ |-> 0]
        BY <2>1, <2>3 DEF Visit
      <3>. QED  BY <1>1, <2>3, <3>1, VisitFailure, Zenon
    <2>4. CASE list[Len(list) - k] = TRUE
      <3>1. Visit(w, list[Len(list) - k]) = [fail |-> 0, succ |-> w.succ + 1]
        BY <2>1, <2>4 DEF Visit
      <3>. QED  BY <1>1, <2>4, <3>1, VisitSuccess, Zenon
    <2>. QED  BY <2>2, <2>3, <2>4, Zenon
  <1>2. CASE EndsAtStop(list, w) \/ EndsAtStart(list, w)
    <2>1. Visit(w, list[Len(list) - k]) = w
      BY <1>2 DEF Visit, Broken, EndsAtStop, EndsAtStart
    <2>. QED  BY <1>2, <2>1 DEF Walked
  <1>. QED  BY <1>1, <1>2 DEF Walked

\* The walk ends at the last run that decides, and counts no other.
LEMMA WalkFinds ==
    ASSUME NEW list \in Seq(BOOLEAN)
    PROVE  LET w == ForeachReverse(list) IN
           \/ Deciding(list) = {} /\ w.fail # StopThreshold /\ w.succ # StartThreshold
           \/ EndsAtStop(list, w) \/ EndsAtStart(list, w)
  <1>. DEFINE L == Len(list)
              S == {k \in Nat : Walked(list, k, Walk(list)[k])}
  <1>0. L \in Nat
    OBVIOUS
  <1>1. 0 \in S
    <2>. DEFINE w == Walk(list)[0]
    <2>1. w.fail = 0 /\ w.succ = 0
      BY WalkDefined DEF Start
    <2>. HIDE DEF w
    <2>2. \A i \in Stops(list) : i - StopThreshold + 1 <= Len(list) - 0
      BY RunsInList, Bounds
    <2>3. \A i \in Starts(list) : i - StartThreshold + 1 <= Len(list) - 0
      BY RunsInList, Bounds
    <2>4. /\ Counted(list, Len(list) + 1 - 0, w.fail, FALSE)
          /\ Counted(list, Len(list) + 1 - 0, w.succ, TRUE)
      <3>1. Len(list) + 1 - 0 = Len(list) + 1
        BY <1>0
      <3>2. Len(list) + 1 \in 1 .. Len(list) + 1 /\ ~(Len(list) + 1 <= Len(list))
        BY <1>0
      <3>3. Counted(list, Len(list) + 1, 0, FALSE)
        BY <3>2, NoneCounted, Zenon
      <3>4. Counted(list, Len(list) + 1, 0, TRUE)
        BY <3>2, NoneCounted, Zenon
      <3>. QED  BY <2>1, <3>1, <3>3, <3>4, Zenon
    <2>6. w.fail \in 0 .. StopThreshold - 1 /\ w.succ \in 0 .. StartThreshold - 1
      BY <2>1, Bounds
    <2>5. Undecided(list, 0, w)
      BY <2>2, <2>3, <2>4, <2>6, Zenon DEF Undecided
    <2>. QED  BY <2>5 DEF Walked, w
  <1>2. ASSUME NEW k \in 0 .. L - 1, k \in S PROVE k + 1 \in S
    <2>1. k + 1 \in 1 .. Len(list) /\ (k + 1) - 1 = k /\ Len(list) + 1 - (k + 1) = Len(list) - k
      BY <1>0
    <2>2. Walk(list)[k + 1] = Visit(Walk(list)[k], list[Len(list) - k])
      BY <2>1, WalkDefined
    <2>3. Walked(list, k + 1, Visit(Walk(list)[k], list[Len(list) - k]))
      BY <1>2, VisitWalked
    <2>. QED  BY <2>1, <2>2, <2>3
  <1>3. Walked(list, Len(list), ForeachReverse(list))
    <2>1. 0 .. L \subseteq S
      <3>. HIDE DEF S, L
      <3>. QED  BY <1>0, <1>1, <1>2, Upwards
    <2>2. L \in S
      BY <2>1, <1>0
    <2>. QED  BY <2>2 DEF ForeachReverse
  <1>4. CASE Undecided(list, Len(list), ForeachReverse(list))
    <2>1. \A i \in Stops(list) : FALSE
      BY <1>4, <1>0, Bounds DEF Undecided, Stops, Runs
    <2>2. \A i \in Starts(list) : FALSE
      BY <1>4, <1>0, Bounds DEF Undecided, Starts, Runs
    <2>. QED  BY <1>4, <2>1, <2>2, Bounds DEF Undecided, Deciding
  <1>. QED  BY <1>3, <1>4 DEF Walked

-----------------------------------------------------------------------------
(* A heartbeat: the list is shifted by d, which is 1 when it was full.     *)

Shifted(s, t, v, d) ==
    /\ t \in Seq(BOOLEAN) /\ Len(t) \in 1 .. Cap
    /\ d \in {0, 1} /\ Len(s) = Len(t) - 1 + d /\ (d = 1 => Len(s) = Cap)
    /\ t[Len(t)] = v
    /\ \A i \in 1 .. Len(t) - 1 : t[i] = s[i + d]

\* What Put does to the list.
LEMMA PutShifts ==
    ASSUME NEW s \in Seq(BOOLEAN), Len(s) <= Cap, NEW v \in BOOLEAN
    PROVE  \E d \in {0, 1} : Shifted(s, Put(s, v), v, d)
  <1>. DEFINE a == Append(s, v)
  <1>1. /\ a \in Seq(BOOLEAN) /\ Len(a) = Len(s) + 1 /\ Len(s) \in Nat
        /\ a[Len(s) + 1] = v /\ \A i \in 1 .. Len(s) : a[i] = s[i]
    OBVIOUS
  <1>. HIDE DEF a
  <1>2. CASE Len(s) < Cap
    <2>1. Put(s, v) = a
      BY <1>1, <1>2, Bounds DEF Put, a
    <2>2. Shifted(s, a, v, 0)
      BY <1>1, <1>2, Bounds DEF Shifted
    <2>. QED  BY <2>1, <2>2
  <1>3. CASE Len(s) = Cap
    <2>1. Put(s, v) = Tail(a)
      BY <1>1, <1>3, Bounds DEF Put, a
    <2>2. /\ Tail(a) \in Seq(BOOLEAN) /\ Len(Tail(a)) = Cap
          /\ \A i \in 1 .. Cap : Tail(a)[i] = a[i + 1]
      BY <1>1, <1>3, Bounds
    <2>3. Shifted(s, Tail(a), v, 1)
      BY <1>1, <1>3, <2>2, Bounds DEF Shifted
    <2>. QED  BY <2>1, <2>3
  <1>. QED  BY <1>2, <1>3, Bounds

\* A run that ends with the new result is a run before it and the result.
LEMMA EndsAfter ==
    ASSUME NEW s \in Seq(BOOLEAN), NEW t, NEW v, NEW d, Shifted(s, t, v, d),
           NEW n \in 1 .. Cap, NEW ok
    PROVE  EndsWith(t, n, ok) <=> v = ok /\ EndsWith(s, n - 1, ok)
  <1>0. /\ Len(s) \in Nat /\ Len(t) \in Nat /\ d \in Int /\ Len(s) = Len(t) - 1 + d
        /\ (n <= Len(t) <=> n - 1 <= Len(s))
    BY Bounds DEF Shifted
  <1>1. ASSUME NEW i \in 2 .. n, n <= Len(t)
        PROVE  t[Len(t) + 1 - i] = s[Len(s) + 1 - (i - 1)]
    <2>1. Len(t) + 1 - i \in 1 .. Len(t) - 1 /\ Len(t) + 1 - i + d = Len(s) + 1 - (i - 1)
      BY <1>0, <1>1
    <2>. QED  BY <2>1 DEF Shifted
  <1>2. t[Len(t) + 1 - 1] = v
    BY <1>0 DEF Shifted
  <1>3. ASSUME EndsWith(t, n, ok) PROVE v = ok /\ EndsWith(s, n - 1, ok)
    <2>0. n <= Len(t) /\ \A i \in 1 .. n : t[Len(t) + 1 - i] = ok
      BY <1>3 DEF EndsWith
    <2>1. v = ok
      BY <1>2, <2>0
    <2>2. ASSUME NEW i \in 1 .. n - 1 PROVE s[Len(s) + 1 - i] = ok
      <3>1. i + 1 \in 2 .. n /\ i + 1 \in 1 .. n /\ (i + 1) - 1 = i
        OBVIOUS
      <3>. QED  BY <3>1, <1>1, <2>0, Zenon
    <2>. QED  BY <1>0, <2>0, <2>1, <2>2 DEF EndsWith
  <1>4. ASSUME v = ok, EndsWith(s, n - 1, ok) PROVE EndsWith(t, n, ok)
    <2>0. n - 1 <= Len(s) /\ \A i \in 1 .. n - 1 : s[Len(s) + 1 - i] = ok
      BY <1>4 DEF EndsWith
    <2>1. ASSUME NEW i \in 1 .. n PROVE t[Len(t) + 1 - i] = ok
      <3>1. i = 1 \/ (i \in 2 .. n /\ i - 1 \in 1 .. n - 1)
        OBVIOUS
      <3>. QED  BY <3>1, <1>0, <1>1, <1>2, <1>4, <2>0, Zenon
    <2>. QED  BY <1>0, <2>0, <2>1 DEF EndsWith
  <1>. QED  BY <1>3, <1>4

\* The same, counted from the run before.
LEMMA EndsNext ==
    ASSUME NEW s \in Seq(BOOLEAN), NEW t, NEW v, NEW d, Shifted(s, t, v, d),
           NEW k \in 0 .. Cap - 1, NEW ok
    PROVE  EndsWith(t, k + 1, ok) <=> v = ok /\ EndsWith(s, k, ok)
  <1>1. k + 1 \in 1 .. Cap /\ (k + 1) - 1 = k
    BY Bounds
  <1>. QED  BY <1>1, EndsAfter

\* A shorter run ends there as well.
LEMMA EndsShorter ==
    ASSUME NEW s \in Seq(BOOLEAN), NEW ok, NEW m \in Nat, NEW n \in 0 .. m, EndsWith(s, m, ok)
    PROVE  EndsWith(s, n, ok)
  BY DEF EndsWith

IsLongest(s, max, ok, n) ==
    n \in 0 .. max /\ EndsWith(s, n, ok) /\ (n = max \/ ~EndsWith(s, n + 1, ok))

\* There is a longest run.
LEMMA LongestExists ==
    ASSUME NEW s \in Seq(BOOLEAN), NEW max \in Nat, NEW ok
    PROVE  IsLongest(s, max, ok, Longest(s, max, ok))
  <1>. DEFINE T == {n \in 0 .. max : n = max \/ ~EndsWith(s, n + 1, ok)}
  <1>1. T \in SUBSET Nat /\ max \in T
    OBVIOUS
  <1>2. PICK n \in T : \A m \in T : n <= m
    <2>. HIDE DEF T
    <2>. QED  BY <1>1, Least
  <1>3. EndsWith(s, n, ok)
    <2>1. CASE n = 0
      BY <2>1 DEF EndsWith
    <2>2. CASE n # 0
      <3>1. n - 1 \in 0 .. max /\ n - 1 # max /\ (n - 1) + 1 = n /\ ~(n <= n - 1)
        BY <2>2
      <3>. QED  BY <3>1, <1>2, Zenon
    <2>. QED  BY <2>1, <2>2
  <1>4. \E k \in 0 .. max : EndsWith(s, k, ok) /\ (k = max \/ ~EndsWith(s, k + 1, ok))
    BY <1>3
  <1>. QED  BY <1>4, Zenon DEF Longest, IsLongest

\* A run that cannot be longer is the longest.
LEMMA LongestIs ==
    ASSUME NEW s \in Seq(BOOLEAN), NEW max \in Nat, NEW ok, NEW n, IsLongest(s, max, ok, n)
    PROVE  Longest(s, max, ok) = n
  <1>. DEFINE m == Longest(s, max, ok)
  <1>1. IsLongest(s, max, ok, m)
    BY LongestExists
  <1>. HIDE DEF m
  <1>2. m \in Nat /\ n \in Nat /\ m <= max /\ n <= max
    BY <1>1 DEF IsLongest
  <1>3. ~(m < n)
    <2>. SUFFICES ASSUME m < n PROVE FALSE
      OBVIOUS
    <2>1. m + 1 \in 0 .. n /\ m # max
      BY <1>2
    <2>. QED  BY <1>1, <1>2, <2>1, EndsShorter DEF IsLongest
  <1>4. ~(n < m)
    <2>. SUFFICES ASSUME n < m PROVE FALSE
      OBVIOUS
    <2>1. n + 1 \in 0 .. m /\ n # max
      BY <1>2
    <2>. QED  BY <1>1, <1>2, <2>1, EndsShorter DEF IsLongest
  <1>. QED  BY <1>2, <1>3, <1>4 DEF m

AtMost(n, max) == IF n < max THEN n ELSE max

\* The longest run after a heartbeat, as in HeartbeatVerdict.
LEMMA LongestAfter ==
    ASSUME NEW s \in Seq(BOOLEAN), NEW t, NEW v, NEW d, Shifted(s, t, v, d),
           NEW max \in 1 .. Cap, NEW ok
    PROVE  /\ v = ok => Longest(t, max, ok) = AtMost(Longest(s, max, ok) + 1, max)
           /\ v # ok => Longest(t, max, ok) = 0
  <1>. DEFINE n == Longest(s, max, ok)
  <1>0. t \in Seq(BOOLEAN) /\ max \in Nat
    BY Bounds DEF Shifted
  <1>1. IsLongest(s, max, ok, n)
    BY <1>0, LongestExists
  <1>. HIDE DEF n
  <1>2. n \in 0 .. max /\ n \in Nat
    BY <1>1 DEF IsLongest
  <1>3. CASE v # ok
    <2>1. EndsWith(t, 0, ok)
      BY <1>0 DEF EndsWith
    <2>2. 0 + 1 = 1 /\ 1 \in 1 .. Cap
      BY Bounds
    <2>3. ~EndsWith(t, 0 + 1, ok)
      BY <1>3, <2>2, EndsAfter
    <2>4. IsLongest(t, max, ok, 0)
      BY <1>0, <2>1, <2>3 DEF IsLongest
    <2>. QED  BY <1>0, <1>3, <2>4, LongestIs
  <1>4. CASE v = ok /\ n = max
    <2>1. max \in 1 .. Cap /\ max - 1 \in 0 .. max
      BY Bounds
    <2>2. EndsWith(s, max - 1, ok)
      BY <1>0, <1>1, <1>4, <2>1, EndsShorter DEF IsLongest
    <2>3. EndsWith(t, max, ok)
      BY <1>4, <2>1, <2>2, EndsAfter
    <2>4. IsLongest(t, max, ok, max)
      BY <1>0, <2>3 DEF IsLongest
    <2>5. AtMost(n + 1, max) = max
      BY <1>0, <1>4 DEF AtMost
    <2>. QED  BY <1>0, <1>4, <2>4, <2>5, LongestIs DEF n
  <1>5. CASE v = ok /\ n # max
    <2>1. n + 1 \in 1 .. Cap /\ (n + 1) - 1 = n /\ n + 1 \in 0 .. max
      BY <1>2, <1>5, Bounds
    <2>2. EndsWith(t, n + 1, ok)
      BY <1>1, <1>5, <2>1, EndsAfter DEF IsLongest
    <2>3. n + 1 = max \/ ~EndsWith(t, (n + 1) + 1, ok)
      <3>. SUFFICES ASSUME n + 1 # max PROVE ~EndsWith(t, (n + 1) + 1, ok)
        OBVIOUS
      <3>1. n + 1 \in 0 .. Cap - 1
        BY <1>2, <2>1, Bounds
      <3>2. ~EndsWith(s, n + 1, ok)
        BY <1>1, <1>5 DEF IsLongest
      <3>. QED  BY <3>1, <3>2, EndsNext
    <2>4. IsLongest(t, max, ok, n + 1)
      BY <2>1, <2>2, <2>3 DEF IsLongest
    <2>5. AtMost(n + 1, max) = n + 1
      BY <1>2, <2>1 DEF AtMost
    <2>. QED  BY <1>0, <1>5, <2>4, <2>5, LongestIs DEF n
  <1>. QED  BY <1>3, <1>4, <1>5 DEF n

\* A run is as long as its threshold exactly when it decides.
LEMMA LongestDecides ==
    ASSUME NEW s \in Seq(BOOLEAN), NEW max \in Nat, max >= 1, NEW ok \in BOOLEAN
    PROVE  Longest(s, max, ok) = max <=> Len(s) \in Runs(s, max, ok)
  <1>1. EndsWith(s, max, ok) <=> Len(s) \in Runs(s, max, ok)
    <2>1. ASSUME EndsWith(s, max, ok), NEW j \in 0 .. max - 1 PROVE s[Len(s) - j] = ok
      <3>1. j + 1 \in 1 .. max /\ Len(s) + 1 - (j + 1) = Len(s) - j
        OBVIOUS
      <3>. QED  BY <2>1, <3>1 DEF EndsWith
    <2>2. ASSUME Len(s) \in Runs(s, max, ok), NEW i \in 1 .. max PROVE s[Len(s) + 1 - i] = ok
      <3>1. i - 1 \in 0 .. max - 1 /\ Len(s) + 1 - i = Len(s) - (i - 1)
        OBVIOUS
      <3>. QED  BY <2>2, <3>1, Zenon DEF Runs
    <2>3. Len(s) \in Nat
      OBVIOUS
    <2>. QED  BY <2>1, <2>2, <2>3 DEF EndsWith, Runs
  <1>2. EndsWith(s, max, ok) => IsLongest(s, max, ok, max)
    BY DEF IsLongest
  <1>3. EndsWith(s, max, ok) => Longest(s, max, ok) = max
    BY <1>2, LongestIs
  <1>4. Longest(s, max, ok) = max => EndsWith(s, max, ok)
    BY LongestExists DEF IsLongest
  <1>. QED  BY <1>1, <1>3, <1>4

-----------------------------------------------------------------------------
(* The last run that decides, before and after a heartbeat.                *)

\* i is the last run of s that decides, of those that end at n or before.
LastUpto(s, n, i) ==
    i \in Deciding(s) /\ i <= n /\ \A j \in Deciding(s) : j <= n => j <= i

\* A run ends with the result it is a run of.
LEMMA RunEnds ==
    ASSUME NEW s \in Seq(BOOLEAN), NEW i
    PROVE  /\ i \in Stops(s) => i \in Int /\ s[i] = FALSE
           /\ i \in Starts(s) => i \in Int /\ s[i] = TRUE
  <1>1. ASSUME i \in Stops(s) \cup Starts(s)
        PROVE  i \in Int /\ i \in i - StopThreshold + 1 .. i /\ i \in i - StartThreshold + 1 .. i
    <2>1. i \in Int
      BY <1>1, RunsInList
    <2>. QED  BY <2>1, Bounds
  <1>2. ASSUME i \in Stops(s) PROVE s[i] = FALSE
    BY <1>1, <1>2, StopCovers, Zenon
  <1>3. ASSUME i \in Starts(s) PROVE s[i] = TRUE
    BY <1>1, <1>3, StartCovers, Zenon
  <1>. QED  BY <1>1, <1>2, <1>3, Zenon

\* A run decides one way only.
LEMMA OneWay ==
    ASSUME NEW s \in Seq(BOOLEAN), NEW i \in Stops(s)
    PROVE  i \notin Starts(s)
  <1>1. s[i] = FALSE /\ (i \in Starts(s) => s[i] = TRUE)
    BY RunEnds, Zenon
  <1>. QED  BY <1>1

\* Position i of the list after a heartbeat is position e of the list before.
At(e, i, d) == e = i + d

\* The runs that end before the new result are runs of the list before that kept their start.
LEMMA RunShifts ==
    ASSUME NEW s \in Seq(BOOLEAN), NEW t, NEW v, NEW d, Shifted(s, t, v, d),
           NEW m \in Nat, m >= 1, NEW ok \in BOOLEAN, NEW i \in 1 .. Len(t) - 1,
           NEW e \in Int, At(e, i, d)
    PROVE  i \in Runs(t, m, ok) <=> i >= m /\ e \in Runs(s, m, ok)
  <1>0. /\ t \in Seq(BOOLEAN) /\ Len(t) \in Nat /\ Len(s) \in Nat /\ d \in {0, 1} /\ d \in Int
        /\ Len(s) = Len(t) - 1 + d /\ i \in Int
    BY DEF Shifted
  <1>1. i \in Runs(t, m, ok) <=> i \in m .. Len(t) /\ \A q \in i - m + 1 .. i : t[q] = ok
    <2>1. t \in Seq(BOOLEAN) /\ i \in Int
      BY <1>0
    <2>. QED  BY <2>1, RunCovers
  <1>2. e \in Runs(s, m, ok) <=> e \in m .. Len(s) /\ \A q \in e - m + 1 .. e : s[q] = ok
    BY RunCovers
  <1>3. ASSUME i >= m, NEW q \in i - m + 1 .. i PROVE t[q] = s[q + d]
    <2>1. q \in 1 .. Len(t) - 1
      BY <1>0, <1>3
    <2>. QED  BY <2>1, Zenon DEF Shifted
  <1>4. ASSUME i \in Runs(t, m, ok) PROVE i >= m /\ e \in Runs(s, m, ok)
    <2>1. i >= m /\ e \in m .. Len(s)
      BY <1>0, <1>1, <1>4 DEF At
    <2>2. ASSUME NEW q \in e - m + 1 .. e PROVE s[q] = ok
      <3>1. q - d \in i - m + 1 .. i /\ (q - d) + d = q
        BY <1>0 DEF At
      <3>. QED  BY <3>1, <2>1, <1>1, <1>3, <1>4
    <2>. QED  BY <2>1, <2>2, <1>2
  <1>5. ASSUME i >= m, e \in Runs(s, m, ok) PROVE i \in Runs(t, m, ok)
    <2>1. i \in m .. Len(t)
      BY <1>0, <1>5 DEF At
    <2>2. ASSUME NEW q \in i - m + 1 .. i PROVE t[q] = ok
      <3>1. q + d \in e - m + 1 .. e
        BY <1>0 DEF At
      <3>. QED  BY <3>1, <1>2, <1>3, <1>5
    <2>. QED  BY <2>1, <2>2, <1>1
  <1>. QED  BY <1>4, <1>5

\* The same, for failures and for successes.
LEMMA DecidingShifts ==
    ASSUME NEW s \in Seq(BOOLEAN), NEW t, NEW v, NEW d, Shifted(s, t, v, d),
           NEW i \in 1 .. Len(t) - 1, NEW e \in Int, At(e, i, d)
    PROVE  /\ i \in Stops(t) <=> i >= StopThreshold /\ e \in Stops(s)
           /\ i \in Starts(t) <=> i >= StartThreshold /\ e \in Starts(s)
  <1>1. i \in Stops(t) <=> i >= StopThreshold /\ e \in Stops(s)
    BY RunShifts, Bounds, Zenon DEF Stops
  <1>2. i \in Starts(t) <=> i >= StartThreshold /\ e \in Starts(s)
    BY RunShifts, Bounds, Zenon DEF Starts
  <1>. QED  BY <1>1, <1>2

\* A run that ends after one that is left in the list is left as well.
LEMMA LaterStays ==
    ASSUME NEW s \in Seq(BOOLEAN), NEW t, NEW v, NEW d, Shifted(s, t, v, d),
           NEW i \in Deciding(t), i <= Len(t) - 1, NEW e \in Int, At(e, i, d),
           NEW j \in Deciding(s), e < j
    PROVE  j - d \in Deciding(t) /\ j - d \in 1 .. Len(t) - 1 /\ i < j - d
  <1>0. /\ t \in Seq(BOOLEAN) /\ Len(t) \in Nat /\ Len(s) \in Nat /\ d \in {0, 1} /\ d \in Int
        /\ Len(s) = Len(t) - 1 + d
    BY DEF Shifted
  <1>1. i \in 1 .. Len(t) - 1 /\ i \in Int /\ j \in 1 .. Len(s) /\ j \in Int
    BY <1>0, RunsInList DEF Deciding
  <1>2. j - d \in 1 .. Len(t) - 1 /\ i < j - d /\ At(j, j - d, d)
    BY <1>0, <1>1 DEF At
  <1>3. CASE j \in Stops(s)
    <2>1. j - d >= StopThreshold
      <3>1. CASE i \in Stops(t)
        <4>1. i >= StopThreshold
          BY <1>1, <3>1, DecidingShifts
        <4>. QED  BY <4>1, <1>0, <1>1, <1>2, Bounds
      <3>2. CASE i \in Starts(t)
        <4>1. e \in Starts(s)
          BY <1>1, <3>2, DecidingShifts
        <4>3. s[e] = TRUE
          BY <4>1, RunEnds, Zenon
        <4>4. \A q \in j - StopThreshold + 1 .. j : s[q] = FALSE
          BY <1>1, <1>3, StopCovers, Zenon
        <4>5. e \notin j - StopThreshold + 1 .. j
          BY <4>3, <4>4
        <4>. QED  BY <4>5, <1>0, <1>1, Bounds DEF At
      <3>. QED  BY <3>1, <3>2 DEF Deciding
    <2>2. j - d \in Stops(t)
      <3>. DEFINE p == j - d
      <3>1. p \in 1 .. Len(t) - 1 /\ p >= StopThreshold /\ At(j, p, d)
        BY <1>2, <2>1
      <3>. HIDE DEF p
      <3>2. p \in Stops(t)
        BY <1>1, <1>3, <3>1, DecidingShifts
      <3>. QED  BY <3>2 DEF p
    <2>. QED  BY <1>2, <2>2 DEF Deciding
  <1>4. CASE j \in Starts(s)
    <2>1. j - d >= StartThreshold
      <3>1. CASE i \in Starts(t)
        <4>1. i >= StartThreshold
          BY <1>1, <3>1, DecidingShifts
        <4>. QED  BY <4>1, <1>0, <1>1, <1>2, Bounds
      <3>2. CASE i \in Stops(t)
        <4>1. e \in Stops(s)
          BY <1>1, <3>2, DecidingShifts
        <4>3. s[e] = FALSE
          BY <4>1, RunEnds, Zenon
        <4>4. \A q \in j - StartThreshold + 1 .. j : s[q] = TRUE
          BY <1>1, <1>4, StartCovers, Zenon
        <4>5. e \notin j - StartThreshold + 1 .. j
          BY <4>3, <4>4
        <4>. QED  BY <4>5, <1>0, <1>1, Bounds DEF At
      <3>. QED  BY <3>1, <3>2 DEF Deciding
    <2>2. j - d \in Starts(t)
      <3>. DEFINE p == j - d
      <3>1. p \in 1 .. Len(t) - 1 /\ p >= StartThreshold /\ At(j, p, d)
        BY <1>2, <2>1
      <3>. HIDE DEF p
      <3>2. p \in Starts(t)
        BY <1>1, <1>4, <3>1, DecidingShifts
      <3>. QED  BY <3>2 DEF p
    <2>. QED  BY <1>2, <2>2 DEF Deciding
  <1>. QED  BY <1>3, <1>4 DEF Deciding

\* The last run that is left was the last one before.
LEMMA LastShifts ==
    ASSUME NEW s \in Seq(BOOLEAN), NEW t, NEW v, NEW d, Shifted(s, t, v, d),
           NEW n \in Int, n <= Len(s), NEW i, LastUpto(t, n - d, i), NEW e \in Int, At(e, i, d)
    PROVE  LastUpto(s, n, e) /\ (i \in Stops(t) <=> e \in Stops(s))
  <1>0. /\ t \in Seq(BOOLEAN) /\ Len(t) \in Nat /\ Len(s) \in Nat /\ d \in {0, 1} /\ d \in Int
        /\ Len(s) = Len(t) - 1 + d
    BY DEF Shifted
  <1>1. i \in Deciding(t) /\ i \in 1 .. Len(t) - 1 /\ i \in Int /\ i <= n - d
    BY <1>0, RunsInList DEF LastUpto, Deciding
  <1>2. /\ i \in Stops(t) => e \in Stops(s)
        /\ i \in Starts(t) => e \in Starts(s)
    BY <1>1, DecidingShifts
  <1>3. e \in Deciding(s) /\ e <= n
    BY <1>0, <1>1, <1>2 DEF Deciding, At
  <1>4. i \in Stops(t) <=> e \in Stops(s)
    BY <1>1, <1>2, OneWay DEF Deciding
  <1>5. ASSUME NEW j \in Deciding(s), j <= n PROVE j <= e
    <2>0. j \in Int
      BY RunsInList DEF Deciding
    <2>. SUFFICES ASSUME e < j PROVE FALSE
      BY <2>0
    <2>1. j - d \in Deciding(t) /\ i < j - d
      BY <1>1, LaterStays
    <2>2. j - d <= n - d /\ j - d \in Int
      BY <1>0, <1>5, <2>0
    <2>3. j - d <= i
      BY <2>1, <2>2 DEF LastUpto
    <2>. QED  BY <2>1, <2>2, <2>3, <1>1
  <1>. QED  BY <1>3, <1>4, <1>5 DEF LastUpto

\* Where a run decides, one is the last.
LEMMA HasLast ==
    ASSUME NEW s \in Seq(BOOLEAN), Deciding(s) # {}
    PROVE  \E i \in Deciding(s) : LastUpto(s, Len(s), i)
  <1>1. Len(s) \in Nat /\ Deciding(s) \in SUBSET (0 .. Len(s))
    BY RunsInList DEF Deciding
  <1>2. PICK i \in Deciding(s) : \A j \in Deciding(s) : j <= i
    BY <1>1, Greatest, Zenon
  <1>3. i <= Len(s)
    BY <1>1
  <1>. QED  BY <1>2, <1>3 DEF LastUpto

-----------------------------------------------------------------------------
(* The invariant: the flag agrees with the last run that the last check    *)
(* saw and that is still in the list.                                      *)

Agrees(s, n, flag) == \A i \in Deciding(s) : LastUpto(s, n, i) => flag = (i \in Stops(s))

MonitorInv == MonitorTypeOK /\ Agrees(snapshots, Len(snapshots) - beats, hbAlreadyStoped)

\* Down of a list and a flag.
DownOf(s, flag) == IF Deciding(s) = {} THEN flag ELSE LastStop(s)

\* It is a verdict.
LEMMA DownIsVerdict == ASSUME NEW s, NEW flag \in BOOLEAN PROVE DownOf(s, flag) \in BOOLEAN
  BY Zenon DEF DownOf, LastStop

\* Being in a set is equal to a verdict that is equivalent.
LEMMA SameVerdict == ASSUME NEW a \in BOOLEAN, NEW i, NEW S, a <=> i \in S PROVE a = (i \in S)
  OBVIOUS

\* It is what the last run says.
LEMMA DownIsLast ==
    ASSUME NEW s \in Seq(BOOLEAN), NEW flag, NEW i, LastUpto(s, Len(s), i)
    PROVE  DownOf(s, flag) = (i \in Stops(s))
  <1>0. Deciding(s) \subseteq 1 .. Len(s) /\ Len(s) \in Nat
    BY RunsInList DEF Deciding
  <1>1. i \in Deciding(s) /\ \A j \in Deciding(s) : j <= i
    BY <1>0 DEF LastUpto
  <1>2. \A x \in Deciding(s) : (\A j \in Deciding(s) : j <= x) => x = i
    BY <1>0, <1>1
  <1>3. LastStop(s) <=> i \in Stops(s)
    BY <1>1, <1>2 DEF LastStop, Deciding
  <1>4. LastStop(s) \in BOOLEAN
    BY DEF LastStop
  <1>5. LastStop(s) = (i \in Stops(s))
    BY <1>3, <1>4, SameVerdict, Zenon
  <1>6. DownOf(s, flag) = LastStop(s)
    BY <1>1 DEF DownOf
  <1>. QED  BY <1>5, <1>6

\* A heartbeat keeps the agreement.
LEMMA BeatAgrees ==
    ASSUME NEW s \in Seq(BOOLEAN), NEW t, NEW v, NEW d, Shifted(s, t, v, d),
           NEW b \in Nat, NEW flag, Agrees(s, Len(s) - b, flag)
    PROVE  Agrees(t, Len(t) - (b + 1), flag)
  <1>0. /\ t \in Seq(BOOLEAN) /\ Len(t) \in Nat /\ Len(s) \in Nat /\ d \in Int
        /\ Len(s) = Len(t) - 1 + d
    BY DEF Shifted
  <1>. SUFFICES ASSUME NEW i \in Deciding(t), LastUpto(t, Len(t) - (b + 1), i)
                PROVE  flag = (i \in Stops(t))
    BY DEF Agrees
  <1>. DEFINE n == Len(s) - b
              e == i + d
  <1>1. Len(t) - (b + 1) = n - d /\ n \in Int /\ n <= Len(s)
    BY <1>0
  <1>2. i \in Int
    BY <1>0, RunsInList DEF Deciding
  <1>3. e \in Int /\ At(e, i, d)
    BY <1>0, <1>2 DEF At
  <1>. HIDE DEF n, e
  <1>4. LastUpto(s, n, e) /\ (i \in Stops(t) <=> e \in Stops(s))
    BY <1>1, <1>3, LastShifts
  <1>5. flag = (e \in Stops(s))
    BY <1>4 DEF Agrees, LastUpto, n
  <1>. QED  BY <1>4, <1>5

\* The last run that decides is dropped only when a check has seen it.
LEMMA DroppedIsSeen ==
    ASSUME NEW s \in Seq(BOOLEAN), NEW t, NEW v, NEW d, Shifted(s, t, v, d), Deciding(t) = {},
           NEW b \in Nat, b + 1 <= MaxBeats, NEW j \in Deciding(s), LastUpto(s, Len(s), j)
    PROVE  LastUpto(s, Len(s) - b, j)
  <1>0. /\ t \in Seq(BOOLEAN) /\ Len(t) \in Nat /\ Len(s) \in Nat /\ d \in {0, 1} /\ d \in Int
        /\ Len(s) = Len(t) - 1 + d /\ (d = 1 => Len(s) = Cap) /\ Len(t) >= 1
    BY DEF Shifted
  <1>1. j \in 1 .. Len(s) /\ j \in Int
    BY RunsInList DEF Deciding
  <1>. DEFINE p == j - d
  <1>2. p \in Int /\ At(j, p, d) /\ (p >= 1 => p \in 1 .. Len(t) - 1)
    BY <1>0, <1>1 DEF At
  <1>3. p = j - d
    OBVIOUS
  <1>. HIDE DEF p
  <1>4. ASSUME j \in Stops(s) PROVE d = 1 /\ j <= StopThreshold
    <2>1. ~(p >= StopThreshold)
      BY <1>1, <1>2, <1>4, DecidingShifts, Bounds DEF Deciding
    <2>2. j \in StopThreshold .. Len(s)
      BY <1>1, <1>4, StopCovers, Zenon
    <2>. QED  BY <1>0, <1>1, <1>3, <2>1, <2>2, Bounds
  <1>5. ASSUME j \in Starts(s) PROVE d = 1 /\ j <= StartThreshold
    <2>1. ~(p >= StartThreshold)
      BY <1>1, <1>2, <1>5, DecidingShifts, Bounds DEF Deciding
    <2>2. j \in StartThreshold .. Len(s)
      BY <1>1, <1>5, StartCovers, Zenon
    <2>. QED  BY <1>0, <1>1, <1>3, <2>1, <2>2, Bounds
  <1>6. j <= Len(s) - b
    <2>1. CASE j \in Stops(s)
      BY <1>0, <1>1, <1>4, <2>1, Bounds
    <2>2. CASE j \in Starts(s)
      BY <1>0, <1>1, <1>5, <2>2, Bounds
    <2>. QED  BY <2>1, <2>2 DEF Deciding
  <1>7. ASSUME NEW i \in Deciding(s) PROVE i <= j
    <2>1. i <= Len(s)
      BY RunsInList DEF Deciding
    <2>. QED  BY <2>1 DEF LastUpto
  <1>. QED  BY <1>6, <1>7 DEF LastUpto

\* A heartbeat that completes no run leaves the verdict, ...
LEMMA QuietBeat ==
    ASSUME NEW s \in Seq(BOOLEAN), NEW t, NEW v, NEW d, Shifted(s, t, v, d), NEW flag,
           NEW b \in Nat, b + 1 <= MaxBeats, Agrees(s, Len(s) - b, flag),
           Len(t) \notin Deciding(t)
    PROVE  DownOf(t, flag) = DownOf(s, flag)
  <1>0. /\ t \in Seq(BOOLEAN) /\ Len(t) \in Nat /\ Len(s) \in Nat /\ d \in {0, 1} /\ d \in Int
        /\ Len(s) = Len(t) - 1 + d
    BY DEF Shifted
  <1>1. CASE Deciding(t) # {}
    <2>1. PICK i \in Deciding(t) : LastUpto(t, Len(t), i)
      BY <1>0, <1>1, HasLast
    <2>2. i \in 1 .. Len(t) /\ i # Len(t) /\ i \in Int
      BY <1>0, RunsInList DEF Deciding
    <2>3. LastUpto(t, Len(s) - d, i)
      <3>1. i <= Len(s) - d
        BY <1>0, <2>2
      <3>2. ASSUME NEW j \in Deciding(t) PROVE j <= i
        <4>1. j <= Len(t)
          BY <1>0, RunsInList DEF Deciding
        <4>. QED  BY <4>1, <2>1 DEF LastUpto
      <3>. QED  BY <3>1, <3>2 DEF LastUpto
    <2>. DEFINE e == i + d
    <2>4. e \in Int /\ At(e, i, d)
      BY <1>0, <2>2 DEF At
    <2>. HIDE DEF e
    <2>5. LastUpto(s, Len(s), e) /\ (i \in Stops(t) <=> e \in Stops(s))
      <3>1. Len(s) \in Int /\ Len(s) <= Len(s)
        BY <1>0
      <3>. QED  BY <2>3, <2>4, <3>1, LastShifts
    <2>6. DownOf(t, flag) = (i \in Stops(t))
      BY <1>0, <2>1, DownIsLast
    <2>7. DownOf(s, flag) = (e \in Stops(s))
      BY <2>5, DownIsLast
    <2>. QED  BY <2>5, <2>6, <2>7
  <1>2. CASE Deciding(t) = {} /\ Deciding(s) # {}
    <2>1. PICK j \in Deciding(s) : LastUpto(s, Len(s), j)
      BY <1>2, HasLast
    <2>2. LastUpto(s, Len(s) - b, j)
      BY <1>2, <2>1, DroppedIsSeen
    <2>3. flag = (j \in Stops(s))
      BY <2>2 DEF Agrees
    <2>4. DownOf(s, flag) = (j \in Stops(s))
      BY <2>1, DownIsLast
    <2>5. DownOf(t, flag) = flag
      BY <1>2 DEF DownOf
    <2>. QED  BY <2>3, <2>4, <2>5
  <1>3. CASE Deciding(t) = {} /\ Deciding(s) = {}
    BY <1>3 DEF DownOf
  <1>. QED  BY <1>1, <1>2, <1>3

\* ... and one that completes a run decides.
LEMMA BeatDecides ==
    ASSUME NEW t \in Seq(BOOLEAN), NEW flag, Len(t) \in Deciding(t)
    PROVE  DownOf(t, flag) = (Len(t) \in Stops(t))
  <1>1. Len(t) \in Nat /\ \A j \in Deciding(t) : j <= Len(t)
    BY RunsInList DEF Deciding
  <1>2. LastUpto(t, Len(t), Len(t))
    BY <1>1 DEF LastUpto
  <1>. QED  BY <1>2, DownIsLast

\* A check sets the flag to the verdict, and that is what the list then says.
LEMMA CheckSays ==
    ASSUME NEW s \in Seq(BOOLEAN), NEW flag \in BOOLEAN, NEW new,
           LET walk == ForeachReverse(s) IN
           new = ((walk.fail = StopThreshold /\ ~flag)
                  \/ (flag /\ ~(walk.succ = StartThreshold /\ flag)))
    PROVE  new = DownOf(s, flag) /\ DownOf(s, new) = DownOf(s, flag) /\ Agrees(s, Len(s), new)
  <1>. DEFINE walk == ForeachReverse(s)
  <1>1. CASE Deciding(s) = {} /\ walk.fail # StopThreshold /\ walk.succ # StartThreshold
    <2>1. new = flag
      BY <1>1
    <2>. QED  BY <1>1, <2>1 DEF DownOf, Agrees
  <1>2. ASSUME NEW i \in Deciding(s), \A j \in Deciding(s) : j <= i,
               new \in BOOLEAN, new <=> i \in Stops(s)
        PROVE  new = DownOf(s, flag) /\ DownOf(s, new) = DownOf(s, flag) /\ Agrees(s, Len(s), new)
    <2>0. Deciding(s) \subseteq 1 .. Len(s) /\ Len(s) \in Nat
      BY RunsInList DEF Deciding
    <2>a. new = (i \in Stops(s))
      BY <1>2, SameVerdict, Zenon
    <2>1. LastUpto(s, Len(s), i)
      BY <1>2, <2>0 DEF LastUpto
    <2>2. DownOf(s, flag) = (i \in Stops(s)) /\ DownOf(s, new) = (i \in Stops(s))
      BY <2>1, DownIsLast
    <2>3. ASSUME NEW j \in Deciding(s), LastUpto(s, Len(s), j) PROVE j = i
      <3>1. j <= i /\ i <= j /\ i \in Int /\ j \in Int
        BY <1>2, <2>0, <2>1, <2>3 DEF LastUpto
      <3>. QED  BY <3>1
    <2>4. Agrees(s, Len(s), new)
      BY <2>a, <2>3 DEF Agrees
    <2>. QED  BY <2>a, <2>2, <2>4
  <1>3. CASE EndsAtStop(s, walk)
    <2>1. PICK i \in Stops(s) : \A j \in Deciding(s) : j <= i
      BY <1>3 DEF EndsAtStop, LastStop
    <2>2. new = TRUE
      BY <1>3, Zenon DEF EndsAtStop
    <2>. QED  BY <1>2, <2>1, <2>2 DEF Deciding
  <1>4. CASE EndsAtStart(s, walk)
    <2>1. PICK i \in Starts(s) : \A j \in Deciding(s) : j <= i
      BY <1>4 DEF EndsAtStart, LastStart
    <2>2. new = FALSE
      BY <1>4, Zenon DEF EndsAtStart
    <2>3. i \in Deciding(s) /\ i \notin Stops(s)
      BY OneWay DEF Deciding
    <2>. QED  BY <1>2, <2>1, <2>2, <2>3
  <1>. QED  BY <1>1, <1>3, <1>4, WalkFinds

-----------------------------------------------------------------------------
(* The theorems.                                                           *)

\* DownOf is Down, before and after a step.
LEMMA DownIs == Down = DownOf(snapshots, hbAlreadyStoped) /\ Down' = DownOf(snapshots', hbAlreadyStoped')
  BY DEF Down, DownOf, LastStop, Deciding

\* At the start the list is empty.
LEMMA InitMonitor == MonitorInit => MonitorInv /\ Verdict!Init
  <1>. SUFFICES ASSUME MonitorInit PROVE MonitorInv /\ Verdict!Init
    OBVIOUS
  <1>1. /\ snapshots \in Seq(BOOLEAN) /\ Len(snapshots) = 0 /\ Len(snapshots) <= Cap
        /\ hbAlreadyStoped = FALSE /\ beats \in 0 .. MaxBeats
    BY Bounds DEF MonitorInit
  <1>2. Deciding(snapshots) = {}
    <2>1. 1 .. Len(snapshots) = {}
      BY <1>1
    <2>2. Stops(snapshots) \subseteq 1 .. Len(snapshots) /\ Starts(snapshots) \subseteq 1 .. Len(snapshots)
      BY <1>1, RunsInList, Zenon
    <2>. QED  BY <2>1, <2>2, Zenon DEF Deciding
  <1>3. MonitorInv
    BY <1>1, <1>2, Zenon DEF MonitorInv, MonitorTypeOK, Agrees
  <1>4. ASSUME NEW max \in Nat, NEW ok, max >= 1 PROVE Longest(snapshots, max, ok) = 0
    <2>1. IsLongest(snapshots, max, ok, 0)
      BY <1>1, <1>4 DEF IsLongest, EndsWith
    <2>. QED  BY <1>1, <2>1, LongestIs, Zenon
  <1>5. Longest(snapshots, StopThreshold, FALSE) = 0
    BY <1>4, Bounds, Zenon
  <1>6. Longest(snapshots, StartThreshold, TRUE) = 0
    BY <1>4, Bounds, Zenon
  <1>7. Down = FALSE
    BY <1>1, <1>2, DownIs DEF DownOf
  <1>. QED  BY <1>1, <1>3, <1>5, <1>6, <1>7, Zenon DEF Verdict!Init

\* A check announces the verdict.
LEMMA CheckAnnounces ==
    ASSUME MonitorInv, check
    PROVE  MonitorInv' /\ Verdict!Announce
  <1>0. /\ snapshots \in Seq(BOOLEAN) /\ Len(snapshots) <= Cap /\ Len(snapshots) \in Nat
        /\ hbAlreadyStoped \in BOOLEAN /\ UNCHANGED snapshots /\ beats' = 0
    BY DEF MonitorInv, MonitorTypeOK, check
  <1>1. /\ hbAlreadyStoped' = DownOf(snapshots, hbAlreadyStoped)
        /\ DownOf(snapshots, hbAlreadyStoped') = DownOf(snapshots, hbAlreadyStoped)
        /\ Agrees(snapshots, Len(snapshots), hbAlreadyStoped')
    <2>1. LET walk == ForeachReverse(snapshots) IN
          hbAlreadyStoped' = ((walk.fail = StopThreshold /\ ~hbAlreadyStoped)
             \/ (hbAlreadyStoped /\ ~(walk.succ = StartThreshold /\ hbAlreadyStoped)))
      BY DEF check
    <2>. QED  BY <1>0, <2>1, CheckSays
  <1>2. hbAlreadyStoped' \in BOOLEAN
    BY DEF check
  <1>3. Len(snapshots) - 0 = Len(snapshots) /\ 0 \in 0 .. MaxBeats
    BY <1>0, Bounds
  <1>4. MonitorInv'
    BY <1>0, <1>1, <1>2, <1>3 DEF MonitorInv, MonitorTypeOK
  <1>5. /\ UNCHANGED <<Longest(snapshots, StopThreshold, FALSE), Longest(snapshots, StartThreshold, TRUE)>>
        /\ hbAlreadyStoped' = Down /\ Down' = Down
    BY <1>0, <1>1, DownIs
  <1>. QED  BY <1>4, <1>5, Zenon DEF Verdict!Announce

\* A heartbeat counts for the verdict.
LEMMA BeatCounts ==
    ASSUME MonitorInv, NEW success \in BOOLEAN, sendHeartbeat(success)
    PROVE  MonitorInv' /\ Verdict!Beat(success)
  <1>. DEFINE s == snapshots
              t == snapshots'
              flag == hbAlreadyStoped
              b == beats
  <1>0. /\ s \in Seq(BOOLEAN) /\ Len(s) <= Cap /\ flag \in BOOLEAN /\ b \in Nat /\ b + 1 <= MaxBeats
        /\ Agrees(s, Len(s) - b, flag) /\ beats' = b + 1 /\ hbAlreadyStoped' = flag
        /\ t = Put(s, success)
    BY Bounds DEF MonitorInv, MonitorTypeOK, sendHeartbeat
  <1>1. PICK d \in {0, 1} : Shifted(s, t, success, d)
    BY <1>0, PutShifts
  <1>2. t \in Seq(BOOLEAN) /\ Len(t) \in 1 .. Cap
    BY <1>1 DEF Shifted
  <1>a. Down = DownOf(s, flag) /\ Down' = DownOf(t, flag)
    BY <1>0, DownIs
  <1>3. Agrees(t, Len(t) - (b + 1), flag)
    <2>. HIDE DEF s, t, flag, b
    <2>. QED  BY <1>0, <1>1, BeatAgrees, Zenon
  <1>4. MonitorInv'
    BY <1>0, <1>2, <1>3, Bounds DEF MonitorInv, MonitorTypeOK
  <1>. DEFINE f == Longest(t, StopThreshold, FALSE)
              c == Longest(t, StartThreshold, TRUE)
  <1>. HIDE DEF s, t, flag, b
  <1>5. /\ f = IF success THEN 0 ELSE AtMost(Longest(s, StopThreshold, FALSE) + 1, StopThreshold)
        /\ c = IF success THEN AtMost(Longest(s, StartThreshold, TRUE) + 1, StartThreshold) ELSE 0
    <2>0. s \in Seq(BOOLEAN) /\ StopThreshold \in 1 .. Cap /\ StartThreshold \in 1 .. Cap
      BY <1>0, Bounds
    <2>a. ASSUME NEW max \in 1 .. Cap, NEW ok \in BOOLEAN
          PROVE  /\ success = ok => Longest(t, max, ok) = AtMost(Longest(s, max, ok) + 1, max)
                 /\ success # ok => Longest(t, max, ok) = 0
      BY <1>1, <2>0, LongestAfter
    <2>1. /\ success = FALSE => f = AtMost(Longest(s, StopThreshold, FALSE) + 1, StopThreshold)
          /\ success # FALSE => f = 0
      BY <2>0, <2>a, Zenon DEF f
    <2>2. /\ success = TRUE => c = AtMost(Longest(s, StartThreshold, TRUE) + 1, StartThreshold)
          /\ success # TRUE => c = 0
      BY <2>0, <2>a, Zenon DEF c
    <2>. QED  BY <2>1, <2>2, Zenon
  <1>6. f = StopThreshold <=> Len(t) \in Stops(t)
    BY <1>2, LongestDecides, Bounds, Zenon DEF f, Stops
  <1>7. c < StartThreshold <=> Len(t) \notin Starts(t)
    <2>1. c = StartThreshold <=> Len(t) \in Starts(t)
      BY <1>2, LongestDecides, Bounds, Zenon DEF c, Starts
    <2>3. IsLongest(t, StartThreshold, TRUE, c)
      BY <1>2, LongestExists, Bounds, Zenon DEF c
    <2>2. c \in 0 .. StartThreshold
      BY <2>3, Zenon DEF IsLongest
    <2>. HIDE DEF c
    <2>. QED  BY <2>1, <2>2, Bounds
  <1>8. DownOf(t, flag) <=> f = StopThreshold \/ (DownOf(s, flag) /\ c < StartThreshold)
    <2>1. CASE Len(t) \in Deciding(t)
      <3>1. DownOf(t, flag) = (Len(t) \in Stops(t))
        BY <1>2, <2>1, BeatDecides
      <3>2. Len(t) \in Stops(t) \/ Len(t) \in Starts(t)
        BY <2>1 DEF Deciding
      <3>. QED  BY <1>6, <1>7, <3>1, <3>2, Zenon
    <2>2. CASE Len(t) \notin Deciding(t)
      <3>1. DownOf(t, flag) = DownOf(s, flag)
        BY <1>0, <1>1, <2>2, QuietBeat, Zenon
      <3>2. Len(t) \notin Stops(t) /\ Len(t) \notin Starts(t)
        BY <2>2 DEF Deciding
      <3>. QED  BY <1>6, <1>7, <3>1, <3>2, Zenon
    <2>. QED  BY <2>1, <2>2, Zenon
  <1>9. Down \in BOOLEAN /\ Down' \in BOOLEAN
    <2>1. DownOf(s, flag) \in BOOLEAN /\ DownOf(t, flag) \in BOOLEAN
      BY <1>0, DownIsVerdict
    <2>. QED  BY <1>a, <2>1
  <1>. QED
    <2>1. hbAlreadyStoped' = hbAlreadyStoped
      BY <1>0 DEF flag
    <2>. QED  BY <1>4, <1>5, <1>8, <1>9, <1>a, <2>1, Zenon DEF Verdict!Beat, Verdict!AtMost, AtMost, s, t, f, c

\* Every step of the monitor is one of the verdict, or leaves it.
LEMMA NextMonitor ==
    ASSUME MonitorInv, [MonitorNext]_monitorVars
    PROVE  MonitorInv' /\ [Verdict!Next]_Verdict!vars
  <1>1. CASE check
    BY <1>1, CheckAnnounces DEF Verdict!Next
  <1>2. CASE Beat
    BY <1>2, BeatCounts DEF Beat, Verdict!Next
  <1>3. CASE UNCHANGED monitorVars
    BY <1>3, DownIs DEF monitorVars, Verdict!vars, MonitorInv, MonitorTypeOK
  <1>. QED  BY <1>1, <1>2, <1>3 DEF MonitorNext

\* The list never outgrows its capacity.
THEOREM MonitorTypes == MonitorSpec => []MonitorTypeOK
  <1>1. MonitorInv => MonitorTypeOK
    BY DEF MonitorInv
  <1>. QED  BY <1>1, InitMonitor, NextMonitor, PTL DEF MonitorSpec

\* For every capacity and thresholds that leave room for the heartbeats between two checks, a
\* check announces what the whole history of heartbeats says: checkHeartBeat, walking back over
\* the bounded list, stops at the run that counts, and LimitedList.Put drops no run that a
\* check has not seen.
THEOREM MonitorImplementsVerdict == MonitorSpec => ImplementsVerdict
  <1>. QED  BY InitMonitor, NextMonitor, PTL DEF MonitorSpec, ImplementsVerdict, Verdict!Spec

-----------------------------------------------------------------------------
(* Loops.                                                                  *)

\* f has the values after each turn of a loop of n turns over values in V, that starts
\* with base, and whose turn number i is the function g[i].
IsLoop(f, n, V, base, g) ==
    /\ f \in [0 .. n -> V]
    /\ f[0] = base
    /\ \A i \in 1 .. n : f[i] = g[i][f[i - 1]]

\* There is such an f.
LEMMA LoopDefined ==
    ASSUME NEW n \in Nat, NEW V, NEW base \in V, NEW g \in [1 .. n -> [V -> V]]
    PROVE  \E f : IsLoop(f, n, V, base, g)
  <1>. DEFINE S == {m \in Nat : \E f : IsLoop(f, m, V, base, g)}
  <1>1. 0 \in S
    <2>1. IsLoop([i \in 0 .. 0 |-> base], 0, V, base, g)
      BY DEF IsLoop
    <2>. QED  BY <2>1
  <1>2. ASSUME NEW m \in 0 .. n - 1, m \in S PROVE m + 1 \in S
    <2>1. PICK f : IsLoop(f, m, V, base, g)
      BY <1>2
    <2>. DEFINE x == g[m + 1][f[m]]
                h == [i \in 0 .. m + 1 |-> IF i = m + 1 THEN x ELSE f[i]]
    <2>2. m \in 0 .. m /\ m + 1 \in 1 .. n /\ f[m] \in V
      BY <2>1 DEF IsLoop
    <2>3. x \in V
      BY <2>2
    <2>. HIDE DEF x
    <2>4. h \in [0 .. m + 1 -> V]
      BY <2>1, <2>3 DEF IsLoop
    <2>5. h[m + 1] = x /\ \A i \in 0 .. m : h[i] = f[i]
      OBVIOUS
    <2>. HIDE DEF h
    <2>6. ASSUME NEW i \in 1 .. m + 1 PROVE h[i] = g[i][h[i - 1]]
      <3>1. CASE i = m + 1
        <4>1. i - 1 = m /\ h[m] = f[m]
          BY <3>1, <2>2, <2>5
        <4>. QED  BY <3>1, <4>1, <2>5 DEF x
      <3>2. CASE i # m + 1
        <4>1. i \in 1 .. m /\ i \in 0 .. m /\ i - 1 \in 0 .. m
          BY <3>2
        <4>. QED  BY <4>1, <2>1, <2>5 DEF IsLoop
      <3>. QED  BY <3>1, <3>2
    <2>7. h[0] = base
      BY <2>1, <2>5 DEF IsLoop
    <2>8. IsLoop(h, m + 1, V, base, g)
      BY <2>4, <2>6, <2>7 DEF IsLoop
    <2>9. m + 1 \in Nat
      OBVIOUS
    <2>. QED  BY <2>8, <2>9
  <1>3. n \in S
    <2>. HIDE DEF S
    <2>1. 0 .. n \subseteq S
      BY <1>1, <1>2, Upwards, Zenon
    <2>. QED  BY <2>1
  <1>. QED  BY <1>3

\* Lines that return a version.
Returning(lines, labels) ==
    {i \in DOMAIN lines : lines[i].label \in labels /\ lines[i].colons = 1 /\ lines[i].words # <<>>}

\* A pass has a value after each of its turns, and returns the last one.
LEMMA PassTurns ==
    ASSUME NEW lines \in Seq(VersionLine), NEW labels
    PROVE  \E f : /\ f[0] = <<>>
                  /\ \A i \in 1 .. Len(lines) : f[i] = PassTurn(f[i - 1], lines[i], labels)
                  /\ Pass(lines, labels) = f[Len(lines)]
  <1>. DEFINE n == Len(lines)
              base == <<>>
              V == {<<>>} \cup {LineVersion(lines[i]) : i \in 1 .. n}
              g == [i \in 1 .. n |-> [v \in V |-> PassTurn(v, lines[i], labels)]]
              Body(f) == [i \in 0 .. n |-> IF i = 0 THEN <<>> ELSE PassTurn(f[i - 1], lines[i], labels)]
              F == CHOOSE f : f = Body(f)
  <1>0. n \in Nat
    OBVIOUS
  <1>1. g \in [1 .. n -> [V -> V]]
    <2>1. ASSUME NEW i \in 1 .. n, NEW v \in V PROVE PassTurn(v, lines[i], labels) \in V
      BY DEF PassTurn
    <2>. QED  BY <2>1
  <1>2. base \in V
    OBVIOUS
  <1>3. PICK f : IsLoop(f, n, V, base, g)
    <2>. HIDE DEF n, V, g, base
    <2>. QED  BY <1>0, <1>1, <1>2, LoopDefined
  <1>4. \A i \in 1 .. n : f[i] = PassTurn(f[i - 1], lines[i], labels)
    <2>. HIDE DEF V
    <2>1. \A i \in 1 .. n : f[i - 1] \in V
      BY <1>0, <1>3 DEF IsLoop
    <2>. QED  BY <1>3, <2>1 DEF IsLoop
  <1>5. f = Body(f)
    <2>. HIDE DEF V
    <2>. QED  BY <1>0, <1>3, <1>4 DEF IsLoop
  <1>6. F = Body(F)
    BY <1>5, Zenon
  <1>7. \A i \in 0 .. n : F[i] = IF i = 0 THEN <<>> ELSE PassTurn(F[i - 1], lines[i], labels)
    <2>. HIDE DEF F
    <2>. QED  BY <1>6, Zenon
  <1>8. Pass(lines, labels) = F[Len(lines)]
    BY Zenon DEF Pass
  <1>9. F[0] = <<>> /\ \A i \in 1 .. Len(lines) : F[i] = PassTurn(F[i - 1], lines[i], labels)
    <2>. HIDE DEF F
    <2>. QED  BY <1>0, <1>7
  <1>. HIDE DEF F
  <1>. QED  BY <1>8, <1>9, Zenon

\* A version is told from an error.
LEMMA OneIsSome == ASSUME NEW x PROVE <<x>> # <<>>
  <1>1. Len(<<x>>) = 1 /\ Len(<<>>) = 0
    OBVIOUS
  <1>. QED  BY <1>1

\* What a pass that returns at the lines R has after k turns: nothing, and none of R is
\* up to k, or the version of the first of them.
Passed(lines, R, k, v) ==
    \/ v = <<>> /\ \A i \in R : i > k
    \/ \E p \in R : p <= k /\ IsFirst(p, R) /\ v = <<lines[p].words[1]>>

\* A pass returns the version of the first line that has one under its labels.
LEMMA PassFinds ==
    ASSUME NEW lines \in Seq(VersionLine), NEW labels
    PROVE  LET R == Returning(lines, labels) IN
           \/ R = {} /\ Pass(lines, labels) = <<>>
           \/ \E p \in R : IsFirst(p, R) /\ Pass(lines, labels) = <<lines[p].words[1]>>
  <1>. DEFINE n == Len(lines)
              R == Returning(lines, labels)
  <1>0. n \in Nat /\ R \subseteq 1 .. n
    BY DEF Returning
  <1>1. PICK f : /\ f[0] = <<>>
                 /\ \A i \in 1 .. n : f[i] = PassTurn(f[i - 1], lines[i], labels)
                 /\ Pass(lines, labels) = f[n]
    BY PassTurns
  <1>. DEFINE S == {k \in Nat : Passed(lines, R, k, f[k])}
  <1>2. 0 \in S
    BY <1>0, <1>1 DEF Passed
  <1>3. ASSUME NEW k \in 0 .. n - 1, k \in S PROVE k + 1 \in S
    <2>1. k + 1 \in 1 .. n /\ (k + 1) - 1 = k /\ k + 1 \in Nat
      BY <1>0
    <2>2. f[k + 1] = PassTurn(f[k], lines[k + 1], labels)
      BY <1>1, <2>1
    <2>. DEFINE m == k + 1
    <2>3. m \in 1 .. n /\ m > k /\ \A i \in R : i > k => m <= i
      BY <1>0
    <2>4. f[m] = PassTurn(f[k], lines[m], labels)
      BY <2>2
    <2>. HIDE DEF m, n, R
    <2>5. ASSUME f[k] = <<>>, \A i \in R : i > k PROVE Passed(lines, R, m, f[m])
      <3>1. CASE m \in R
        <4>1. f[m] = <<lines[m].words[1]>>
          BY <2>4, <2>5, <3>1 DEF PassTurn, LineVersion, Returning, R
        <4>2. IsFirst(m, R) /\ m <= m
          BY <2>3, <2>5, <3>1 DEF IsFirst, n
        <4>. QED  BY <3>1, <4>1, <4>2 DEF Passed
      <3>2. CASE m \notin R
        <4>1. f[m] = <<>>
          BY <2>3, <2>4, <2>5, <3>2 DEF PassTurn, LineVersion, Returning, n, R
        <4>2. \A i \in R : i > m
          BY <1>0, <2>3, <2>5, <3>2
        <4>. QED  BY <4>1, <4>2 DEF Passed
      <3>. QED  BY <3>1, <3>2
    <2>6. ASSUME NEW p \in R, p <= k, IsFirst(p, R), f[k] = <<lines[p].words[1]>>
          PROVE  Passed(lines, R, m, f[m])
      <3>1. f[m] = f[k]
        BY <2>4, <2>6 DEF PassTurn
      <3>2. p <= m
        BY <1>0, <2>3, <2>6
      <3>. QED  BY <2>6, <3>1, <3>2 DEF Passed
    <2>7. Passed(lines, R, m, f[m])
      BY <1>3, <2>5, <2>6 DEF Passed
    <2>. QED  BY <2>1, <2>7 DEF m
  <1>4. n \in S
    <2>. HIDE DEF S, n
    <2>1. 0 .. n \subseteq S
      BY <1>0, <1>2, <1>3, Upwards
    <2>. QED  BY <1>0, <2>1
  <1>5. Passed(lines, R, n, f[n])
    BY <1>4
  <1>6. \A i \in R : ~(i > n)
    BY <1>0
  <1>. HIDE DEF n, R
  <1>7. \/ R = {} /\ Pass(lines, labels) = <<>>
        \/ \E p \in R : IsFirst(p, R) /\ Pass(lines, labels) = <<lines[p].words[1]>>
    BY <1>1, <1>5, <1>6 DEF Passed
  <1>. QED  BY <1>7 DEF R

\* The version of blade is the one that is stated, for any output.
LEMMA VersionFound ==
    ASSUME NEW lines \in Seq(VersionLine)
    PROVE  IsVersionOf(parseVersionFromOutput(lines), lines)
  <1>. DEFINE first  == Pass(lines, {"exact"})
              second == Pass(lines, {"exact", "fold"})
              exact  == Stating(lines, "exact")
              fold   == Stating(lines, "fold")
              v      == parseVersionFromOutput(lines)
  <1>1. Returning(lines, {"exact"}) = exact
    BY DEF Returning, Stating
  <1>2. exact = {} => Returning(lines, {"exact", "fold"}) = fold
    BY DEF Returning, Stating
  <1>3. CASE exact # {}
    <2>1. PICK p \in exact : IsFirst(p, exact) /\ first = <<lines[p].words[1]>>
      BY <1>1, <1>3, PassFinds
    <2>0. first # <<>>
      BY <2>1, OneIsSome, Zenon
    <2>2. v = first
      BY <2>0 DEF parseVersionFromOutput
    <2>. QED  BY <1>3, <2>1, <2>2 DEF IsVersionOf, IsFirst
  <1>4. CASE exact = {}
    <2>1. first = <<>>
      BY <1>1, <1>4, PassFinds
    <2>2. CASE fold # {}
      <3>1. PICK p \in fold : IsFirst(p, fold) /\ second = <<lines[p].words[1]>>
        BY <1>2, <1>4, <2>2, PassFinds
      <3>0. second # <<>>
        BY <3>1, OneIsSome, Zenon
      <3>2. v = second
        BY <2>1, <3>0 DEF parseVersionFromOutput
      <3>. QED  BY <1>4, <2>2, <3>1, <3>2 DEF IsVersionOf, IsFirst
    <2>3. CASE fold = {}
      <3>1. second = <<>>
        BY <1>2, <1>4, <2>3, PassFinds
      <3>2. v = NoVersionFound
        BY <2>1, <3>1 DEF parseVersionFromOutput
      <3>. QED  BY <1>4, <2>3, <3>2 DEF IsVersionOf
    <2>. QED  BY <2>2, <2>3
  <1>. QED  BY <1>3, <1>4

-----------------------------------------------------------------------------
(* The state of a pod.                                                     *)

\* The loop over the init containers has a reason after each of its turns.
LEMMA InitTurns ==
    ASSUME NEW pod, pod.inits \in Seq(InitStates), NEW reason
    PROVE  \E f : /\ f[0] = reason
                  /\ \A i \in 1 .. Len(pod.inits) : f[i] = InitTurn(f[i - 1], pod.inits[i], i)
                  /\ initReason(pod, reason) = f[Len(pod.inits)]
  <1>. DEFINE items == pod.inits
              n == Len(items)
              V == {reason} \cup {InitReason("count", i - 1) : i \in 1 .. n}
                     \cup {InitReason(items[i], 0) : i \in 1 .. n}
              g == [i \in 1 .. n |-> [v \in V |-> InitTurn(v, items[i], i)]]
              Body(f) == [i \in 0 .. n |-> IF i = 0 THEN reason ELSE InitTurn(f[i - 1], items[i], i)]
              F == CHOOSE f : f = Body(f)
  <1>0. n \in Nat
    OBVIOUS
  <1>1. g \in [1 .. n -> [V -> V]]
    <2>1. ASSUME NEW i \in 1 .. n, NEW v \in V PROVE InitTurn(v, items[i], i) \in V
      BY DEF InitTurn
    <2>. QED  BY <2>1
  <1>2. reason \in V
    OBVIOUS
  <1>3. PICK f : IsLoop(f, n, V, reason, g)
    <2>. HIDE DEF n, V, g
    <2>. QED  BY <1>0, <1>1, <1>2, LoopDefined
  <1>4. \A i \in 1 .. n : f[i] = InitTurn(f[i - 1], items[i], i)
    <2>. HIDE DEF V
    <2>1. \A i \in 1 .. n : f[i - 1] \in V
      BY <1>0, <1>3 DEF IsLoop
    <2>. QED  BY <1>3, <2>1, Zenon DEF IsLoop
  <1>5. f = Body(f)
    <2>. HIDE DEF V
    <2>. QED  BY <1>0, <1>3, <1>4 DEF IsLoop
  <1>6. F = Body(F)
    BY <1>5, Zenon
  <1>7. \A i \in 0 .. n : F[i] = IF i = 0 THEN reason ELSE InitTurn(F[i - 1], items[i], i)
    <2>. HIDE DEF F
    <2>. QED  BY <1>6, Zenon
  <1>8. initReason(pod, reason) = F[Len(pod.inits)]
    BY Zenon DEF initReason
  <1>9. F[0] = reason /\ \A i \in 1 .. Len(pod.inits) : F[i] = InitTurn(F[i - 1], pod.inits[i], i)
    <2>. HIDE DEF F
    <2>. QED  BY <1>0, <1>7
  <1>. HIDE DEF F
  <1>. QED  BY <1>8, <1>9, Zenon

\* The loop over the containers has a reason after each of its turns.
LEMMA ContainerTurns ==
    ASSUME NEW pod, pod.containers \in Seq(States), NEW reason
    PROVE  \E f : /\ f[0] = reason
                  /\ \A i \in 1 .. Len(pod.containers) :
                        f[i] = Turn(f[i - 1], pod.containers[Len(pod.containers) + 1 - i])
                  /\ containerReason(pod, reason) = f[Len(pod.containers)]
  <1>. DEFINE items == pod.containers
              n == Len(items)
              V == {reason} \cup {Reason(items[n + 1 - i]) : i \in 1 .. n}
              g == [i \in 1 .. n |-> [v \in V |-> Turn(v, items[n + 1 - i])]]
              Body(f) == [i \in 0 .. n |-> IF i = 0 THEN reason ELSE Turn(f[i - 1], items[n + 1 - i])]
              F == CHOOSE f : f = Body(f)
  <1>0. n \in Nat
    OBVIOUS
  <1>1. g \in [1 .. n -> [V -> V]]
    <2>1. ASSUME NEW i \in 1 .. n, NEW v \in V PROVE Turn(v, items[n + 1 - i]) \in V
      BY DEF Turn
    <2>. QED  BY <2>1, Zenon
  <1>2. reason \in V
    OBVIOUS
  <1>3. PICK f : IsLoop(f, n, V, reason, g)
    <2>. HIDE DEF n, V, g
    <2>. QED  BY <1>0, <1>1, <1>2, LoopDefined
  <1>4. \A i \in 1 .. n : f[i] = Turn(f[i - 1], items[n + 1 - i])
    <2>. HIDE DEF V
    <2>1. \A i \in 1 .. n : f[i - 1] \in V
      BY <1>0, <1>3 DEF IsLoop
    <2>. QED  BY <1>3, <2>1, Zenon DEF IsLoop
  <1>5. f = Body(f)
    <2>. HIDE DEF V
    <2>. QED  BY <1>0, <1>3, <1>4 DEF IsLoop
  <1>6. F = Body(F)
    BY <1>5, Zenon
  <1>7. \A i \in 0 .. n : F[i] = IF i = 0 THEN reason ELSE Turn(F[i - 1], items[n + 1 - i])
    <2>. HIDE DEF F
    <2>. QED  BY <1>6, Zenon
  <1>8. containerReason(pod, reason) = F[Len(pod.containers)]
    BY Zenon DEF containerReason
  <1>9. /\ F[0] = reason
        /\ \A i \in 1 .. Len(pod.containers) :
              F[i] = Turn(F[i - 1], pod.containers[Len(pod.containers) + 1 - i])
    <2>. HIDE DEF F
    <2>. QED  BY <1>0, <1>7
  <1>. HIDE DEF F
  <1>. QED  BY <1>8, <1>9, Zenon

\* The reason that an init container with number i gives.
InitGiven(container, i) ==
    IF container \in {"PodInitializing", "other"} THEN InitReason("count", i - 1)
    ELSE InitReason(container, 0)

\* What the loop over the init containers has after k turns, P being those not done.
InitSeen(pod, P, reason, k, v) ==
    \/ v = reason /\ \A i \in P : i > k
    \/ \E p \in P : p <= k /\ IsFirst(p, P) /\ v = InitGiven(pod.inits[p], p)

\* The first init container that has not succeeded gives the reason.
LEMMA InitFinds ==
    ASSUME NEW pod, pod.inits \in Seq(InitStates), NEW reason, reason.init = FALSE
    PROVE  \/ Unfinished(pod) = {} /\ initReason(pod, reason) = reason
           \/ \E p \in Unfinished(pod) : /\ IsFirst(p, Unfinished(pod))
                                      /\ initReason(pod, reason) = InitGiven(pod.inits[p], p)
  <1>. DEFINE n == Len(pod.inits)
              P == Unfinished(pod)
  <1>0. n \in Nat /\ P \subseteq 1 .. n
    BY DEF Unfinished
  <1>1. PICK f : /\ f[0] = reason
                 /\ \A i \in 1 .. n : f[i] = InitTurn(f[i - 1], pod.inits[i], i)
                 /\ initReason(pod, reason) = f[n]
    BY InitTurns
  <1>. DEFINE S == {k \in Nat : InitSeen(pod, P, reason, k, f[k])}
  <1>2. 0 \in S
    BY <1>0, <1>1 DEF InitSeen
  <1>3. ASSUME NEW k \in 0 .. n - 1, k \in S PROVE k + 1 \in S
    <2>1. k + 1 \in 1 .. n /\ (k + 1) - 1 = k /\ k + 1 \in Nat
      BY <1>0
    <2>. DEFINE m == k + 1
    <2>2. f[m] = InitTurn(f[k], pod.inits[m], m)
      BY <1>1, <2>1
    <2>3. m \in 1 .. n /\ m > k /\ \A i \in P : i > k => m <= i
      BY <1>0
    <2>4. m \in P <=> pod.inits[m] # "succeeded"
      BY <2>3 DEF Unfinished
    <2>. HIDE DEF m, n, P
    <2>5. ASSUME f[k] = reason, \A i \in P : i > k PROVE InitSeen(pod, P, reason, m, f[m])
      <3>1. CASE m \in P
        <4>1. f[m] = InitGiven(pod.inits[m], m)
          BY <2>2, <2>4, <2>5, <3>1 DEF InitTurn, InitGiven
        <4>2. IsFirst(m, P) /\ m <= m
          BY <2>3, <2>5, <3>1 DEF IsFirst, n
        <4>. QED  BY <3>1, <4>1, <4>2 DEF InitSeen
      <3>2. CASE m \notin P
        <4>1. f[m] = reason
          BY <2>2, <2>4, <2>5, <3>2 DEF InitTurn
        <4>2. \A i \in P : i > m
          BY <1>0, <2>3, <2>5, <3>2
        <4>. QED  BY <4>1, <4>2 DEF InitSeen
      <3>. QED  BY <3>1, <3>2
    <2>6. ASSUME NEW p \in P, p <= k, IsFirst(p, P), f[k] = InitGiven(pod.inits[p], p)
          PROVE  InitSeen(pod, P, reason, m, f[m])
      <3>1. f[k].init = TRUE
        BY <2>6 DEF InitGiven, InitReason
      <3>2. f[m] = f[k]
        BY <2>2, <3>1 DEF InitTurn
      <3>3. p <= m
        BY <1>0, <2>3, <2>6
      <3>. QED  BY <2>6, <3>2, <3>3 DEF InitSeen
    <2>7. InitSeen(pod, P, reason, m, f[m])
      BY <1>3, <2>5, <2>6 DEF InitSeen
    <2>. QED  BY <2>1, <2>7 DEF m
  <1>4. n \in S
    <2>. HIDE DEF S, n
    <2>1. 0 .. n \subseteq S
      BY <1>0, <1>2, <1>3, Upwards
    <2>. QED  BY <1>0, <2>1
  <1>5. InitSeen(pod, P, reason, n, f[n])
    BY <1>4
  <1>6. \A i \in P : ~(i > n)
    BY <1>0
  <1>. HIDE DEF n, P
  <1>7. \/ P = {} /\ initReason(pod, reason) = reason
        \/ \E p \in P : IsFirst(p, P) /\ initReason(pod, reason) = InitGiven(pod.inits[p], p)
    BY <1>1, <1>5, <1>6 DEF InitSeen
  <1>. QED  BY <1>7 DEF P

\* What the loop over the containers has when it has visited those from number k on, R
\* being those with a reason.
ContainersSeen(pod, R, reason, k, v) ==
    \/ v = reason /\ \A i \in R : i < k
    \/ \E p \in R : p >= k /\ (\A j \in R : j >= k => p <= j) /\ v = Reason(pod.containers[p])

\* The loop goes backwards, so that the first container with a reason has the last word.
LEMMA ContainerFinds ==
    ASSUME NEW pod, pod.containers \in Seq(States), NEW reason
    PROVE  \/ Reporting(pod) = {} /\ containerReason(pod, reason) = reason
           \/ \E p \in Reporting(pod) : /\ IsFirst(p, Reporting(pod))
                                        /\ containerReason(pod, reason) = Reason(pod.containers[p])
  <1>. DEFINE n == Len(pod.containers)
              R == Reporting(pod)
  <1>0. n \in Nat /\ R \subseteq 1 .. n
    BY DEF Reporting
  <1>1. PICK f : /\ f[0] = reason
                 /\ \A i \in 1 .. n : f[i] = Turn(f[i - 1], pod.containers[n + 1 - i])
                 /\ containerReason(pod, reason) = f[n]
    BY ContainerTurns
  <1>. DEFINE S == {k \in Nat : ContainersSeen(pod, R, reason, n + 1 - k, f[k])}
  <1>2. 0 \in S
    BY <1>0, <1>1 DEF ContainersSeen
  <1>3. ASSUME NEW k \in 0 .. n - 1, k \in S PROVE k + 1 \in S
    <2>1. k + 1 \in 1 .. n /\ (k + 1) - 1 = k /\ k + 1 \in Nat
      BY <1>0
    <2>. DEFINE a == n + 1 - k
                b == n + 1 - (k + 1)
                w == f[k + 1]
    <2>2. w = Turn(f[k], pod.containers[b])
      BY <1>1, <2>1
    <2>3. b \in 1 .. n /\ \A i \in 1 .. n : (i < a <=> i <= b) /\ (i >= a <=> i > b)
      <3>. HIDE DEF n
      <3>1. k \in Nat /\ k <= n - 1
        BY <1>0, <1>3
      <3>. QED  BY <1>0, <3>1
    <2>4. b \in R <=> pod.containers[b] \notin {"ready", "other"}
      <3>. HIDE DEF b
      <3>. QED  BY <2>3 DEF Reporting
    <2>5. ContainersSeen(pod, R, reason, a, f[k])
      BY <1>3
    <2>. HIDE DEF a, b, w, n, R
    <2>6. CASE b \in R
      <3>1. w = Reason(pod.containers[b])
        BY <2>2, <2>4, <2>6 DEF Turn
      <3>2. b >= b /\ \A j \in R : j >= b => b <= j
        BY <1>0, <2>3
      <3>3. ContainersSeen(pod, R, reason, b, w)
        BY <2>6, <3>1, <3>2 DEF ContainersSeen
      <3>. QED  BY <2>1, <3>3 DEF b, w
    <2>7. CASE b \notin R
      <3>1. w = f[k]
        BY <2>2, <2>4, <2>7 DEF Turn
      <3>2. \A i \in R : (i < a <=> i < b) /\ (i >= a <=> i >= b)
        BY <1>0, <2>3, <2>7
      <3>3. ContainersSeen(pod, R, reason, b, w)
        BY <2>5, <3>1, <3>2 DEF ContainersSeen
      <3>. QED  BY <2>1, <3>3 DEF b, w
    <2>. QED  BY <2>6, <2>7
  <1>4. n \in S
    <2>. HIDE DEF S, n
    <2>1. 0 .. n \subseteq S
      BY <1>0, <1>2, <1>3, Upwards
    <2>. QED  BY <1>0, <2>1
  <1>5. ContainersSeen(pod, R, reason, n + 1 - n, f[n])
    BY <1>4
  <1>6. n + 1 - n = 1 /\ \A i \in R : i >= 1 /\ ~(i < 1)
    BY <1>0
  <1>. HIDE DEF n, R
  <1>7. ContainersSeen(pod, R, reason, 1, f[n])
    BY <1>5, <1>6
  <1>8. \/ R = {} /\ containerReason(pod, reason) = reason
        \/ \E p \in R : IsFirst(p, R) /\ containerReason(pod, reason) = Reason(pod.containers[p])
    BY <1>1, <1>6, <1>7 DEF ContainersSeen, IsFirst
  <1>. QED  BY <1>8 DEF R

\* The state of a pod is the one that comes first, for any containers.
LEMMA StateFound ==
    ASSUME NEW pod, pod.inits \in Seq(InitStates), pod.containers \in Seq(States),
           pod.deleted \in BOOLEAN
    PROVE  IsStateOf(getPodState(pod), pod)
  <1>. DEFINE phase  == Reason(Own(pod))
              init   == initReason(pod, phase)
              reason == containerReason(pod, phase)
              r      == getPodState(pod)
  <1>1. phase.init = FALSE /\ phase.text = Own(pod)
    BY DEF Reason
  <1>2. CASE pod.deleted
    <2>1. r.text = IF pod.reason = "NodeLost" THEN "Unknown" ELSE "Terminating"
      BY <1>2 DEF getPodState, Reason
    <2>. QED  BY <1>2, <2>1 DEF IsStateOf
  <1>3. CASE ~pod.deleted /\ Unfinished(pod) # {}
    <2>1. PICK p \in Unfinished(pod) : /\ IsFirst(p, Unfinished(pod))
                                       /\ init = InitGiven(pod.inits[p], p)
      BY <1>1, <1>3, InitFinds, Zenon
    <2>2. init.init = TRUE
      BY <2>1 DEF InitGiven, InitReason
    <2>3. init.text = pod.inits[p] \/ (init.text = "count" /\ init.done = p - 1)
      <3>. HIDE DEF init
      <3>1. CASE pod.inits[p] \in {"PodInitializing", "other"}
        <4>1. init = InitReason("count", p - 1)
          BY <2>1, <3>1 DEF InitGiven
        <4>. QED  BY <4>1 DEF InitReason
      <3>2. CASE pod.inits[p] \notin {"PodInitializing", "other"}
        <4>1. init = InitReason(pod.inits[p], 0)
          BY <2>1, <3>2 DEF InitGiven
        <4>. QED  BY <4>1 DEF InitReason
      <3>. QED  BY <3>1, <3>2
    <2>4. r = init
      BY <1>3, <2>2 DEF getPodState
    <2>. QED  BY <1>3, <2>1, <2>2, <2>3, <2>4 DEF IsStateOf
  <1>4. CASE ~pod.deleted /\ Unfinished(pod) = {}
    <2>1. init.init = FALSE
      BY <1>1, <1>4, InitFinds, Zenon
    <2>2. r = IF reason.text = "Completed" /\ HasReady(pod) THEN Reason("Running") ELSE reason
      BY <1>4, <2>1 DEF getPodState, HasReady
    <2>3. CASE Reporting(pod) # {}
      <3>1. PICK p \in Reporting(pod) : /\ IsFirst(p, Reporting(pod))
                                        /\ reason = Reason(pod.containers[p])
        BY <2>3, ContainerFinds
      <3>2. r.text = Settled(pod, pod.containers[p])
        <4>1. reason.text = pod.containers[p] /\ Reason("Running").text = "Running"
          BY <3>1 DEF Reason
        <4>. QED  BY <2>2, <4>1 DEF Settled
      <3>. QED  BY <1>4, <2>3, <3>1, <3>2 DEF IsStateOf
    <2>4. CASE Reporting(pod) = {}
      <3>1. reason = phase
        BY <2>4, ContainerFinds
      <3>2. r.text = Settled(pod, Own(pod))
        <4>1. reason.text = Own(pod) /\ Reason("Running").text = "Running"
          BY <3>1 DEF Reason
        <4>. QED  BY <2>2, <4>1 DEF Settled
      <3>. QED  BY <1>4, <2>4, <3>2 DEF IsStateOf
    <2>. QED  BY <2>3, <2>4
  <1>. QED  BY <1>2, <1>3, <1>4

-----------------------------------------------------------------------------
(* References to charts.                                                   *)

\* A number is not empty.
LEMMA NumberIsText == ASSUME NEW c, IsNumber(c[1]) PROVE c # EmptyText
  <1>1. EmptyText[1] = ""
    BY Zenon DEF EmptyText
  <1>2. ~IsNumber("")
    BY Zenon DEF IsNumber
  <1>. QED  BY <1>1, <1>2, Zenon

\* How many components there may be.
LEMMA FewOrMore ==
    ASSUME NEW n \in Nat, NEW m \in Nat, n > m
    PROVE  n = m + 1 \/ n = m + 2 \/ n = m + 3 \/ n > m + 3
  OBVIOUS

\* A host with its port, and possibly a tag: the port is valid, and nothing else follows.
LEMMA PortParsed ==
    ASSUME NEW C, NEW s \in Seq(C), HasPort(s)
    PROVE  IF IsReference(s) THEN FullName(ParseReference(s)) = Canonical(s)
           ELSE ParseReference(s) = Invalid
  <1>. DEFINE c    == fixSplitComponents(s)
              repo == SubSeq(s, 1, 2)
  <1>0. /\ Len(s) \in Nat /\ Len(s) > 1 /\ repo = <<s[1], s[2]>> /\ Len(repo) = 2
        /\ repo[2] = s[2] /\ repo # <<EmptyText>>
    <2>1. Len(s) \in Nat /\ Len(s) > 1
      BY DEF HasPort
    <2>2. repo \in Seq(C) /\ Len(repo) = 2 /\ repo[1] = s[1] /\ repo[2] = s[2]
      BY <2>1
    <2>3. repo = <<s[1], s[2]>>
      <3>1. DOMAIN repo = 1 .. 2 /\ repo = [i \in 1 .. 2 |-> repo[i]]
        BY <2>2
      <3>2. <<s[1], s[2]>> = [i \in 1 .. 2 |-> IF i = 1 THEN s[1] ELSE s[2]]
        OBVIOUS
      <3>3. \A i \in 1 .. 2 : repo[i] = IF i = 1 THEN s[1] ELSE s[2]
        BY <2>2
      <3>. QED  BY <3>1, <3>2, <3>3, Zenon
    <2>4. Len(<<EmptyText>>) = 1
      OBVIOUS
    <2>5. repo # <<EmptyText>>
      BY <2>2, <2>4
    <2>. QED  BY <2>1, <2>2, <2>3, <2>5
  <1>1. c = <<repo>> \o [i \in 1 .. Len(s) - 2 |-> <<s[i + 2]>>]
    BY DEF fixSplitComponents, HasPort
  <1>2. Len(c) = Len(s) - 1 /\ c[1] = repo
    BY <1>0, <1>1
  <1>9. Len(s) > 2 => c[2] = <<s[3]>>
    BY <1>0, <1>1
  <1>3. s[2] # EmptyText
    BY NumberIsText DEF HasPort
  <1>4. IsReference(s) <=> Len(s) <= 3 /\ isValidPort(s[2][1])
    BY DEF IsReference
  <1>. HIDE DEF c, repo
  <1>5. CASE Len(s) = 2
    <2>. DEFINE ref == [repo |-> repo, tag |-> EmptyText]
    <2>1. Len(c) = 1 /\ repo = s /\ Canonical(s) = s
      BY <1>0, <1>2, <1>3, <1>5 DEF Canonical
    <2>2. ParseReference(s) = IF validate(ref) THEN ref ELSE Invalid
      <3>1. c[1] = repo
        BY <1>2
      <3>2. Len(c) <= 3
        BY <2>1
      <3>. QED  BY <2>1, <3>1, <3>2 DEF ParseReference, c
    <2>3. validate(ref) <=> isValidPort(s[2][1])
      BY <1>0 DEF validate
    <2>4. FullName(ref) = s
      BY <2>1 DEF FullName
    <2>5. IsReference(s) <=> isValidPort(s[2][1])
      BY <1>4, <1>5
    <2>. HIDE DEF ref
    <2>. QED  BY <2>1, <2>2, <2>3, <2>4, <2>5
  <1>6. CASE Len(s) = 3
    <2>. DEFINE ref == [repo |-> repo, tag |-> s[3]]
    <2>1. Len(c) = 2 /\ c[2][1] = s[3]
      BY <1>2, <1>6, <1>9
    <2>2. ParseReference(s) = IF validate(ref) THEN ref ELSE Invalid
      <3>1. c[1] = repo
        BY <1>2
      <3>2. Len(c) <= 3
        BY <2>1
      <3>. QED  BY <2>1, <3>1, <3>2 DEF ParseReference, c
    <2>3. validate(ref) <=> isValidPort(s[2][1])
      BY <1>0 DEF validate
    <2>4. FullName(ref) = Canonical(s)
      <3>1. CASE s[3] = EmptyText
        BY <1>6, <3>1 DEF FullName, Canonical, repo
      <3>2. CASE s[3] # EmptyText
        <4>1. Append(repo, s[3]) = s
          BY <1>0, <1>6
        <4>. QED  BY <1>6, <3>2, <4>1 DEF FullName, Canonical
      <3>. QED  BY <3>1, <3>2
    <2>5. IsReference(s) <=> isValidPort(s[2][1])
      BY <1>4, <1>6
    <2>. HIDE DEF ref
    <2>. QED  BY <2>2, <2>3, <2>4, <2>5
  <1>7. CASE Len(s) = 4
    <2>. DEFINE ref == [repo |-> c[1] \o c[2], tag |-> c[3][1]]
    <2>0. c[1] = <<s[1], s[2]>> /\ c[2] = <<s[3]>>
      BY <1>0, <1>2, <1>7, <1>9
    <2>1. Len(c) = 3 /\ Len(c[1] \o c[2]) = 3
      BY <1>2, <1>7, <2>0
    <2>2. ~validate(ref)
      <3>1. Len(ref.repo) = 3
        BY <2>1
      <3>. HIDE DEF ref
      <3>. QED  BY <3>1 DEF validate
    <2>3. ParseReference(s) = Invalid
      BY <2>1, <2>2 DEF ParseReference, c
    <2>. QED  BY <1>4, <1>7, <2>3
  <1>8. CASE Len(s) > 4
    <2>1. ~(Len(c) <= 3)
      BY <1>0, <1>2, <1>8
    <2>2. ParseReference(s) = Invalid
      BY <2>1 DEF ParseReference, c
    <2>. QED  BY <1>4, <1>8, <1>0, <2>2
  <1>10. Len(s) = 2 \/ Len(s) = 3 \/ Len(s) = 4 \/ Len(s) > 4
    <2>1. Len(s) \in Nat /\ 1 \in Nat /\ Len(s) > 1
      BY <1>0
    <2>2. Len(s) = 1 + 1 \/ Len(s) = 1 + 2 \/ Len(s) = 1 + 3 \/ Len(s) > 1 + 3
      BY ONLY <2>1, FewOrMore, Zenon
    <2>. QED  BY ONLY <2>2
  <1>. QED  BY <1>5, <1>6, <1>7, <1>8, <1>10, Zenon

\* A name, and possibly a tag that is no number.
LEMMA NameParsed ==
    ASSUME NEW C, NEW s \in Seq(C), s # <<>>, ~HasPort(s)
    PROVE  IF IsReference(s) THEN FullName(ParseReference(s)) = Canonical(s)
           ELSE ParseReference(s) = Invalid
  <1>. DEFINE c == fixSplitComponents(s)
  <1>0. Len(s) \in Nat /\ Len(s) > 0
    OBVIOUS
  <1>1. c = [i \in DOMAIN s |-> <<s[i]>>]
    BY DEF fixSplitComponents, HasPort
  <1>2. Len(c) = Len(s) /\ \A i \in 1 .. Len(s) : c[i] = <<s[i]>>
    BY <1>0, <1>1
  <1>3. IsReference(s) <=> s[1] # EmptyText /\ Len(s) <= 2
    BY DEF IsReference
  <1>4. <<s[1]>> # <<EmptyText>> <=> s[1] # EmptyText
    OBVIOUS
  <1>. HIDE DEF c
  <1>5. CASE Len(s) = 1
    <2>. DEFINE ref == [repo |-> <<s[1]>>, tag |-> EmptyText]
    <2>1. Len(c) = 1 /\ c[1] = <<s[1]>> /\ <<s[1]>> = s /\ Canonical(s) = s
      BY <1>2, <1>5 DEF Canonical
    <2>2. ParseReference(s) = IF validate(ref) THEN ref ELSE Invalid
      BY <2>1 DEF ParseReference, c
    <2>3. validate(ref) <=> s[1] # EmptyText
      BY <1>4 DEF validate
    <2>4. FullName(ref) = s
      BY <2>1 DEF FullName
    <2>. QED  BY <1>3, <1>5, <2>1, <2>2, <2>3, <2>4
  <1>6. CASE Len(s) = 2
    <2>. DEFINE ref == [repo |-> <<s[1]>>, tag |-> s[2]]
    <2>1. Len(c) = 2 /\ c[1] = <<s[1]>> /\ c[2][1] = s[2]
      BY <1>2, <1>6
    <2>2. ParseReference(s) = IF validate(ref) THEN ref ELSE Invalid
      BY <2>1 DEF ParseReference, c
    <2>3. validate(ref) <=> s[1] # EmptyText
      BY <1>4 DEF validate
    <2>4. FullName(ref) = Canonical(s)
      <3>1. CASE s[2] = EmptyText
        BY <1>6, <3>1 DEF FullName, Canonical
      <3>2. CASE s[2] # EmptyText
        <4>1. Append(<<s[1]>>, s[2]) = s
          BY <1>6
        <4>. QED  BY <1>6, <3>2, <4>1 DEF FullName, Canonical
      <3>. QED  BY <3>1, <3>2
    <2>. QED  BY <1>3, <1>6, <2>2, <2>3, <2>4
  <1>7. CASE Len(s) = 3
    <2>. DEFINE ref == [repo |-> c[1] \o c[2], tag |-> c[3][1]]
    <2>0. Len(c) = 3 /\ c[1] = <<s[1]>> /\ c[2] = <<s[2]>>
      BY <1>2, <1>7
    <2>1. Len(c) = 3 /\ Len(c[1] \o c[2]) = 2 /\ (c[1] \o c[2])[2] = s[2]
      BY <2>0
    <2>2. ~isValidPort(s[2][1])
      BY <1>7 DEF HasPort, IsNumber, isValidPort
    <2>3. ~validate(ref)
      BY <2>1, <2>2 DEF validate
    <2>4. ParseReference(s) = Invalid
      BY <2>1, <2>3 DEF ParseReference, c
    <2>. QED  BY <1>3, <1>7, <2>4
  <1>8. CASE Len(s) > 3
    <2>1. ~(Len(c) <= 3)
      BY <1>2, <1>8
    <2>2. ParseReference(s) = Invalid
      BY <2>1 DEF ParseReference, c
    <2>. QED  BY <1>0, <1>3, <1>8, <2>2
  <1>9. Len(s) = 1 \/ Len(s) = 2 \/ Len(s) = 3 \/ Len(s) > 3
    <2>1. Len(s) \in Nat /\ 0 \in Nat /\ Len(s) > 0
      BY <1>0
    <2>2. Len(s) = 0 + 1 \/ Len(s) = 0 + 2 \/ Len(s) = 0 + 3 \/ Len(s) > 0 + 3
      BY ONLY <2>1, FewOrMore, Zenon
    <2>. QED  BY ONLY <2>2
  <1>. QED  BY <1>5, <1>6, <1>7, <1>8, <1>9, Zenon

\* ParseReference takes exactly the references, and loses nothing of them.
LEMMA ReferenceParsed ==
    ASSUME NEW s \in Texts
    PROVE  IF IsReference(s) THEN FullName(ParseReference(s)) = Canonical(s)
           ELSE ParseReference(s) = Invalid
  <1>1. s \in Seq(Seq(Segments) \ {<<>>}) /\ s # <<>>
    BY ConversionAssumption
  <1>2. CASE HasPort(s)
    BY <1>1, <1>2, PortParsed
  <1>3. CASE ~HasPort(s)
    BY <1>1, <1>3, NameParsed
  <1>. QED  BY <1>2, <1>3, Zenon

-----------------------------------------------------------------------------
(* The address of the agent.                                               *)

\* A loop that returns somewhere returns at a number it returns at.
LEMMA FirstIsOne ==
    ASSUME NEW S, S \subseteq Nat, S # {}
    PROVE  First(S) \in S
  <1>1. \E i \in S : \A j \in S : i <= j
    BY Least
  <1>. QED  BY <1>1, Zenon DEF First

\* The text shown for a service is an address, a placeholder or empty.
LEMMA ServiceText ==
    ASSUME NEW svc \in Services
    PROVE  getServiceExternalIP(svc) \in Addresses \cup invalidIPs \cup {NoText}
  <1>. DEFINE given == {svc.ingress[i] : i \in DOMAIN svc.ingress} \ {NoText}
  <1>1. /\ svc.externalIPs \in Seq(Addresses)
        /\ svc.ingress \in Seq(Addresses \cup {NoText})
        /\ svc.externalName \in Addresses \cup {NoText}
    BY AddressAssumption
  <1>2. FirstItem(svc.externalIPs) \in Addresses \cup {NoText}
    BY <1>1 DEF FirstItem
  <1>3. given \subseteq Addresses
    BY <1>1
  <1>4. Addresses \subseteq Nat
    BY AddressAssumption DEF NoText
  <1>5. given # {} => First(given) \in given
    <2>. HIDE DEF given
    <2>. QED  BY <1>3, <1>4, FirstIsOne, Zenon
  <1>6. loadBalancerStatusStringer(svc) \in Addresses \cup {NoText}
    BY <1>3, <1>5 DEF loadBalancerStatusStringer
  <1>. QED  BY <1>1, <1>2, <1>6 DEF getServiceExternalIP, OrElse, invalidIPs

\* A text that is set is an address.
LEMMA SetText ==
    ASSUME NEW svc \in Services, Choice(svc) = "set"
    PROVE  getServiceExternalIP(svc) \in Addresses
  <1>1. getServiceExternalIP(svc) # NoText
    BY DEF Choice
  <1>2. getServiceExternalIP(svc) \notin invalidIPs
    BY DEF Choice
  <1>. QED  BY <1>1, <1>2, ServiceText

\* The address is kept up, and the indexer holds services.
AddressInv == AgentHasAddress /\ indexed \in Seq(Services)

\* Every step keeps AddressInv.
LEMMA AddressStep == AddressInv /\ AddressNext => AddressInv'
  <1>. SUFFICES ASSUME AddressInv, AddressNext PROVE AddressInv'
    OBVIOUS
  <1>1. CASE SetOthersByFlags
    BY <1>1 DEF SetOthersByFlags, AddressInv, AgentHasAddress, isValidIP
  <1>2. CASE setAgentExternalIp
    <2>. DEFINE deciding == {i \in DOMAIN indexed : Choice(indexed[i]) # "continue"}
                svc      == indexed[First(deciding)]
    <2>1. /\ state = "up" /\ UNCHANGED <<localIp, indexed, state>>
          /\ IF localIp = NoText /\ deciding # {} /\ Choice(svc) = "set"
             THEN ip' = getServiceExternalIP(svc) ELSE UNCHANGED ip
      BY <1>2 DEF setAgentExternalIp
    <2>2. deciding \subseteq Nat /\ deciding \subseteq DOMAIN indexed
      BY DEF AddressInv
    <2>3. deciding # {} => svc \in Services
      <3>1. deciding # {} => First(deciding) \in deciding
        <4>. HIDE DEF deciding
        <4>. QED  BY <2>2, FirstIsOne, Zenon
      <3>. QED  BY <2>2, <3>1 DEF AddressInv
    <2>. HIDE DEF svc
    <2>4. deciding # {} /\ Choice(svc) = "set" => getServiceExternalIP(svc) \in Addresses
      BY <2>3, SetText
    <2>. HIDE DEF deciding
    <2>. QED  BY <2>1, <2>4 DEF AddressInv, AgentHasAddress
  <1>3. CASE ServicesChange
    <2>1. PICK n \in 0 .. MaxServices : indexed' \in [1 .. n -> Services]
      BY <1>3 DEF ServicesChange
    <2>2. n \in Nat
      BY AddressAssumption
    <2>3. indexed' \in Seq(Services)
      BY <2>1, <2>2
    <2>. QED  BY <1>3, <2>3 DEF ServicesChange, AddressInv, AgentHasAddress
  <1>. QED  BY <1>1, <1>2, <1>3 DEF AddressNext

-----------------------------------------------------------------------------
(* The conversions together.                                               *)

\* What is converted is one of the inputs there are, and the output is not there yet or
\* what the conversion gives for that input.
ConversionInv ==
    /\ task = "reference" =>
          \E s \in Texts : input = <<s>> /\ output \in {<<>>, <<ParseReference(s)>>}
    /\ task = "pod" =>
          \E pod \in PodObjects : input = <<pod>> /\ output \in {<<>>, <<getPodState(pod)>>}
    /\ task = "version" =>
          \E blade \in Blades :
              input = <<blade>> /\ output \in {<<>>, <<GetChaosBladeVersion(blade)>>}
    /\ AddressInv

\* ConversionInv holds at the start.
LEMMA ConversionStart == ConversionInit => ConversionInv
  <1>. SUFFICES ASSUME ConversionInit PROVE ConversionInv
    OBVIOUS
  <1>1. indexed = <<>> /\ state # "up"
    BY DEF ConversionInit, NoAddress, AddressInit
  <1>2. AddressInv
    BY <1>1 DEF AddressInv, AgentHasAddress
  <1>3. /\ task = "reference" => \E s \in Texts : input = <<s>>
        /\ task = "pod" => \E pod \in PodObjects : input = <<pod>>
        /\ task = "version" => \E blade \in Blades : input = <<blade>>
        /\ output = <<>>
    BY DEF ConversionInit
  <1>. QED  BY <1>2, <1>3 DEF ConversionInv

\* Every step keeps ConversionInv.
LEMMA ConversionStep == ConversionInv /\ [ConversionNext]_conversionVars => ConversionInv'
  <1>. SUFFICES ASSUME ConversionInv, [ConversionNext]_conversionVars PROVE ConversionInv'
    OBVIOUS
  <1>1. ASSUME NEW kind, NEW result, Converts(kind, result)
        PROVE  /\ task = kind /\ UNCHANGED <<task, input>> /\ output' = result
               /\ AddressInv'
    BY <1>1 DEF Converts, addressVars, ConversionInv, AddressInv, AgentHasAddress
  <1>2. CASE Converts("reference", <<ParseReference(input[1])>>)
    <2>1. /\ task = "reference" /\ task' = task /\ input' = input
          /\ output' = <<ParseReference(input[1])>> /\ AddressInv'
      BY <1>1, <1>2
    <2>. QED  BY <2>1 DEF ConversionInv
  <1>3. CASE Converts("pod", <<getPodState(input[1])>>)
    <2>1. /\ task = "pod" /\ task' = task /\ input' = input
          /\ output' = <<getPodState(input[1])>> /\ AddressInv'
      BY <1>1, <1>3
    <2>. QED  BY <2>1 DEF ConversionInv
  <1>4. CASE Converts("version", <<GetChaosBladeVersion(input[1])>>)
    <2>1. /\ task = "version" /\ task' = task /\ input' = input
          /\ output' = <<GetChaosBladeVersion(input[1])>> /\ AddressInv'
      BY <1>1, <1>4
    <2>. QED  BY <2>1 DEF ConversionInv
  <1>5. CASE AddressNext /\ UNCHANGED <<task, input, output>>
    BY <1>5, AddressStep DEF ConversionInv
  <1>6. CASE UNCHANGED conversionVars
    BY <1>6 DEF conversionVars, addressVars, ConversionInv, AddressInv, AgentHasAddress
  <1>. QED  BY <1>2, <1>3, <1>4, <1>5, <1>6 DEF ConversionNext

\* ConversionInv holds in every reachable state.
LEMMA ConversionsInvariant == ConversionSpec => []ConversionInv
  BY ConversionStart, ConversionStep, PTL DEF ConversionSpec

\* ParseReference takes exactly the references of every shape and length, and FullName
\* gives the text back, but for a colon at its end.
THEOREM ReferencesLossless == ConversionSpec => []ReferenceIsLossless
  <1>1. ConversionInv => ReferenceIsLossless
    <2>. SUFFICES ASSUME ConversionInv, task = "reference", output # <<>>
                  PROVE  IF IsReference(input[1])
                         THEN FullName(output[1]) = Canonical(input[1])
                         ELSE output[1] = Invalid
      BY DEF ReferenceIsLossless
    <2>1. PICK s \in Texts : input = <<s>> /\ output = <<ParseReference(s)>>
      BY DEF ConversionInv
    <2>2. input[1] = s /\ output[1] = ParseReference(s)
      BY <2>1
    <2>. QED  BY <2>2, ReferenceParsed
  <1>. QED  BY <1>1, ConversionsInvariant, PTL

\* getPodState reports the cause that comes first, for any number of containers.
THEOREM PodStateFirst == ConversionSpec => []PodStateIsFirst
  <1>1. ConversionInv => PodStateIsFirst
    <2>. SUFFICES ASSUME ConversionInv, task = "pod", output # <<>>
                  PROVE  IsStateOf(output[1], input[1])
      BY DEF PodStateIsFirst
    <2>1. PICK pod \in PodObjects : input = <<pod>> /\ output = <<getPodState(pod)>>
      BY DEF ConversionInv
    <2>2. input[1] = pod /\ output[1] = getPodState(pod)
      BY <2>1
    <2>. QED  BY <2>2, StateFound, ConversionAssumption
  <1>. QED  BY <1>1, ConversionsInvariant, PTL

\* The version is the one stated first, in an output of any length.
THEOREM VersionStated == ConversionSpec => []VersionIsStated
  <1>1. ConversionInv => VersionIsStated
    <2>. SUFFICES ASSUME ConversionInv, task = "version", output # <<>>
                  PROVE  IF input[1].exists /\ input[1].succeeds
                         THEN IsVersionOf(output[1], input[1].lines)
                         ELSE output[1] = NoVersionFound
      BY DEF VersionIsStated
    <2>1. PICK blade \in Blades : input = <<blade>> /\ output = <<GetChaosBladeVersion(blade)>>
      BY DEF ConversionInv
    <2>2. input[1] = blade /\ output[1] = GetChaosBladeVersion(blade)
      BY <2>1
    <2>3. IsVersionOf(parseVersionFromOutput(blade.lines), blade.lines)
      BY VersionFound, ConversionAssumption
    <2>. QED  BY <2>2, <2>3 DEF GetChaosBladeVersion
  <1>. QED  BY <1>1, ConversionsInvariant, PTL

\* An agent that is up has an address and never a placeholder, whatever the services of
\* the cluster become, and it keeps the one given with --localIp.
THEOREM AddressKept == ConversionSpec => []AgentHasAddress
  <1>1. ConversionInv => AgentHasAddress
    BY DEF ConversionInv, AddressInv
  <1>. QED  BY <1>1, ConversionsInvariant, PTL
=============================================================================
