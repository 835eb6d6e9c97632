------------------------------ MODULE TimerProofs ------------------------------
(***************************************************************************)
(* The timers, on a queue that knows its earliest timer, keep the promise  *)
(* of TimerService for every modulus, lazy delay and set of timeouts that  *)
(* leaves the keys within half the modulus of the clock.                   *)
(***************************************************************************)
EXTENDS TimerQueue, TLAPS

Half == Modulus \div 2

\* The signed differences there are
Range == (-Half)..(Half - 1)

-----------------------------------------------------------------------------
\* The modulus is even, so both signs have the same room
LEMMA HalfIs == Half \in Nat /\ Modulus = 2 * Half /\ Half > 0
BY ModulusAssumption DEF Half

\* Multiples of the modulus add up
LEMMA Distributes ==
  ASSUME NEW p \in Int, NEW q \in Int
  PROVE  /\ p * Modulus \in Int /\ q * Modulus \in Int
         /\ (p + q) * Modulus = p * Modulus + q * Modulus
         /\ (p - q) * Modulus = p * Modulus - q * Modulus
         /\ (-q) * Modulus = -(q * Modulus)
BY ModulusAssumption

\* A remainder differs from its number by a multiple of the modulus
LEMMA Remainder ==
  ASSUME NEW x \in Int
  PROVE  x % Modulus \in 0..(Modulus - 1) /\ \E q \in Int : x = (x % Modulus) + q * Modulus
<1>1. x % Modulus \in 0..(Modulus - 1)  BY ModulusAssumption
<1>2. x = Modulus * (x \div Modulus) + (x % Modulus) /\ x \div Modulus \in Int  BY ModulusAssumption
<1>3. x = (x % Modulus) + (x \div Modulus) * Modulus  BY <1>1, <1>2, ModulusAssumption
<1> QED  BY <1>1, <1>2, <1>3

\* Two numbers of Range that differ by a multiple of the modulus are the same
LEMMA Multiple ==
  ASSUME NEW s \in Range, NEW r \in Range, NEW q \in Int, s - r = q * Modulus
  PROVE  s = r
<1>1. s \in Int /\ r \in Int /\ Modulus \in Nat /\ Modulus > 0  BY HalfIs, ModulusAssumption DEF Range
<1>2. s - r < Modulus /\ s - r > 0 - Modulus  BY HalfIs DEF Range
<1>3. \A m \in Nat, z \in Int : m > 0 /\ z * m < m /\ z * m > 0 - m => z = 0  OBVIOUS
<1>4. q = 0  BY <1>1, <1>2, <1>3
<1> QED  BY <1>1, <1>4

\* Signed is the distance of two keys, up to a multiple of the modulus
LEMMA SignedIs ==
  ASSUME NEW a \in Int, NEW b \in Int
  PROVE  Signed(a, b) \in Range /\ \E q \in Int : a - b = Signed(a, b) + q * Modulus
<1> DEFINE d == (a - b) % Modulus
<1>1. d \in 0..(Modulus - 1) /\ \E q \in Int : a - b = d + q * Modulus  BY Remainder
<1>2. PICK q \in Int : a - b = d + q * Modulus  BY <1>1
<1>3. Signed(a, b) = IF d < Half THEN d ELSE d - Modulus  BY DEF Signed, Half
<1> HIDE DEF d
<1>4. Signed(a, b) \in Range  BY <1>1, <1>3, HalfIs DEF Range
<1>5. a - b = (d - Modulus) + (q + 1) * Modulus /\ q + 1 \in Int
  BY <1>1, <1>2, ModulusAssumption
<1> QED  BY <1>2, <1>3, <1>4, <1>5

\* ... and the only such number
LEMMA SignedUnique ==
  ASSUME NEW a \in Int, NEW b \in Int, NEW s \in Range, NEW q \in Int, a - b = s + q * Modulus
  PROVE  Signed(a, b) = s
<1>1. PICK p \in Int : a - b = Signed(a, b) + p * Modulus  BY SignedIs
<1>2. Signed(a, b) \in Range  BY SignedIs
<1>3. Signed(a, b) \in Int /\ s \in Int /\ Modulus \in Int  BY <1>2, HalfIs, ModulusAssumption DEF Range
<1>4. Signed(a, b) - s = (q - p) * Modulus /\ q - p \in Int  BY <1>1, <1>3, Distributes
<1> QED  BY <1>2, <1>4, Multiple

\* Keys are compared as the times that are left until them, when these are close enough
LEMMA SignedDifference ==
  ASSUME NEW a \in Int, NEW b \in Int, NEW c \in Int, Signed(a, c) - Signed(b, c) \in Range
  PROVE  Signed(a, b) = Signed(a, c) - Signed(b, c)
<1> DEFINE s == Signed(a, c)
           r == Signed(b, c)
<1>1. PICK p \in Int : a - c = s + p * Modulus  BY SignedIs
<1>2. PICK q \in Int : b - c = r + q * Modulus  BY SignedIs
<1>3. s \in Int /\ r \in Int  BY SignedIs, HalfIs DEF Range
<1> HIDE DEF s, r
<1>4. /\ p * Modulus \in Int /\ q * Modulus \in Int
      /\ (p - q) * Modulus = p * Modulus - q * Modulus  BY Distributes
<1>5. \A x, y \in Int : a - c = s + x /\ b - c = r + y => a - b = (s - r) + (x - y)  BY <1>3
<1>6. a - b = (s - r) + (p * Modulus - q * Modulus)  BY <1>1, <1>2, <1>4, <1>5
<1>7. a - b = (s - r) + (p - q) * Modulus /\ p - q \in Int  BY <1>4, <1>6
<1> QED  BY <1>7, SignedUnique DEF s, r

\* When the clock moves by d, what is left until a key becomes d less, also across the wrap
LEMMA SignedTick ==
  ASSUME NEW k \in Int, NEW now \in Int, NEW d \in Int, Signed(k, now) - d \in Range
  PROVE  Signed(k, (now + d) % Modulus) = Signed(k, now) - d
<1> DEFINE later == (now + d) % Modulus
<1>1. PICK p \in Int : k - now = Signed(k, now) + p * Modulus  BY SignedIs
<1>2. later \in 0..(Modulus - 1)  BY Remainder
<1>3. PICK q \in Int : now + d = later + q * Modulus  BY Remainder
<1> HIDE DEF later
<1>4. Signed(k, now) \in Int /\ Modulus \in Int /\ later \in Int
  BY <1>2, SignedIs, HalfIs, ModulusAssumption DEF Range
<1>5. k - later = (Signed(k, now) - d) + (p + q) * Modulus /\ p + q \in Int
  BY <1>1, <1>3, <1>4, Distributes
<1>6. Signed(k, later) = Signed(k, now) - d  BY <1>4, <1>5, SignedUnique
<1> QED  BY <1>6 DEF later

\* A new key is due after the time that was asked for
LEMMA SignedNew ==
  ASSUME NEW now \in Int, NEW t \in Range
  PROVE  (now + t) % Modulus \in Int /\ Signed((now + t) % Modulus, now) = t
<1> DEFINE new == (now + t) % Modulus
<1>1. now + t \in Int /\ t \in Int /\ Modulus \in Int  BY HalfIs, ModulusAssumption DEF Range
<1>2. new \in 0..(Modulus - 1)  BY <1>1, Remainder
<1>3. PICK q \in Int : now + t = new + q * Modulus  BY <1>1, Remainder
<1> HIDE DEF new
<1>4. new \in Int /\ new - now = t + (-q) * Modulus /\ -q \in Int  BY <1>1, <1>2, <1>3, Distributes
<1>5. Signed(new, now) = t  BY <1>4, SignedUnique
<1> QED  BY <1>4, <1>5 DEF new

-----------------------------------------------------------------------------
\* Types; only integers have signed differences
TypeOK ==
    /\ current_msec \in Int
    /\ timer_set \in [Event -> BOOLEAN] /\ expiring \in BOOLEAN
    /\ key \in [Event -> Int] /\ asked \in [Event -> Int]

\* A timer is within the bounds, and its key is within the lazy delay of the last request
Near(e) ==
    /\ Left(key[e]) \in -MaxLate..MaxAhead
    /\ Left(asked[e]) \in -MaxLate..MaxAhead
    /\ Left(asked[e]) - Left(key[e]) \in (1 - TIMER_LAZY_DELAY)..(TIMER_LAZY_DELAY - 1)

QueueInv == TypeOK /\ \A e \in Armed : Near(e)

\* The constants as integers, and the room that the bounds leave
LEMMA Bounds ==
  /\ MaxLate \in Nat /\ MaxAhead \in Nat /\ TIMER_LAZY_DELAY \in Nat /\ TIMER_LAZY_DELAY > 0
  /\ MaxLate + MaxAhead + TIMER_LAZY_DELAY < Half
  /\ Timeouts \subseteq 1..MaxAhead /\ Steps \subseteq Int
  /\ (-MaxLate..MaxAhead) \subseteq Range
<1>1. /\ MaxLate \in Nat /\ MaxAhead \in Nat /\ TIMER_LAZY_DELAY \in Nat /\ TIMER_LAZY_DELAY > 0
      /\ MaxLate + MaxAhead + TIMER_LAZY_DELAY < Half
      /\ Timeouts \subseteq 1..MaxAhead /\ Steps \subseteq Int
  BY TimerAssumption DEF Half
<1> QED  BY <1>1, HalfIs DEF Range

\* Nothing is armed at first
LEMMA InitInv == Init => QueueInv
<1> SUFFICES ASSUME Init PROVE QueueInv  OBVIOUS
<1>1. current_msec \in Int  BY ModulusAssumption DEF Init
<1>2. Armed = {}  BY DEF Init, Armed
<1>3. key \in [Event -> Int] /\ asked \in [Event -> Int]  BY DEF Init
<1>4. timer_set \in [Event -> BOOLEAN] /\ expiring \in BOOLEAN  BY DEF Init
<1> QED  BY <1>1, <1>2, <1>3, <1>4 DEF QueueInv, TypeOK

\* event_add_timer: a key that moves is the new request, and one that stays is near it
LEMMA AddInv ==
  ASSUME QueueInv, NEW e \in Event, NEW timer \in Timeouts, event_add_timer(e, timer)
  PROVE  QueueInv' /\ Left(asked[e])' = timer /\ \A f \in Armed \ {e} : Left(asked[f])' = Left(asked[f])
<1> DEFINE new == (current_msec + timer) % Modulus
<1> USE DEF QueueInv
<1>1. current_msec \in Int /\ timer \in Range /\ timer \in 1..MaxAhead /\ timer \in Int
  BY Bounds DEF TypeOK, Range
<1>2. new \in Int /\ Signed(new, current_msec) = timer  BY <1>1, SignedNew
<1>3. /\ key' = IF Lazily(e, new) THEN key ELSE [key EXCEPT ![e] = new]
      /\ timer_set' = [timer_set EXCEPT ![e] = TRUE]
      /\ asked' = [asked EXCEPT ![e] = new]
      /\ current_msec' = current_msec /\ expiring' = expiring
  BY DEF event_add_timer
<1> HIDE DEF new
<1>4. TypeOK'  BY <1>2, <1>3 DEF TypeOK
<1>6. asked'[e] = new /\ Left(asked[e])' = timer  BY <1>2, <1>3 DEF Left, TypeOK
<1>7. Near(e)'
  <2>1. CASE Lazily(e, new)
    <3>1. Near(e) /\ key[e] \in Int  BY <2>1 DEF Lazily, Armed, TypeOK
    <3>2. Signed(key[e], current_msec) \in -MaxLate..MaxAhead  BY <3>1 DEF Near, Left
    <3>3. timer - Signed(key[e], current_msec) \in Range  BY <1>1, <3>2, Bounds, HalfIs DEF Range
    <3>4. Signed(new, key[e]) = timer - Signed(key[e], current_msec)
      BY <1>1, <1>2, <3>1, <3>3, SignedDifference
    <3>5. timer - Signed(key[e], current_msec)
             \in (1 - TIMER_LAZY_DELAY)..(TIMER_LAZY_DELAY - 1)
      <4> DEFINE x == timer - Signed(key[e], current_msec)
      <4>1. Abs(x) < TIMER_LAZY_DELAY  BY <2>1, <3>4 DEF Lazily
      <4>2. x \in Int  BY <1>1, <3>2, Bounds
      <4> HIDE DEF x
      <4>3. x \in (1 - TIMER_LAZY_DELAY)..(TIMER_LAZY_DELAY - 1)  BY <4>1, <4>2, Bounds DEF Abs
      <4> QED  BY <4>3 DEF x
    <3>6. Left(key[e])' = Signed(key[e], current_msec)  BY <1>3, <2>1 DEF Left
    <3> QED  BY <1>1, <1>6, <3>2, <3>5, <3>6, Bounds DEF Near
  <2>2. CASE ~Lazily(e, new)
    <3>1. Left(key[e])' = timer  BY <1>2, <1>3, <2>2 DEF Left, TypeOK
    <3> QED  BY <1>1, <1>6, <3>1, Bounds DEF Near
  <2> QED  BY <2>1, <2>2
<1>8. ASSUME NEW f \in Armed \ {e}
      PROVE  Left(asked[f])' = Left(asked[f]) /\ Left(key[f])' = Left(key[f])
  BY <1>3, <1>8 DEF Left, Armed, TypeOK
<1>9. ASSUME NEW f \in Armed', f # e  PROVE Near(f)'
  <2>1. f \in Armed \ {e}  BY <1>3, <1>9 DEF Armed, TypeOK
  <2>2. Near(f)  BY <2>1
  <2> QED  BY <1>8, <2>1, <2>2 DEF Near
<1> QED  BY <1>4, <1>6, <1>7, <1>8, <1>9

\* A timer that is deleted or expires leaves the others as they are
LEMMA DisarmInv ==
  ASSUME QueueInv, NEW e \in Event, timer_set[e], Disarm(e)
  PROVE  QueueInv' /\ Armed' = Armed \ {e} /\ \A f \in Armed' : Left(asked[f])' = Left(asked[f])
<1> USE DEF QueueInv
<1>1. Armed' = Armed \ {e}  BY DEF Disarm, Armed, TypeOK
<1>2. ASSUME NEW f \in Armed'
      PROVE  Left(asked[f])' = Left(asked[f]) /\ Left(key[f])' = Left(key[f])
  BY <1>1 DEF Disarm, Left, Armed, TypeOK
<1>3. TypeOK'  BY DEF Disarm, TypeOK
<1>4. ASSUME NEW f \in Armed'  PROVE Near(f)'
  <2>1. Near(f)  BY <1>1
  <2> QED  BY <1>2, <2>1 DEF Near
<1> QED  BY <1>1, <1>2, <1>3, <1>4

\* The clock moves: everything that is armed comes closer by the same time
LEMMA TickInv ==
  ASSUME QueueInv, NEW d \in Steps, Tick(d)
  PROVE  QueueInv' /\ Armed' = Armed /\ \A e \in Armed : Left(asked[e])' = Left(asked[e]) - d
<1> USE DEF QueueInv
<1>1. d \in Int /\ current_msec \in Int /\ Armed' = Armed  BY Bounds DEF TypeOK, Tick, Armed
<1>2. ASSUME NEW e \in Armed, NEW k \in {key[e], asked[e]}
      PROVE  Signed(k, current_msec') = Left(k) - d /\ Left(k) - d \in -MaxLate..MaxAhead
  <2>1. k \in Int  BY <1>2 DEF TypeOK, Armed
  <2>2. Left(k) - d \in -MaxLate..MaxAhead  BY <1>2 DEF Tick
  <2>3. Signed(k, current_msec) - d \in Range  BY <2>2, Bounds DEF Left
  <2>4. current_msec' = (current_msec + d) % Modulus  BY DEF Tick
  <2>5. Signed(k, (current_msec + d) % Modulus) = Signed(k, current_msec) - d
    BY <1>1, <2>1, <2>3, SignedTick
  <2> QED  BY <2>2, <2>4, <2>5 DEF Left
<1>3. ASSUME NEW e \in Armed
      PROVE  Left(asked[e])' = Left(asked[e]) - d /\ Left(key[e])' = Left(key[e]) - d
  BY <1>2 DEF Tick, Left
<1>4. ASSUME NEW e \in Armed  PROVE Near(e)'
  <2>1. Left(key[e])' \in -MaxLate..MaxAhead /\ Left(asked[e])' \in -MaxLate..MaxAhead
    BY <1>2, <1>3
  <2>2. Left(asked[e]) \in Int /\ Left(key[e]) \in Int  BY <1>4, Bounds DEF Near
  <2>3. Left(asked[e])' - Left(key[e])' = Left(asked[e]) - Left(key[e])  BY <1>1, <1>3, <2>2
  <2> QED  BY <2>1, <2>3 DEF Near
<1>5. TypeOK'
  <2>1. (current_msec + d) % Modulus \in Int  BY <1>1, ModulusAssumption
  <2> QED  BY <2>1 DEF Tick, TypeOK
<1> QED  BY <1>1, <1>3, <1>4, <1>5
\* The invariant of the queue is inductive
LEMMA NextInv == QueueInv /\ [Next]_vars => QueueInv'
<1> SUFFICES ASSUME QueueInv, [Next]_vars  PROVE QueueInv'  OBVIOUS
<1>1. CASE UNCHANGED vars
  BY <1>1 DEF vars, QueueInv, TypeOK, Armed, Near, Left
<1>2. CASE \E e \in Event, timer \in Timeouts : event_add_timer(e, timer)  BY <1>2, AddInv
<1>3. CASE \E e \in Event : event_del_timer(e)  BY <1>3, DisarmInv DEF event_del_timer
<1>4. CASE \E e \in Event : Expire(e)  BY <1>4, DisarmInv DEF Expire, First
<1>5. CASE ExpireStart
  BY <1>5 DEF ExpireStart, QueueInv, TypeOK, Armed, Near, Left
<1>6. CASE ExpireDone
  BY <1>6 DEF ExpireDone, QueueInv, TypeOK, Armed, Near, Left
<1>7. CASE \E d \in Steps : Tick(d)  BY <1>7, TickInv
<1> QED  BY <1>1, <1>2, <1>3, <1>4, <1>5, <1>6, <1>7 DEF Next

\* The timer that the expiry loop looks at has no more time left than any other
LEMMA FirstIsEarliest ==
  ASSUME QueueInv, NEW e \in Event, First(e), NEW f \in Armed
  PROVE  Left(key[e]) <= Left(key[f])
<1> USE DEF QueueInv
<1>1. e \in Armed /\ f \in Event  BY DEF First, Armed
<1>2. Left(key[e]) \in -MaxLate..MaxAhead /\ Left(key[f]) \in -MaxLate..MaxAhead  BY <1>1 DEF Near
<1>3. key[e] \in Int /\ key[f] \in Int /\ current_msec \in Int  BY <1>1 DEF TypeOK
<1>4. Left(key[f]) - Left(key[e]) \in Range  BY <1>2, Bounds, HalfIs DEF Range
<1>5. Signed(key[f], key[e]) = Left(key[f]) - Left(key[e])  BY <1>3, <1>4, SignedDifference DEF Left
<1>6. Signed(key[f], key[e]) >= 0  BY DEF First
<1> QED  BY <1>2, <1>5, <1>6, Bounds

-----------------------------------------------------------------------------
\* At first nobody has asked for anything
LEMMA InitIsPromiseInit == Init => Promise!Init
<1> SUFFICES ASSUME Init PROVE Promise!Init  OBVIOUS
<1>1. Armed = {}  BY DEF Init, Armed
<1>2. left = [e \in {} |-> 0]  BY <1>1 DEF left
<1> QED  BY <1>2 DEF Init, Promise!Init

\* Setting a timer is a request, whether the key moves or not
LEMMA AddRequests ==
  ASSUME QueueInv, NEW e \in Event, NEW timer \in Timeouts, event_add_timer(e, timer)
  PROVE  Promise!Request(e, timer)
<1>1. /\ Left(asked[e])' = timer
      /\ \A f \in Armed \ {e} : Left(asked[f])' = Left(asked[f])  BY AddInv
<1>2. Armed' = Armed \cup {e}  BY DEF event_add_timer, Armed, QueueInv, TypeOK
<1>3. left' = [f \in Armed \cup {e} |-> Left(asked[f])']  BY <1>2 DEF left
<1>4. DOMAIN left = Armed /\ \A f \in Armed : left[f] = Left(asked[f])  BY DEF left
<1>5. left' = [f \in DOMAIN left \cup {e} |-> IF f = e THEN timer ELSE left[f]]
  BY <1>1, <1>3, <1>4
<1> QED  BY <1>5 DEF Promise!Request, event_add_timer

\* A timer that is deleted or expires takes its request away, and no other
LEMMA DisarmWithout ==
  ASSUME QueueInv, NEW e \in Event, timer_set[e], Disarm(e)
  PROVE  e \in DOMAIN left /\ Promise!Without(e) /\ UNCHANGED expiring
<1>1. Armed' = Armed \ {e} /\ \A f \in Armed' : Left(asked[f])' = Left(asked[f])  BY DisarmInv
<1>2. DOMAIN left = Armed /\ \A f \in Armed : left[f] = Left(asked[f])  BY DEF left
<1>3. left' = [f \in Armed \ {e} |-> Left(asked[f])']  BY <1>1 DEF left
<1>4. left' = [f \in DOMAIN left \ {e} |-> left[f]]  BY <1>1, <1>2, <1>3
<1>5. e \in Armed  BY DEF Armed
<1> QED  BY <1>2, <1>4, <1>5 DEF Promise!Without, Disarm

\* A handler is called less than the lazy delay early, and less than twice that out of turn
LEMMA ExpireInTime ==
  ASSUME QueueInv, NEW e \in Event, Expire(e)
  PROVE  Promise!Expire(e)
<1> USE DEF QueueInv
<1>1. First(e) /\ timer_set[e] /\ e \in Armed /\ Left(key[e]) <= 0 /\ Disarm(e) /\ expiring
  BY DEF Expire, First, Armed
<1>2. e \in DOMAIN left /\ Promise!Without(e) /\ UNCHANGED expiring  BY <1>1, DisarmWithout
<1>3. DOMAIN left = Armed /\ \A f \in Armed : left[f] = Left(asked[f])  BY DEF left
<1>4. Near(e)  BY <1>1
<1>5. left[e] < TIMER_LAZY_DELAY  BY <1>1, <1>3, <1>4, Bounds DEF Near
<1>6. ASSUME NEW f \in Armed  PROVE left[e] - left[f] <= 2 * (TIMER_LAZY_DELAY - 1)
  <2>1. Near(f) /\ Left(key[e]) <= Left(key[f])  BY <1>1, FirstIsEarliest
  <2> QED  BY <1>1, <1>3, <1>4, <2>1, Bounds DEF Near
<1> QED  BY <1>1, <1>2, <1>3, <1>5, <1>6 DEF Promise!Expire

\* When the expiry loop ends, nothing is overdue by the lazy delay or more
LEMMA DoneLeavesNothing ==
  ASSUME QueueInv, ExpireDone
  PROVE  Promise!Done
<1> USE DEF QueueInv
<1>1. left' = left  BY DEF ExpireDone, left, Armed, Left
<1>2. DOMAIN left = Armed /\ \A f \in Armed : left[f] = Left(asked[f])  BY DEF left
<1>3. ASSUME NEW f \in Armed  PROVE left[f] > 1 - TIMER_LAZY_DELAY
  <2>1. PICK e \in Event : First(e) /\ Left(key[e]) > 0  BY <1>3 DEF ExpireDone
  <2>2. Left(key[e]) <= Left(key[f])  BY <2>1, FirstIsEarliest
  <2>3. Near(e) /\ Near(f)  BY <2>1 DEF First, Armed
  <2> QED  BY <1>2, <2>1, <2>2, <2>3, Bounds DEF Near
<1> QED  BY <1>1, <1>2, <1>3 DEF Promise!Done, ExpireDone

\* Time passes for the requests as for the clock, also when the clock wraps
LEMMA TickElapses ==
  ASSUME QueueInv, NEW d \in Steps, Tick(d)
  PROVE  Promise!Elapse(d)
<1>1. Armed' = Armed /\ \A e \in Armed : Left(asked[e])' = Left(asked[e]) - d  BY TickInv
<1>2. DOMAIN left = Armed /\ \A f \in Armed : left[f] = Left(asked[f])  BY DEF left
<1>3. left' = [e \in Armed |-> Left(asked[e])']  BY <1>1 DEF left
<1>4. left' = [e \in DOMAIN left |-> left[e] - d]  BY <1>1, <1>2, <1>3
<1> QED  BY <1>4 DEF Promise!Elapse, Tick

\* Every step of the queue is a step of TimerService, or changes nothing its callers see
LEMMA NextIsPromiseStep == QueueInv /\ [Next]_vars => [Promise!Next]_(Promise!vars)
<1> SUFFICES ASSUME QueueInv, [Next]_vars  PROVE [Promise!Next]_(Promise!vars)  OBVIOUS
<1>1. CASE UNCHANGED vars
  BY <1>1 DEF vars, Promise!vars, left, Armed, Left
<1>2. CASE \E e \in Event, timer \in Timeouts : event_add_timer(e, timer)
  BY <1>2, AddRequests DEF Promise!Next
<1>3. CASE \E e \in Event : event_del_timer(e)
  BY <1>3, DisarmWithout DEF event_del_timer, Promise!Next, Promise!Cancel
<1>4. CASE \E e \in Event : Expire(e)  BY <1>4, ExpireInTime DEF Promise!Next
<1>5. CASE ExpireStart
  <2>1. left' = left  BY <1>5 DEF ExpireStart, left, Armed, Left
  <2> QED  BY <1>5, <2>1 DEF ExpireStart, Promise!Next, Promise!Begin
<1>6. CASE ExpireDone  BY <1>6, DoneLeavesNothing DEF Promise!Next
<1>7. CASE \E d \in Steps : Tick(d)  BY <1>7, TickElapses DEF Promise!Next
<1> QED  BY <1>1, <1>2, <1>3, <1>4, <1>5, <1>6, <1>7 DEF Next

\* The timers keep their promise: for every modulus, lazy delay, timeouts and movement of the clock
\* within the bounds, event_add_timer, event_del_timer and event_expire_timers on a queue that knows
\* its earliest timer implement TimerService.
THEOREM QueueKeepsPromise == Spec => KeepsPromise
<1>1. Init => QueueInv /\ Promise!Init  BY InitInv, InitIsPromiseInit
<1>2. QueueInv /\ [Next]_vars => QueueInv' /\ [Promise!Next]_(Promise!vars)
  BY NextInv, NextIsPromiseStep
<1> QED  BY <1>1, <1>2, PTL DEF Spec, KeepsPromise, Promise!Spec
===============================================================================
