---------------------- MODULE FixedWindowLimiterProofs ----------------------
(* The limiter lets no burst of two windows' worth through, and refuses    *)
(* nobody who has not earned it.                                           *)
EXTENDS FixedWindowLimiter, FiniteSetTheorems, TLAPS

USE PolicyType, BoundsType

LEMMA InitType == Init => TypeOK
<1> SUFFICES ASSUME Init PROVE TypeOK
  OBVIOUS
<1>1. Undefined \in [known : BOOLEAN, windowStartMs : Nat, count : Nat]
  BY DEF Undefined
<1>2. \A r \in [key : Keys, at : {0}, retryAfterSeconds : {0}] :
        r \in [key : Keys, at : Nat, retryAfterSeconds : Nat]
  OBVIOUS
<1> QED BY <1>1, <1>2 DEF Init, TypeOK

\* What the active bucket is, in terms of the map's.
LEMMA ActiveType ==
  ASSUME TypeOK, NEW s \in Scopes, NEW ip \in Ips
  PROVE  /\ <<s, ip>> \in Keys
         /\ ActiveBucket(s, ip).windowStartMs \in Nat
         /\ ActiveBucket(s, ip).count \in Nat
BY DEF TypeOK, ActiveBucket, Keys, Key

LEMMA CeilType ==
  ASSUME NEW left \in Int
  PROVE  (left + Second - 1) \div Second \in Int
OBVIOUS

LEMMA RetryType ==
  ASSUME TypeOK, NEW s \in Scopes, NEW ip \in Ips
  PROVE  RetryAfterSeconds(s, ip) \in Nat
<1> DEFINE left == ActiveBucket(s, ip).windowStartMs + WindowMs[s] - now
<1>1. left \in Int
  <2>1. ActiveBucket(s, ip).windowStartMs \in Nat
    BY ActiveType
  <2>2. WindowMs[s] \in Nat /\ now \in Nat
    BY DEF TypeOK
  <2> QED BY <2>1, <2>2
<1>2. (left + Second - 1) \div Second \in Int
  BY <1>1, CeilType
<1> QED BY <1>2 DEF RetryAfterSeconds

LEMMA AdmitType ==
  ASSUME TypeOK, NEW s \in Scopes, NEW ip \in Ips, Admit(s, ip)
  PROVE  TypeOK'
<1> DEFINE active == ActiveBucket(s, ip)
           entry  == [scope |-> s, ip |-> ip, at |-> now, window |-> active.windowStartMs,
                      nth |-> active.count + 1]
<1>1. active.windowStartMs \in Nat /\ active.count \in Nat
  BY ActiveType
<1> HIDE DEF active
<1>2. [known |-> TRUE, windowStartMs |-> active.windowStartMs, count |-> active.count + 1]
        \in [known : BOOLEAN, windowStartMs : Nat, count : Nat]
  BY <1>1
<1>3. buckets' \in [Keys -> [known : BOOLEAN, windowStartMs : Nat, count : Nat]]
  BY <1>2 DEF TypeOK, Admit, active
<1>4. entry \in Admission
  BY <1>1 DEF TypeOK, Admission
<1>5. admitted' = admitted \cup {entry}
  BY DEF Admit, active
<1> QED BY <1>3, <1>4, <1>5 DEF TypeOK, Admit

LEMMA RefuseType ==
  ASSUME TypeOK, NEW s \in Scopes, NEW ip \in Ips, Refuse(s, ip)
  PROVE  TypeOK'
<1>1. [key |-> <<s, ip>>, at |-> now, retryAfterSeconds |-> RetryAfterSeconds(s, ip)]
        \in [key : Keys, at : Nat, retryAfterSeconds : Nat]
  BY RetryType DEF TypeOK, Keys
<1> QED BY <1>1 DEF TypeOK, Refuse

LEMMA StepType == TypeOK /\ [Next]_vars => TypeOK'
<1> SUFFICES ASSUME TypeOK, [Next]_vars PROVE TypeOK'
  OBVIOUS
<1>1. CASE \E s \in Scopes, ip \in Ips : Consume(s, ip)
  BY <1>1, AdmitType, RefuseType DEF Consume
<1>2. CASE Tick
  BY <1>2 DEF Tick, TypeOK
<1>3. CASE UNCHANGED vars
  BY <1>3 DEF vars, TypeOK
<1> QED BY <1>1, <1>2, <1>3 DEF Next

\* The state has its types.
THEOREM TypeCorrect == Spec => []TypeOK
BY InitType, StepType, PTL DEF Spec

-----------------------------------------------------------------------------
(* Windows stay apart.                                                     *)

Inv == TypeOK /\ WindowsApart

LEMMA InitInv == Init => Inv
<1> SUFFICES ASSUME Init PROVE WindowsApart
  BY InitType DEF Inv
<1> QED BY DEF Init, WindowsApart, Undefined

\* A new admission is in order, and keeps the earlier ones so.
LEMMA AdmitApart ==
  ASSUME Inv, NEW s \in Scopes, NEW ip \in Ips, Admit(s, ip)
  PROVE  WindowsApart'
<1> USE DEF Inv
<1> DEFINE b      == buckets[<<s, ip>>]
           active == ActiveBucket(s, ip)
           entry  == [scope |-> s, ip |-> ip, at |-> now, window |-> active.windowStartMs,
                      nth |-> active.count + 1]
           W      == WindowMs[s]
<1>1. /\ <<s, ip>> \in Keys /\ W \in Nat /\ W > 0 /\ now \in Nat
      /\ b \in [known : BOOLEAN, windowStartMs : Nat, count : Nat]
      /\ b.known => b.windowStartMs <= now /\ b.count > 0
  BY DEF TypeOK, Keys, WindowsApart
<1>2. /\ active.windowStartMs \in Nat /\ active.count \in Nat /\ active.count < MaxRequests[s]
      /\ now' = now /\ admitted' = admitted \cup {entry}
      /\ buckets' = [buckets EXCEPT ![<<s, ip>>] =
           [known |-> TRUE, windowStartMs |-> active.windowStartMs, count |-> active.count + 1]]
  BY ActiveType DEF Admit, IsFull, Key
<1>3. \/ /\ active.windowStartMs = now /\ active.count = 0
         /\ ~b.known \/ now >= b.windowStartMs + W
      \/ /\ active.windowStartMs = b.windowStartMs /\ active.count = b.count
         /\ b.known /\ now < b.windowStartMs + W
  BY <1>1 DEF ActiveBucket, WindowIsOver, Key, TypeOK
<1> HIDE DEF active
<1>4. /\ buckets'[<<s, ip>>].known
      /\ buckets'[<<s, ip>>].windowStartMs = active.windowStartMs
      /\ buckets'[<<s, ip>>].count = active.count + 1
      /\ \A k \in Keys : k # <<s, ip>> => buckets'[k] = buckets[k]
  BY <1>1, <1>2 DEF TypeOK
<1>5. \A k \in Keys : buckets'[k].known => buckets'[k].windowStartMs <= now' /\ buckets'[k].count > 0
  BY <1>1, <1>2, <1>3, <1>4 DEF WindowsApart
<1>6. PICK new \in Admission :
         /\ new.scope = s /\ new.ip = ip /\ new.window = active.windowStartMs
         /\ new.nth = active.count + 1 /\ new.at = now
         /\ admitted' = admitted \cup {new}
  <2>1. entry \in Admission
    BY <1>2 DEF TypeOK, Admission
  <2> QED BY <2>1, <1>2
<1> HIDE DEF entry
<1>7. InWindow(new)' /\ Latest(new)'
  <2>1. InWindow(new)'
    BY <1>1, <1>2, <1>3, <1>6 DEF InWindow
  <2> QED BY <2>1, <1>1, <1>2, <1>4, <1>6 DEF Latest, Key
<1>8. ASSUME NEW e \in admitted PROVE InWindow(e)' /\ Latest(e)' /\ Separated(e, new)' /\ Separated(new, e)'
  <2>1. /\ e.scope \in Scopes /\ e.ip \in Ips /\ e.window \in Nat /\ e.nth \in Nat
        /\ InWindow(e) /\ Latest(e) /\ <<e.scope, e.ip>> \in Keys
    BY DEF TypeOK, Admission, WindowsApart, Keys
  <2>2. InWindow(e)'
    BY <2>1, <1>2 DEF InWindow
  <2>3. CASE e.scope = s /\ e.ip = ip
    <3>1. /\ b.known
          /\ \/ e.window = b.windowStartMs /\ e.nth <= b.count
             \/ e.window + W <= b.windowStartMs
      BY <2>1, <2>3 DEF Latest, Key
    <3>2. \/ e.window = active.windowStartMs /\ e.nth <= active.count
          \/ e.window + W <= active.windowStartMs
      BY <3>1, <1>1, <1>3, <2>1
    <3>3. Latest(e)'
      BY <3>2, <1>2, <1>4, <2>1, <2>3 DEF Latest, Key
    <3>4. Separated(e, new)' /\ Separated(new, e)'
      BY <3>2, <1>1, <1>2, <1>6, <2>1, <2>3 DEF Separated
    <3> QED BY <2>2, <3>3, <3>4
  <2>4. CASE ~(e.scope = s /\ e.ip = ip)
    <3>1. <<e.scope, e.ip>> # <<s, ip>>
      BY <2>4
    <3>2. buckets'[<<e.scope, e.ip>>] = buckets[<<e.scope, e.ip>>]
      BY <3>1, <2>1, <1>4
    <3>3. Latest(e)'
      BY <3>2, <2>1 DEF Latest, Key
    <3>4. Separated(e, new)' /\ Separated(new, e)'
      BY <1>6, <2>4 DEF Separated, SameClient
    <3> QED BY <2>2, <3>3, <3>4
  <2> QED BY <2>3, <2>4
<1>9. \A e, f \in admitted : Separated(e, f)'
  BY DEF WindowsApart, Separated, SameClient
<1>10. Separated(new, new)'
  BY <1>6, <1>1 DEF Separated
<1> QED BY <1>5, <1>6, <1>7, <1>8, <1>9, <1>10 DEF WindowsApart

LEMMA StepInv == Inv /\ [Next]_vars => Inv'
<1> SUFFICES ASSUME Inv, [Next]_vars PROVE WindowsApart'
  BY StepType DEF Inv
<1>1. CASE \E s \in Scopes, ip \in Ips : Consume(s, ip)
  <2>1. PICK s \in Scopes, ip \in Ips : Consume(s, ip)
    BY <1>1
  <2>2. CASE Admit(s, ip)
    BY <2>2, AdmitApart
  <2>3. CASE Refuse(s, ip)
    BY <2>3 DEF Refuse, Inv, WindowsApart, InWindow, Latest, Separated, SameClient
  <2> QED BY <2>1, <2>2, <2>3 DEF Consume
<1>2. CASE Tick
  <2>1. /\ now \in Nat /\ now' = now + 1 /\ buckets' = buckets /\ admitted' = admitted
        /\ buckets \in [Keys -> [known : BOOLEAN, windowStartMs : Nat, count : Nat]]
        /\ admitted \subseteq Admission
    BY <1>2 DEF Tick, Inv, TypeOK
  <2>2. \A k \in Keys : buckets'[k].known => buckets'[k].windowStartMs <= now' /\ buckets'[k].count > 0
    BY <2>1 DEF Inv, WindowsApart
  <2>3. \A e \in admitted : InWindow(e)' /\ Latest(e)'
    BY <2>1 DEF Inv, WindowsApart, InWindow, Latest, Admission
  <2>4. \A e, f \in admitted : Separated(e, f)'
    BY <2>1 DEF Inv, WindowsApart, Separated, SameClient
  <2> QED BY <2>1, <2>2, <2>3, <2>4 DEF WindowsApart
<1>3. CASE UNCHANGED vars
  BY <1>3 DEF vars, Inv, WindowsApart, InWindow, Latest, Separated, SameClient
<1> QED BY <1>1, <1>2, <1>3 DEF Next

THEOREM WindowsStayApart == Spec => []WindowsApart
<1>1. Inv => WindowsApart
  BY DEF Inv
<1> QED BY <1>1, InitInv, StepInv, PTL DEF Spec

-----------------------------------------------------------------------------
(* Less than two windows' worth.                                           *)

\* A stretch that starts with its first request's window meets no other: its requests keep
\* their numbers.  Any other stretch misses the request that opened the first window, so
\* that the rest of this window gets the numbers from 1 and the second those from max: no
\* three windows meet the stretch, and no two requests get the same number.
LEMMA Burst ==
  ASSUME Inv, NEW first \in admitted
  PROVE  Cardinality(AdmittedWithin(first.scope, first.ip, first.at)) < 2 * MaxRequests[first.scope]
<1> USE DEF Inv
<1> DEFINE A       == AdmittedWithin(first.scope, first.ip, first.at)
           max     == MaxRequests[first.scope]
           W       == WindowMs[first.scope]
           opens   == first.at = first.window
           last    == 2 * max - 1
           number  == [e \in A |-> IF opens THEN e.nth
                                  ELSE IF e.window = first.window THEN e.nth - 1 ELSE e.nth + max - 1]
<1>1. max \in Nat /\ max > 0 /\ W \in Nat /\ W > 0 /\ first \in Admission
  BY DEF TypeOK, Admission
<1>2. \A e \in A : /\ e \in admitted /\ e \in Admission /\ SameClient(e, first)
                   /\ first.at <= e.at /\ e.at < first.at + W
                   /\ e.window <= e.at /\ e.at < e.window + W /\ e.nth \in 1..max
                   /\ e.nth = 1 => e.at = e.window
  BY DEF AdmittedWithin, TypeOK, WindowsApart, InWindow, SameClient
<1>3. first.window <= first.at /\ first.at < first.window + W
  BY DEF WindowsApart, InWindow
<1>4. number \in [A -> 1..last]
  <2>1. ASSUME NEW e \in A
        PROVE  /\ e.nth \in 1..last /\ e.nth + max - 1 \in 1..last
               /\ ~opens /\ e.window = first.window => e.nth - 1 \in 1..last
    <3>1. e.nth \in Nat /\ 1 <= e.nth /\ e.nth <= max /\ first.at <= e.at
      BY <1>1, <1>2
    <3>2. ASSUME ~opens, e.window = first.window PROVE e.nth # 1
      <4>1. e.at # e.window
        BY <1>1, <1>2, <1>3, <3>1, <3>2 DEF Admission
      <4> QED BY <1>2, <4>1
    <3> QED BY <1>1, <3>1, <3>2
  <2> QED BY <2>1
<1>5. ASSUME NEW e \in A, NEW f \in A, number[e] = number[f] PROVE e = f
  <2>1. /\ e.nth \in 1..max /\ f.nth \in 1..max
        /\ e.window \in Nat /\ f.window \in Nat /\ e.at \in Nat /\ f.at \in Nat
        /\ first.window \in Nat /\ first.at \in Nat
    BY <1>1, <1>2 DEF Admission
  <2>2. Separated(e, f) /\ Separated(e, first) /\ Separated(f, first)
    BY <1>2 DEF WindowsApart
  <2>3. SameClient(e, first) /\ SameClient(f, first) /\ SameClient(e, f) /\ e.scope = first.scope
    BY <1>2 DEF SameClient
  <2>4. ASSUME opens PROVE e.window = first.window /\ f.window = first.window
    <3>1. \A x \in {e, f} : \/ x.window = first.window
                           \/ first.window + W <= x.window
                           \/ x.window + W <= first.window
      BY <2>2, <2>3 DEF Separated, SameClient
    <3>2. \A x \in {e, f} : /\ x.window \in Nat /\ x.at \in Nat /\ first.at <= x.at
                           /\ x.at < first.at + W /\ x.window <= x.at /\ x.at < x.window + W
      BY <1>2, <2>1
    <3> QED BY <1>1, <2>1, <2>4, <3>1, <3>2
  <2>5. e.nth = f.nth /\ (e.window = first.window <=> f.window = first.window)
    <3>1. CASE opens
      BY <1>5, <2>4, <3>1
    <3>2. CASE ~opens
      <4>1. e.window = first.window => number[e] = e.nth - 1 /\ number[e] < max
        BY <1>1, <2>1, <3>2
      <4>2. f.window = first.window => number[f] = f.nth - 1 /\ number[f] < max
        BY <1>1, <2>1, <3>2
      <4>3. e.window # first.window => number[e] = e.nth + max - 1 /\ number[e] >= max
        BY <1>1, <2>1, <3>2
      <4>4. f.window # first.window => number[f] = f.nth + max - 1 /\ number[f] >= max
        BY <1>1, <2>1, <3>2
      <4>5. number[e] \in Int
        BY <1>1, <2>1, <4>1, <4>3
      <4> HIDE DEF number, opens, max
      <4> QED BY <1>1, <1>5, <2>1, <4>1, <4>2, <4>3, <4>4, <4>5
    <3> QED BY <3>1, <3>2
  <2>6. e.window = f.window
    <3>1. CASE e.window = first.window
      BY <3>1, <2>5
    <3>2. CASE e.window # first.window /\ f.window # first.window
      <4>1. /\ first.window + W <= e.window \/ e.window + W <= first.window
            /\ first.window + W <= f.window \/ f.window + W <= first.window
            /\ e.window = f.window \/ e.window + W <= f.window \/ f.window + W <= e.window
        BY <3>2, <2>2, <2>3 DEF Separated, SameClient
      <4>2. /\ first.at <= e.at /\ e.at < first.at + W /\ e.window <= e.at /\ e.at < e.window + W
            /\ first.at <= f.at /\ f.at < first.at + W /\ f.window <= f.at /\ f.at < f.window + W
        BY <1>2
      <4>3. first.window + W <= e.window /\ first.window + W <= f.window
        BY <4>1, <4>2, <2>1, <1>1, <1>3
      <4> QED BY <4>1, <4>2, <4>3, <2>1, <1>1, <1>3
    <3> QED BY <3>1, <3>2, <2>5
  <2> QED BY <2>5, <2>2, <2>3, <2>6 DEF Separated
<1>6. number \in Injection(A, 1..last)
  BY <1>4, <1>5 DEF Injection, IsInjective
<1>7. IsFiniteSet(1..last) /\ Cardinality(1..last) = last
  <2>1. 1 \in Int /\ last \in Int /\ last >= 1
    BY <1>1
  <2> HIDE DEF last
  <2>2. IsFiniteSet(1..last)
    BY <2>1, FS_Interval
  <2>3. Cardinality(1..last) = IF 1 > last THEN 0 ELSE last - 1 + 1
    BY <2>1, FS_Interval
  <2> QED BY <2>1, <2>2, <2>3
<1>8. last \in Nat /\ last < 2 * max
  BY <1>1
<1> HIDE DEF number, A, max, last
<1>9. Cardinality(A) <= Cardinality(1..last)
  BY <1>6, <1>7, FS_Injection
<1>10. IsFiniteSet(A) /\ Cardinality(A) \in Nat
  <2>1. IsFiniteSet(A)
    BY <1>6, <1>7, FS_Injection
  <2> QED BY <2>1, FS_CardinalityType
<1>11. Cardinality(A) < 2 * max
  BY <1>1, <1>7, <1>8, <1>9, <1>10 DEF max
<1> QED BY <1>11 DEF A, max

\* No stretch as long as a window lets two windows' worth through.
THEOREM BurstsAreBounded == Spec => []BurstIsBounded
<1>1. Inv => BurstIsBounded
  BY Burst DEF BurstIsBounded
<1> QED BY <1>1, InitInv, StepInv, PTL DEF Spec

-----------------------------------------------------------------------------
(* Refusals are earned.                                                    *)

Earned == Inv /\ RefusalInv

\* Rounding up to whole seconds: as many are enough, and one less is too few.
LEMMA RoundedUp ==
  ASSUME NEW left \in Nat, left > 0, NEW told \in Int, told = (left + Second - 1) \div Second
  PROVE  told > 0 /\ told * Second >= left /\ (told - 1) * Second < left
<1> DEFINE n == left + Second - 1
<1>1. n \in Nat /\ n >= Second
  OBVIOUS
<1> HIDE DEF n
<1>2. told * Second <= n /\ n < (told + 1) * Second
  BY <1>1 DEF n
<1>3. (told + 1) * Second = told * Second + Second /\ (told - 1) * Second = told * Second - Second
  OBVIOUS
<1>4. told * Second \in Int
  OBVIOUS
<1>5. told * Second > 0
  BY <1>1, <1>2, <1>3, <1>4
<1>6. told > 0
  BY <1>5
<1> QED BY <1>2, <1>3, <1>4, <1>6 DEF n

\* A bucket is full when its window runs and has nothing left.
LEMMA FullBucket ==
  ASSUME TypeOK, NEW s \in Scopes, NEW ip \in Ips
  PROVE  LET b == buckets[Key(s, ip)]
         IN  /\ Key(s, ip) \in Keys /\ b \in [known : BOOLEAN, windowStartMs : Nat, count : Nat]
             /\ IsFull(s, ip) <=> b.known /\ now < b.windowStartMs + WindowMs[s] /\ b.count >= MaxRequests[s]
             /\ IsFull(s, ip) => ActiveBucket(s, ip) = b
<1> DEFINE b == buckets[Key(s, ip)]
<1>1. Key(s, ip) \in Keys /\ b \in [known : BOOLEAN, windowStartMs : Nat, count : Nat]
  BY DEF TypeOK, Key, Keys
<1>2. now \in Nat /\ WindowMs[s] \in Nat /\ MaxRequests[s] \in Nat /\ MaxRequests[s] > 0
  BY DEF TypeOK
<1>3. CASE WindowIsOver(s, ip)
  <2>1. ActiveBucket(s, ip).count = 0
    BY <1>3 DEF ActiveBucket
  <2> QED BY <2>1, <1>1, <1>2, <1>3 DEF IsFull, WindowIsOver
<1>4. CASE ~WindowIsOver(s, ip)
  <2>1. ActiveBucket(s, ip) = b
    BY <1>4 DEF ActiveBucket
  <2> QED BY <2>1, <1>1, <1>2, <1>4 DEF IsFull, WindowIsOver
<1> QED BY <1>3, <1>4

\* What was let through stays: later requests add to it.
LEMMA StretchGrows ==
  ASSUME TypeOK, IsFiniteSet(admitted)', admitted \subseteq admitted', NEW s, NEW ip, NEW t
  PROVE  /\ Cardinality(AdmittedWithin(s, ip, t)) <= Cardinality(AdmittedWithin(s, ip, t)')
         /\ Cardinality(AdmittedWithin(s, ip, t)) \in Nat /\ Cardinality(AdmittedWithin(s, ip, t)') \in Nat
<1>1. AdmittedWithin(s, ip, t) \subseteq AdmittedWithin(s, ip, t)' /\ AdmittedWithin(s, ip, t)' \subseteq admitted'
  BY DEF AdmittedWithin
<1>2. IsFiniteSet(AdmittedWithin(s, ip, t)')
  BY <1>1, FS_Subset
<1> QED BY <1>1, <1>2, FS_Subset, FS_CardinalityType

\* A full window has let maxRequests requests through, all within its length.
LEMMA FullIsEarned ==
  ASSUME Earned, NEW s \in Scopes, NEW ip \in Ips, IsFull(s, ip)
  PROVE  Cardinality(AdmittedWithin(s, ip, now - WindowMs[s] + 1)) >= MaxRequests[s]
<1> DEFINE b     == buckets[Key(s, ip)]
           A     == AdmittedWithin(s, ip, now - WindowMs[s] + 1)
           max   == MaxRequests[s]
           Nth(n) == CHOOSE e \in admitted : e.scope = s /\ e.ip = ip /\ e.window = b.windowStartMs /\ e.nth = n
           nth   == [n \in 1..max |-> Nth(n)]
<1>1. /\ b \in [known : BOOLEAN, windowStartMs : Nat, count : Nat]
      /\ b.known /\ now < b.windowStartMs + WindowMs[s] /\ b.count >= max
      /\ now \in Nat /\ WindowMs[s] \in Nat /\ max \in Nat
  BY FullBucket DEF Earned, Inv, TypeOK
<1>2. \A n \in 1..max : n \in 1..b.count
  BY <1>1
<1>3. ASSUME NEW n \in 1..max PROVE Nth(n) \in A /\ Nth(n).nth = n
  <2>1. \E e \in admitted : e.scope = s /\ e.ip = ip /\ e.window = b.windowStartMs /\ e.nth = n
    BY <1>1, <1>2 DEF Earned, RefusalInv, WindowIsAccounted
  <2> DEFINE e == Nth(n)
  <2>2. e \in admitted /\ e.scope = s /\ e.ip = ip /\ e.window = b.windowStartMs /\ e.nth = n
    BY <2>1
  <2> HIDE DEF e
  <2>3. e.at \in Nat /\ b.windowStartMs <= e.at /\ e.at <= now
    BY <2>2 DEF Earned, Inv, TypeOK, Admission, WindowsApart, InWindow
  <2>4. e \in A
    BY <1>1, <2>2, <2>3 DEF AdmittedWithin
  <2> QED BY <2>2, <2>4 DEF e
<1> HIDE DEF Nth
<1>4. nth \in Injection(1..max, A)
  BY <1>3 DEF Injection, IsInjective
<1>5. IsFiniteSet(A)
  <2>1. A \subseteq admitted
    BY DEF AdmittedWithin
  <2> QED BY <2>1, FS_Subset DEF Earned, RefusalInv
<1>6. Cardinality(1..max) = max
  <2>1. 1 \in Int /\ max \in Int
    BY <1>1
  <2>2. Cardinality(1..max) = IF 1 > max THEN 0 ELSE max - 1 + 1
    BY <2>1, FS_Interval
  <2> QED BY <2>2, <1>1
<1> HIDE DEF A, nth, max
<1>7. Cardinality(1..max) <= Cardinality(A)
  BY <1>4, <1>5, FS_Injection
<1> QED BY <1>6, <1>7 DEF A, max

\* Letting a request through numbers it, and ends what is known of a refused client's bucket
\* only if the request is that client's and later.
LEMMA AdmitEarned ==
  ASSUME Earned, TypeOK', NEW s \in Scopes, NEW ip \in Ips, Admit(s, ip)
  PROVE  RefusalInv'
<1> DEFINE active == ActiveBucket(s, ip)
           entry  == [scope |-> s, ip |-> ip, at |-> now, window |-> active.windowStartMs,
                      nth |-> active.count + 1]
<1>1. /\ TypeOK /\ now' = now /\ refused' = refused /\ admitted' = admitted \cup {entry}
      /\ buckets' = [buckets EXCEPT ![Key(s, ip)] =
           [known |-> TRUE, windowStartMs |-> active.windowStartMs, count |-> active.count + 1]]
  BY DEF Admit, Earned, Inv
<1>2. active.windowStartMs \in Nat /\ active.count \in Nat /\ Key(s, ip) \in Keys
  BY <1>1, ActiveType DEF Key
<1>3. \/ active.count = 0
      \/ active = buckets[Key(s, ip)] /\ buckets[Key(s, ip)].known
  BY DEF ActiveBucket, WindowIsOver
<1>4. IsFiniteSet(admitted')
  BY <1>1, FS_AddElement DEF Earned, RefusalInv
<1> HIDE DEF active
<1>5. WindowIsAccounted'
  <2> SUFFICES ASSUME NEW x \in Scopes, NEW y \in Ips, buckets'[Key(x, y)].known,
                      NEW n \in 1..buckets'[Key(x, y)].count
               PROVE  \E e \in admitted' : e.scope = x /\ e.ip = y
                         /\ e.window = buckets'[Key(x, y)].windowStartMs /\ e.nth = n
    BY DEF WindowIsAccounted
  <2>1. Key(x, y) \in Keys
    BY DEF Key, Keys
  <2>2. CASE Key(x, y) = Key(s, ip)
    <3>1. x = s /\ y = ip /\ buckets'[Key(x, y)].windowStartMs = active.windowStartMs
          /\ buckets'[Key(x, y)].count = active.count + 1
      BY <2>2, <1>1, <1>2 DEF Key, TypeOK
    <3>2. CASE n = active.count + 1
      <4>1. /\ entry \in admitted' /\ entry.scope = s /\ entry.ip = ip
            /\ entry.window = active.windowStartMs /\ entry.nth = active.count + 1
        BY <1>1
      <4> QED BY <3>1, <3>2, <4>1
    <3>3. CASE n # active.count + 1
      <4>1. n \in 1..active.count
        BY <3>1, <3>3, <1>2
      <4>2. active = buckets[Key(s, ip)] /\ buckets[Key(s, ip)].known
        BY <4>1, <1>3
      <4>3. \E e \in admitted : e.scope = s /\ e.ip = ip /\ e.window = active.windowStartMs /\ e.nth = n
        BY <4>1, <4>2 DEF Earned, RefusalInv, WindowIsAccounted
      <4> QED BY <4>3, <3>1, <1>1
    <3> QED BY <3>2, <3>3
  <2>3. CASE Key(x, y) # Key(s, ip)
    <3>1. buckets'[Key(x, y)] = buckets[Key(x, y)]
      BY <2>1, <2>3, <1>1 DEF TypeOK
    <3> QED BY <3>1, <1>1 DEF Earned, RefusalInv, WindowIsAccounted
  <2> QED BY <2>2, <2>3
<1>6. RefusalStands'
  <2> DEFINE rs == refused.key[1]
             ri == refused.key[2]
             b  == buckets[Key(rs, ri)]
  <2> SUFFICES ASSUME refused.retryAfterSeconds > 0 PROVE RefusalStands'
    BY <1>1 DEF RefusalStands
  <2>1. rs \in Scopes /\ ri \in Ips /\ Key(rs, ri) \in Keys /\ refused.at \in Nat /\ now \in Nat
        /\ MaxRequests[rs] \in Nat
    BY <1>1 DEF TypeOK, Keys, Key
  <2>2. refused.at <= now /\ Cardinality(AdmittedWithin(rs, ri, refused.at - WindowMs[rs] + 1)) >= MaxRequests[rs]
    BY DEF Earned, RefusalInv, RefusalStands
  <2>3. Cardinality(AdmittedWithin(rs, ri, refused.at - WindowMs[rs] + 1)') >= MaxRequests[rs]
    BY <2>1, <2>2, <1>1, <1>4, StretchGrows
  <2>4. ASSUME \A e \in admitted' : e.scope = rs /\ e.ip = ri => e.at <= refused.at
        PROVE  buckets'[Key(rs, ri)] = b
               /\ \A e \in admitted : e.scope = rs /\ e.ip = ri => e.at <= refused.at
    <3>1. \A e \in admitted : e.scope = rs /\ e.ip = ri => e.at <= refused.at
      BY <2>4, <1>1
    <3>2. Key(rs, ri) # Key(s, ip)
      <4> SUFFICES ASSUME Key(rs, ri) = Key(s, ip) PROVE FALSE
        OBVIOUS
      <4>1. rs = s /\ ri = ip
        BY DEF Key
      <4>2. refused.at = now
        <5>1. entry \in admitted' /\ entry.scope = rs /\ entry.ip = ri /\ entry.at = now
          BY <4>1, <1>1
        <5> QED BY <5>1, <2>1, <2>2, <2>4
      <4>3. b.known /\ b.count >= MaxRequests[rs] /\ refused.at < b.windowStartMs + WindowMs[rs]
        BY <3>1 DEF Earned, RefusalInv, RefusalStands
      <4>4. IsFull(s, ip)
        BY <4>1, <4>2, <4>3, <1>1, FullBucket
      <4> QED BY <4>4 DEF Admit
    <3>3. buckets'[Key(rs, ri)] = b
      BY <3>2, <2>1, <1>1 DEF TypeOK
    <3> QED BY <3>1, <3>3
  <2> QED BY <2>2, <2>3, <2>4, <1>1 DEF Earned, RefusalInv, RefusalStands
<1> QED BY <1>4, <1>5, <1>6 DEF RefusalInv

\* A refusal is of a full bucket.
LEMMA RefuseEarned ==
  ASSUME Earned, TypeOK', NEW s \in Scopes, NEW ip \in Ips, Refuse(s, ip)
  PROVE  RefusalInv'
<1> DEFINE b    == buckets[Key(s, ip)]
           told == RetryAfterSeconds(s, ip)
           left == b.windowStartMs + WindowMs[s] - now
<1>1. /\ TypeOK /\ now' = now /\ buckets' = buckets /\ admitted' = admitted
      /\ refused' = [key |-> <<s, ip>>, at |-> now, retryAfterSeconds |-> told]
      /\ IsFull(s, ip)
  BY DEF Refuse, Earned, Inv
<1>2. /\ b \in [known : BOOLEAN, windowStartMs : Nat, count : Nat] /\ b.known
      /\ now < b.windowStartMs + WindowMs[s] /\ b.count >= MaxRequests[s]
      /\ ActiveBucket(s, ip) = b /\ now \in Nat /\ WindowMs[s] \in Nat
  BY <1>1, FullBucket DEF TypeOK
<1>3. told = (left + Second - 1) \div Second
  <2>1. left \in Nat /\ left > 0
    BY <1>2
  <2>2. (left + Second - 1) \div Second \in Int
    BY <2>1
  <2> HIDE DEF left
  <2>3. (left + Second - 1) \div Second > 0
    BY <2>1, <2>2, RoundedUp
  <2> QED BY <2>2, <2>3, <1>2 DEF RetryAfterSeconds, left
<1>4. IsFiniteSet(admitted') /\ WindowIsAccounted'
  BY <1>1 DEF Earned, RefusalInv, WindowIsAccounted
<1>5. Cardinality(AdmittedWithin(s, ip, now - WindowMs[s] + 1)) >= MaxRequests[s]
  BY <1>1, FullIsEarned
<1>6. refused'.key[1] = s /\ refused'.key[2] = ip /\ refused'.at = now /\ refused'.retryAfterSeconds = told
  BY <1>1
<1> HIDE DEF told
<1>7. AdmittedWithin(s, ip, now - WindowMs[s] + 1)' = AdmittedWithin(s, ip, now - WindowMs[s] + 1)
  BY <1>1 DEF AdmittedWithin
<1>8. RefusalStands'
  BY <1>1, <1>2, <1>3, <1>5, <1>6, <1>7 DEF RefusalStands
<1> QED BY <1>4, <1>8 DEF RefusalInv

LEMMA StepEarned == Earned /\ [Next]_vars => Earned'
<1> SUFFICES ASSUME Earned, [Next]_vars PROVE RefusalInv'
  BY StepInv DEF Earned
<1>1. TypeOK'
  BY StepType DEF Earned, Inv
<1>2. ASSUME now' \in Nat, now \in Nat, now' >= now, UNCHANGED <<buckets, admitted, refused>> PROVE RefusalInv'
  <2>1. refused.at \in Nat
    BY DEF Earned, Inv, TypeOK
  <2>2. \A s, ip, t : AdmittedWithin(s, ip, t)' = AdmittedWithin(s, ip, t)
    BY <1>2 DEF AdmittedWithin
  <2> QED BY <1>2, <2>1, <2>2 DEF Earned, RefusalInv, WindowIsAccounted, RefusalStands
<1>3. CASE \E s \in Scopes, ip \in Ips : Consume(s, ip)
  BY <1>1, <1>3, AdmitEarned, RefuseEarned DEF Consume
<1>4. CASE Tick
  BY <1>2, <1>4 DEF Tick, Earned, Inv, TypeOK
<1>5. CASE UNCHANGED vars
  BY <1>2, <1>5 DEF vars, Earned, Inv, TypeOK
<1> QED BY <1>3, <1>4, <1>5 DEF Next

LEMMA InitEarned == Init => Earned
<1> SUFFICES ASSUME Init PROVE RefusalInv
  BY InitInv DEF Earned
<1>1. IsFiniteSet(admitted)
  BY FS_EmptySet DEF Init
<1>2. WindowIsAccounted
  BY DEF Init, WindowIsAccounted, Undefined, Key, Keys
<1>3. RefusalStands
  BY DEF Init, RefusalStands
<1> QED BY <1>1, <1>2, <1>3 DEF RefusalInv

\* What the bucket still shows of the last refusal is what Retry-After promised.
LEMMA EarnedMeans == Earned => RefusalIsEarned
<1> DEFINE s      == refused.key[1]
           ip     == refused.key[2]
           told   == refused.retryAfterSeconds
           waited == now - refused.at
           b      == buckets[Key(s, ip)]
           left   == b.windowStartMs + WindowMs[s] - refused.at
<1> SUFFICES ASSUME Earned, told > 0
             PROVE  /\ Cardinality(AdmittedWithin(s, ip, refused.at - WindowMs[s] + 1)) >= MaxRequests[s]
                    /\ (\A e \in admitted : e.scope = s /\ e.ip = ip => e.at <= refused.at) =>
                          /\ waited >= told * Second => ~IsFull(s, ip)
                          /\ waited <= (told - 1) * Second => IsFull(s, ip)
  BY DEF RefusalIsEarned
<1>1. /\ s \in Scopes /\ ip \in Ips /\ told \in Nat /\ refused.at \in Nat /\ now \in Nat /\ WindowMs[s] \in Nat
      /\ TypeOK
  BY DEF Earned, Inv, TypeOK, Keys
<1>2. Cardinality(AdmittedWithin(s, ip, refused.at - WindowMs[s] + 1)) >= MaxRequests[s]
  BY DEF Earned, RefusalInv, RefusalStands
<1>3. ASSUME \A e \in admitted : e.scope = s /\ e.ip = ip => e.at <= refused.at
      PROVE  /\ waited >= told * Second => ~IsFull(s, ip)
             /\ waited <= (told - 1) * Second => IsFull(s, ip)
  <2>1. /\ b.known /\ b.count >= MaxRequests[s] /\ refused.at < b.windowStartMs + WindowMs[s]
        /\ told = (left + Second - 1) \div Second
    BY <1>3 DEF Earned, RefusalInv, RefusalStands
  <2>2. b.windowStartMs \in Nat /\ (IsFull(s, ip) <=> now < b.windowStartMs + WindowMs[s])
    BY <1>1, <2>1, FullBucket
  <2>3. left \in Nat /\ left > 0
    BY <1>1, <2>1, <2>2
  <2>4. waited = now - refused.at /\ (IsFull(s, ip) <=> waited < left) /\ waited \in Int
    BY <1>1, <2>2
  <2> HIDE DEF left, told, waited
  <2>5. told * Second >= left /\ (told - 1) * Second < left
    BY <1>1, <2>1, <2>3, RoundedUp
  <2>6. told * Second \in Int /\ (told - 1) * Second \in Int
    BY <1>1
  <2> QED BY <2>3, <2>4, <2>5, <2>6
<1> QED BY <1>2, <1>3

\* A client is refused for its own requests of the last window's length only, and waiting as
\* long as Retry-After says is enough while a second less is not, for every policy.
THEOREM RefusalsAreEarned == Spec => []RefusalIsEarned
BY InitEarned, StepEarned, EarnedMeans, PTL DEF Spec
=============================================================================
