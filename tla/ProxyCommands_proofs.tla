-------------------------- MODULE ProxyCommands_proofs --------------------------
(***************************************************************************)
(* What the security proxy promises, for any valid configuration, any      *)
(* number of clients and commands, restarts included.                      *)
(*                                                                         *)
(* WindowsKept says that the slots implement AttendedSlots.  The code and  *)
(* the history count separately: the code what is left of a window, the    *)
(* history what left the proxy.  CountsAlike is what relates the two.      *)
(*                                                                         *)
(* Five invariants, one per part of the state, carry the theorems: IInv    *)
(* (slots and windows), UInv (keychain and unlocks), GInv (master secrets  *)
(* and gate tokens), RInv (refresh tokens) and BInv (TLS and bootstrap).   *)
(***************************************************************************)
EXTENDS ProxyCommands, FiniteSetTheorems, SequenceTheorems, WellFoundedInduction, TLAPS

Returning(s) == \E r \in Routes : r.refresh = s

Counted == [open : BOOLEAN, given : Nat, age : Nat]

\* What the code keeps of a window and what the history does, in terms of uses.
UsesAlike(s, left, counted) ==
    IF ATTENDED[s].max_uses = NoLimit THEN left.uses_left = NoLimit /\ counted.given \in {0, 1}
    ELSE left.uses_left \in Nat \ {0} /\ counted.given + left.uses_left = ATTENDED[s].max_uses

CountsAlike(s) ==
    /\ IF ATTENDED[s].ttl = NoLimit THEN SLOT_STATE[s].expires = NoLimit
       ELSE SLOT_STATE[s].expires \in Nat
            /\ window[s].age + SLOT_STATE[s].expires = ATTENDED[s].ttl
    /\ UsesAlike(s, SLOT_STATE[s], window[s])

Shapes ==
    /\ DOMAIN SLOTS = Slots
    /\ SLOT_STATE \in [Slots -> Window \union {NoWindow}]
    /\ window \in [Slots -> Counted]

SlotOK(s) ==
    /\ window[s].open <=> SLOT_STATE[s] # NoWindow
    /\ SLOT_STATE[s] # NoWindow => s \in Attended /\ SLOTS[s] # NoValue /\ CountsAlike(s)
    /\ s \in Attended /\ SLOTS[s] # NoValue /\ SLOT_STATE[s] = NoWindow => Returning(s)

IInv == config \in Configs /\ ValidConfig(config) /\ Shapes /\ \A s \in Slots : SlotOK(s)

\* A step of AttendedSlots, or none.
Promised == [Abstract!Next]_<<ATTENDED, window>>

-----------------------------------------------------------------------------
(* The operations on slots *)

\* What main() accepts.
LEMMA AttendedPolicy ==
    ASSUME IInv
    PROVE  /\ Attended \subseteq Slots
           /\ \A s \in Attended :
                  /\ ATTENDED[s].ttl = NoLimit \/ ATTENDED[s].ttl \in Nat \ {0}
                  /\ ATTENDED[s].max_uses = NoLimit \/ ATTENDED[s].max_uses \in Nat \ {0}
                  /\ ATTENDED[s].ttl # NoLimit \/ ATTENDED[s].max_uses # NoLimit
  BY DEF IInv, ValidConfig, Policy, Limit, Attended, ATTENDED

\* A step in which windows close only and what leaves is allowed to.
LEMMA GivingIsPromised ==
    ASSUME config' = config, window' \in [Slots -> Counted],
           \A s \in Slots :
               /\ window'[s].given # window[s].given =>
                      Abstract!MayGive(s) /\ window'[s].given \in Abstract!MoreGiven(s)
               /\ window'[s].open => window[s].open
               /\ window'[s].age = window[s].age
    PROVE  Promised
  <1>1. Abstract!Give
    BY DEF Abstract!Give, Abstract!Window, Counted
  <1> QED BY <1>1 DEF Promised, Abstract!Next, ATTENDED

\* Wiping slots closes their windows.
LEMMA WipeKeeps ==
    ASSUME IInv, config' = config, NEW S \in SUBSET Slots, Wipe(S)
    PROVE  IInv' /\ Promised
  <1>1. /\ SLOTS' = [s \in Slots |-> IF s \in S THEN NoValue ELSE SLOTS[s]]
        /\ SLOT_STATE' = [s \in Slots |-> IF s \in S THEN NoWindow ELSE SLOT_STATE[s]]
        /\ window' = [s \in Slots |-> [window[s] EXCEPT !.open = @ /\ s \notin S]]
    BY DEF Wipe, Wiping, Abstract!Closing
  <1>2. Shapes'
    BY <1>1 DEF IInv, Shapes, Counted
  <1>3. ASSUME NEW s \in Slots  PROVE SlotOK(s)'
    <2>1. SlotOK(s)
      BY DEF IInv
    <2>2. CASE s \in S
      BY <1>1, <2>2 DEF SlotOK, IInv, Shapes, Counted
    <2>3. CASE s \notin S
      BY <1>1, <2>1, <2>3
         DEF SlotOK, CountsAlike, UsesAlike, Returning, Routes, ROUTES, Attended, ATTENDED, IInv, Shapes, Counted
    <2> QED BY <2>2, <2>3
  <1>4. \A s \in Slots : /\ window'[s].given = window[s].given /\ window'[s].age = window[s].age
                         /\ window'[s].open => window[s].open
    BY <1>1 DEF IInv, Shapes, Counted
  <1>5. Promised
    BY <1>2, <1>4, GivingIsPromised DEF Shapes
  <1> QED BY <1>2, <1>3, <1>5 DEF IInv, ValidConfig

\* What is read is read some number of times.
LEMMA ReadSomeTimes ==
    ASSUME NEW S, NEW q \in Seq(S), NEW I \in SUBSET DOMAIN q, NEW s \in {q[i] : i \in I}
    PROVE  Times(q, I, s) \in Nat \ {0}
  <1> DEFINE J == {i \in I : q[i] = s}
  <1>1. Len(q) \in Nat /\ DOMAIN q = 1..Len(q) /\ J \subseteq 1..Len(q)
    OBVIOUS
  <1>2. IsFiniteSet(1..Len(q))
    BY <1>1, FS_Interval
  <1>3. IsFiniteSet(J)
    BY <1>1, <1>2, FS_Subset
  <1>4. J # {}
    OBVIOUS
  <1>5. Cardinality(J) \in Nat /\ Cardinality(J) # 0
    BY <1>3, <1>4, FS_CardinalityType, FS_EmptySet
  <1> QED BY <1>5 DEF Times

\* Of n uses, those are served that are left of the window.
LEMMA ServedCount ==
    ASSUME NEW w \in Window, NEW n \in Nat, w.uses_left \in Nat
    PROVE  Served(w, n) = IF w.uses_left <= n THEN w.uses_left ELSE n
  <1> DEFINE m == IF w.uses_left <= n THEN w.uses_left ELSE n
             K == {k \in 1..n : Use(w, k - 1) # NoWindow}
  <1>1. ASSUME NEW k \in 1..n  PROVE Use(w, k - 1) # NoWindow <=> k <= w.uses_left
    <2>1. CASE k <= w.uses_left
      <3>1. [w EXCEPT !.uses_left = @ - (k - 1)] \in Window
        BY <2>1 DEF Window, Limit
      <3>2. Use(w, k - 1) = [w EXCEPT !.uses_left = @ - (k - 1)]
        BY <2>1, NullAssumption DEF Use
      <3> QED BY <2>1, <3>1, <3>2, NullAssumption DEF Window, Limit
    <2>2. CASE ~(k <= w.uses_left)
      BY <2>2, NullAssumption DEF Use
    <2> QED BY <2>1, <2>2
  <1>2. m \in Nat /\ K = 1..m
    <2> HIDE DEF K
    <2>1. \A k : k \in K <=> k \in 1..n /\ k <= w.uses_left
      BY <1>1 DEF K
    <2>2. m \in Nat
      OBVIOUS
    <2>3. \A k : k \in K <=> k \in 1..m
      BY <2>1
    <2> QED BY <2>2, <2>3
  <1>3. Cardinality(1..m) = m
    <2> HIDE DEF m
    <2> QED BY <1>2, FS_Interval
  <1> QED BY <1>2, <1>3 DEF Served

\* Counting what is handed out leaves the rest of the history alone.
LEMMA GivenChanges ==
    ASSUME NEW c \in Counted, NEW n \in Nat, NEW d, d = [c EXCEPT !.given = n]
    PROVE  d \in Counted /\ d.given = n /\ d.open = c.open /\ d.age = c.age
  BY DEF Counted

\* A value is handed out only inside its window, and the code counts as the history does.
LEMMA HandsOutAlike ==
    ASSUME IInv, NEW s \in Attended, Servable(s), NEW n \in Nat \ {0}
    PROVE  /\ Abstract!MayGive(s)
           /\ HandedOut(s, n) \in Counted /\ HandedOut(s, n).given \in Abstract!MoreGiven(s)
           /\ HandedOut(s, n).open = window[s].open /\ HandedOut(s, n).age = window[s].age
           /\ Use(SLOT_STATE[s], n) # NoWindow =>
                  /\ Use(SLOT_STATE[s], n) \in Window
                  /\ Use(SLOT_STATE[s], n).expires = SLOT_STATE[s].expires
                  /\ UsesAlike(s, Use(SLOT_STATE[s], n), HandedOut(s, n))
  <1> DEFINE w == SLOT_STATE[s]
  <1>1. s \in Slots /\ SLOTS[s] # NoValue /\ w # NoWindow /\ w.expires # 0
    BY AttendedPolicy DEF Servable, Dead
  <1>2. w \in Window /\ window[s] \in Counted /\ CountsAlike(s) /\ window[s].open
    BY <1>1 DEF IInv, Shapes, SlotOK
  <1>3. /\ ATTENDED[s].ttl = NoLimit \/ ATTENDED[s].ttl \in Nat
        /\ ATTENDED[s].max_uses = NoLimit \/ ATTENDED[s].max_uses \in Nat
    BY AttendedPolicy
  <1>4. Abstract!MayGive(s)
    BY <1>1, <1>2, <1>3 DEF CountsAlike, Counted, Abstract!MayGive, Attended
  <1>5. CASE ATTENDED[s].max_uses = NoLimit
    <2>1. w.uses_left = NoLimit /\ window[s].given \in {0, 1}
      BY <1>2, <1>5 DEF CountsAlike, UsesAlike
    <2>2. HandedOut(s, n) = [window[s] EXCEPT !.given = 1 - window[s].given]
      BY <2>1 DEF HandedOut
    <2>3. Use(w, n) = w
      BY <2>1 DEF Use
    <2> HIDE DEF w
    <2>4. /\ HandedOut(s, n) \in Counted /\ HandedOut(s, n).given = 1 - window[s].given
          /\ HandedOut(s, n).open = window[s].open /\ HandedOut(s, n).age = window[s].age
      <3>1. 1 - window[s].given \in Nat
        BY <2>1
      <3>2. window[s] \in Counted
        BY <1>2
      <3> QED BY <2>2, <3>1, <3>2, GivenChanges
    <2> QED BY <1>2, <1>4, <1>5, <2>1, <2>3, <2>4 DEF UsesAlike, Abstract!MoreGiven, w
  <1>6. CASE ATTENDED[s].max_uses # NoLimit
    <2>1. w.uses_left \in Nat \ {0} /\ window[s].given + w.uses_left = ATTENDED[s].max_uses
          /\ w.uses_left # NoLimit /\ window[s].given \in Nat
      BY <1>2, <1>6, NullAssumption DEF CountsAlike, UsesAlike, Counted
    <2>2. HandedOut(s, n) = [window[s] EXCEPT !.given = window[s].given + Served(w, n)]
      BY <2>1 DEF HandedOut
    <2>3. Served(w, n) = IF w.uses_left <= n THEN w.uses_left ELSE n
      BY <1>2, <2>1, ServedCount
    <2>4. Use(w, n) = IF w.uses_left <= n THEN NoWindow ELSE [w EXCEPT !.uses_left = @ - n]
      BY <2>1 DEF Use
    <2> HIDE DEF w
    <2>5. Served(w, n) \in Nat \ {0} /\ Served(w, n) <= w.uses_left
      BY <2>1, <2>3
    <2>6. /\ HandedOut(s, n) \in Counted /\ HandedOut(s, n).given = window[s].given + Served(w, n)
          /\ HandedOut(s, n).open = window[s].open /\ HandedOut(s, n).age = window[s].age
      <3>1. window[s].given + Served(w, n) \in Nat
        BY <2>1, <2>5
      <3>2. window[s] \in Counted
        BY <1>2
      <3> QED BY <2>2, <3>1, <3>2, GivenChanges
    <2>7. HandedOut(s, n).given \in Abstract!MoreGiven(s)
      BY <1>3, <1>6, <2>1, <2>5, <2>6 DEF Abstract!MoreGiven
    <2>8. ASSUME Use(w, n) # NoWindow
          PROVE  /\ Use(w, n) \in Window /\ Use(w, n).expires = w.expires
                 /\ UsesAlike(s, Use(w, n), HandedOut(s, n))
      <3>1. ~(w.uses_left <= n) /\ Use(w, n) = [w EXCEPT !.uses_left = @ - n]
        BY <2>4, <2>8
      <3>2. Served(w, n) = n /\ w.uses_left - n \in Nat \ {0}
        BY <2>1, <2>3, <3>1
      <3>3. Use(w, n) \in Window /\ Use(w, n).expires = w.expires /\ Use(w, n).uses_left = w.uses_left - n
        BY <1>2, <3>1, <3>2 DEF Window, Limit
      <3> QED BY <1>6, <2>1, <2>6, <3>2, <3>3 DEF UsesAlike
    <2> QED BY <1>4, <2>6, <2>7, <2>8 DEF w
  <1> QED BY <1>5, <1>6

\* Requests hand values out only inside their windows, and counted.
LEMMA GetKeeps ==
    ASSUME IInv, config' = config, NEW q \in Seq(Slots), NEW I \in SUBSET DOMAIN q, Get(q, I)
    PROVE  IInv' /\ Promised
  <1> DEFINE read == {q[i] : i \in I}
             dead == {s \in read : Dead(s, SLOTS, SLOT_STATE)}
             given == {s \in read \intersect Attended : Servable(s)}
             n(s) == Times(q, I, s)
             left == [s \in Slots |-> IF s \in given THEN Use(SLOT_STATE[s], n(s)) ELSE SLOT_STATE[s]]
             gone == dead \union {s \in given : left[s] = NoWindow}
             counted == [s \in Slots |-> IF s \in given THEN HandedOut(s, n(s)) ELSE window[s]]
  <1>1. /\ SLOTS' = [s \in Slots |-> IF s \in gone THEN NoValue ELSE SLOTS[s]]
        /\ SLOT_STATE' = [s \in Slots |-> IF s \in gone THEN NoWindow ELSE left[s]]
        /\ window' = [s \in Slots |-> [counted[s] EXCEPT !.open = @ /\ s \notin gone]]
    BY DEF Get, Wiping, Abstract!Closing
  <1>2. ASSUME NEW s \in given
        PROVE  /\ s \in Attended /\ Servable(s) /\ n(s) \in Nat \ {0}
               /\ SLOTS[s] # NoValue /\ SLOT_STATE[s] # NoWindow
    BY ReadSomeTimes DEF Servable, Dead
  <1> HIDE DEF n, given, gone
  <1>3. ASSUME NEW s \in Slots
        PROVE  /\ counted[s] \in Counted
               /\ counted[s].open = window[s].open /\ counted[s].age = window[s].age
               /\ counted[s].given # window[s].given =>
                      Abstract!MayGive(s) /\ counted[s].given \in Abstract!MoreGiven(s)
               /\ s \notin gone => left[s] \in Window \union {NoWindow}
    <2>1. CASE s \in given
      BY <1>2, <2>1, HandsOutAlike
    <2>2. CASE s \notin given
      BY <2>2 DEF IInv, Shapes
    <2> QED BY <2>1, <2>2
  <1>4. ASSUME NEW s \in Slots
        PROVE  /\ window'[s] \in Counted
               /\ window'[s].open <=> counted[s].open /\ s \notin gone
               /\ window'[s].given = counted[s].given /\ window'[s].age = counted[s].age
    <2> HIDE DEF counted
    <2> QED BY <1>1, <1>3 DEF Counted
  <1>5. Shapes'
    <2> HIDE DEF left, counted
    <2>1. SLOT_STATE' \in [Slots -> Window \union {NoWindow}]
      BY <1>1, <1>3
    <2>2. window' \in [Slots -> Counted]
      <3>1. window' = [s \in Slots |-> window'[s]]
        BY <1>1
      <3> QED BY <3>1, <1>4
    <2> QED BY <1>1, <2>1, <2>2 DEF Shapes
  <1>6. ASSUME NEW s \in Slots  PROVE SlotOK(s)'
    <2>1. SlotOK(s)
      BY DEF IInv
    <2>2. CASE s \in gone
      BY <1>1, <1>4, <2>2 DEF SlotOK
    <2>3. CASE s \notin gone /\ s \notin given
      <3>1. SLOTS'[s] = SLOTS[s] /\ SLOT_STATE'[s] = SLOT_STATE[s]
            /\ (window'[s].open <=> window[s].open)
            /\ window'[s].given = window[s].given /\ window'[s].age = window[s].age
        BY <1>1, <1>4, <2>3
      <3> QED BY <2>1, <3>1
              DEF SlotOK, CountsAlike, UsesAlike, Returning, Routes, ROUTES, Attended, ATTENDED
    <2>4. CASE s \notin gone /\ s \in given
      <3>1. /\ SLOT_STATE'[s] = Use(SLOT_STATE[s], n(s)) /\ SLOT_STATE'[s] # NoWindow
            /\ SLOTS'[s] = SLOTS[s]
        BY <1>1, <2>4 DEF gone
      <3>2. s \in Attended /\ SLOTS[s] # NoValue /\ CountsAlike(s) /\ window[s].open
        BY <1>2, <2>1, <2>4 DEF SlotOK
      <3>3. window'[s].open /\ window'[s].age = window[s].age
            /\ window'[s].given = HandedOut(s, n(s)).given
        BY <1>3, <1>4, <2>4, <3>2
      <3>4. SLOT_STATE'[s].expires = SLOT_STATE[s].expires
            /\ UsesAlike(s, SLOT_STATE'[s], HandedOut(s, n(s)))
        BY <1>2, <2>4, <3>1, HandsOutAlike
      <3>5. CountsAlike(s)'
        BY <3>2, <3>3, <3>4 DEF CountsAlike, UsesAlike, ATTENDED
      <3> QED BY <3>1, <3>2, <3>3, <3>5 DEF SlotOK, Attended, ATTENDED
    <2> QED BY <2>2, <2>3, <2>4
  <1>7. Promised
    <2> HIDE DEF counted
    <2>1. \A s \in Slots :
              /\ window'[s].given # window[s].given =>
                     Abstract!MayGive(s) /\ window'[s].given \in Abstract!MoreGiven(s)
              /\ window'[s].open => window[s].open
              /\ window'[s].age = window[s].age
      BY <1>3, <1>4
    <2> QED BY <1>5, <2>1, GivingIsPromised DEF Shapes
  <1> QED BY <1>5, <1>6, <1>7 DEF IInv, ValidConfig

\* A push opens a whole window, or none.
LEMMA PushKeeps ==
    ASSUME IInv, config' = config, NEW s, NEW v, v # NoValue,
           NEW closed \in SUBSET Slots, s \in Attended => s \notin closed, Push(s, v, closed)
    PROVE  IInv' /\ Promised
  <1> DEFINE values == [SLOTS EXCEPT ![s] = v]
             opened == IF s \in Attended THEN [window EXCEPT ![s] = Abstract!Opened] ELSE window
  <1>1. /\ SLOTS' = [x \in Slots |-> IF x \in closed THEN NoValue ELSE values[x]]
        /\ SLOT_STATE' = [x \in Slots |-> IF x \in closed THEN NoWindow ELSE PushedState(s)[x]]
        /\ window' = [x \in Slots |-> [opened[x] EXCEPT !.open = @ /\ x \notin closed]]
    BY DEF Push, PushedSlots, Wiping, Abstract!Closing
  <1>2. /\ Abstract!Opened \in Counted
        /\ Abstract!Opened.open /\ Abstract!Opened.given = 0 /\ Abstract!Opened.age = 0
    BY DEF Abstract!Opened, Abstract!Shut, Counted
  <1>3. s \in Attended =>
            /\ Armed(s) \in Window
            /\ Armed(s).expires = ATTENDED[s].ttl /\ Armed(s).uses_left = ATTENDED[s].max_uses
    BY AttendedPolicy DEF Armed, Window, Limit
  <1>4. /\ opened \in [Slots -> Counted]
        /\ PushedState(s) \in [Slots -> Window \union {NoWindow}]
    <2>1. CASE s \in Attended
      <3>1. Armed(s) \in Window \union {NoWindow}
        BY <1>3, <2>1
      <3>2. Abstract!Opened \in Counted
        BY <1>2
      <3>3. PushedState(s) = [SLOT_STATE EXCEPT ![s] = Armed(s)]
        BY <2>1 DEF PushedState
      <3> QED BY <2>1, <3>1, <3>2, <3>3 DEF IInv, Shapes
    <2>2. CASE s \notin Attended
      BY <2>2 DEF IInv, Shapes, PushedState
    <2> QED BY <2>1, <2>2
  <1>5. Shapes'
    <2> HIDE DEF opened, values
    <2>1. \A x \in Slots : [opened[x] EXCEPT !.open = @ /\ x \notin closed] \in Counted
      BY <1>4 DEF Counted
    <2> QED BY <1>1, <1>4, <2>1 DEF Shapes
  <1>6. ASSUME NEW x \in Slots  PROVE SlotOK(x)'
    <2>1. SlotOK(x)
      BY DEF IInv
    <2>2. CASE x \in closed
      <3>1. opened[x] \in Counted
        BY <1>4
      <3> HIDE DEF opened
      <3> QED BY <1>1, <2>2, <3>1 DEF SlotOK, Counted
    <2>3. CASE x \notin closed /\ x = s /\ s \in Attended
      <3>1. /\ SLOTS'[x] = v /\ SLOT_STATE'[x] = Armed(s)
            /\ window'[x].open /\ window'[x].given = 0 /\ window'[x].age = 0
        BY <1>1, <1>2, <2>3 DEF IInv, Shapes, PushedState, Counted
      <3>2. Armed(s) # NoWindow
        BY <1>3, <2>3, NullAssumption DEF Window, Limit
      <3>3. CountsAlike(x)'
        BY <1>3, <2>3, <3>1, AttendedPolicy DEF CountsAlike, UsesAlike, ATTENDED
      <3> QED BY <2>3, <3>1, <3>2, <3>3 DEF SlotOK, Attended, ATTENDED
    <2>4. CASE x \notin closed /\ ~(x = s /\ s \in Attended)
      <3>1. /\ SLOTS'[x] = SLOTS[x] \/ (SLOTS'[x] = v /\ x \notin Attended)
            /\ SLOT_STATE'[x] = SLOT_STATE[x] /\ window'[x] = window[x]
        BY <1>1, <2>4 DEF IInv, Shapes, PushedState, Counted
      <3> QED BY <2>1, <3>1
              DEF SlotOK, CountsAlike, UsesAlike, Returning, Routes, ROUTES, Attended, ATTENDED
    <2> QED BY <2>2, <2>3, <2>4
  <1>7. Promised
    <2>1. window' = Abstract!Closing(opened, closed)
      BY DEF Push
    <2>2. CASE s \in Attended
      <3>1. Abstract!Open(s, closed)
        BY <2>1, <2>2 DEF Abstract!Open, Attended
      <3> QED BY <2>2, <3>1, AttendedPolicy DEF Promised, Abstract!Next, ATTENDED
    <2>3. CASE s \notin Attended
      <3>1. \A x \in Slots : /\ window'[x].given = window[x].given /\ window'[x].age = window[x].age
                             /\ window'[x].open => window[x].open
        BY <1>1, <2>3 DEF IInv, Shapes, Counted
      <3> QED BY <1>5, <3>1, GivingIsPromised DEF Shapes
    <2> QED BY <2>2, <2>3
  <1> QED BY <1>5, <1>6, <1>7 DEF IInv, ValidConfig

\* Time passes in the code as in the history.
LEMMA TickKeeps ==
    ASSUME IInv, config' = config, Tick
    PROVE  IInv' /\ Promised
  <1>1. /\ SLOTS' = SLOTS
        /\ SLOT_STATE' = [s \in Slots |->
               IF SLOT_STATE[s] # NoWindow /\ SLOT_STATE[s].expires \notin {0, NoLimit}
               THEN [SLOT_STATE[s] EXCEPT !.expires = @ - 1] ELSE SLOT_STATE[s]]
        /\ window' = [s \in Slots |->
               IF window[s].open /\ ATTENDED[s].ttl # NoLimit /\ window[s].age < ATTENDED[s].ttl
               THEN [window[s] EXCEPT !.age = @ + 1] ELSE window[s]]
    BY DEF Tick, Abstract!Pass
  <1>2. ASSUME NEW s \in Slots
        PROVE  /\ SLOT_STATE'[s] \in Window \union {NoWindow}
               /\ SLOT_STATE'[s] = NoWindow <=> SLOT_STATE[s] = NoWindow
    <2>1. CASE SLOT_STATE[s] # NoWindow /\ SLOT_STATE[s].expires \notin {0, NoLimit}
      <3>1. SLOT_STATE[s] \in Window
        BY <2>1 DEF IInv, Shapes
      <3>2. [SLOT_STATE[s] EXCEPT !.expires = @ - 1] \in Window
        BY <2>1, <3>1 DEF Window, Limit
      <3> QED BY <1>1, <2>1, <3>2, NullAssumption DEF Window, Limit
    <2>2. CASE ~(SLOT_STATE[s] # NoWindow /\ SLOT_STATE[s].expires \notin {0, NoLimit})
      BY <1>1, <2>2 DEF IInv, Shapes
    <2> QED BY <2>1, <2>2
  <1>3. Shapes'
    <2>1. DOMAIN SLOTS' = Slots
      BY <1>1 DEF IInv, Shapes
    <2>2. SLOT_STATE' \in [Slots -> Window \union {NoWindow}]
      BY <1>1, <1>2
    <2>3. ASSUME NEW s \in Slots  PROVE window'[s] \in Counted
      <3>1. window[s] \in Counted
        BY DEF IInv, Shapes
      <3>2. window[s].age + 1 \in Nat
        BY <3>1 DEF Counted
      <3>3. [window[s] EXCEPT !.age = @ + 1] \in Counted
        BY <3>1, <3>2 DEF Counted
      <3> QED BY <1>1, <3>1, <3>3
    <2>4. window' \in [Slots -> Counted]
      <3>1. window' = [s \in Slots |-> window'[s]]
        BY <1>1
      <3> QED BY <2>3, <3>1
    <2> QED BY <2>1, <2>2, <2>4 DEF Shapes
  <1>4. ASSUME NEW s \in Slots  PROVE SlotOK(s)'
    <2>1. SlotOK(s) /\ window[s] \in Counted
      BY DEF IInv, Shapes
    <2>2. CASE SLOT_STATE[s] = NoWindow
      <3>1. ~window[s].open /\ SLOT_STATE'[s] = NoWindow /\ window'[s] = window[s]
        BY <1>1, <1>2, <2>1, <2>2 DEF SlotOK
      <3> QED BY <1>1, <2>1, <2>2, <3>1 DEF SlotOK, Returning, Routes, ROUTES, Attended, ATTENDED
    <2>3. CASE SLOT_STATE[s] # NoWindow
      <3>1. s \in Attended /\ SLOTS[s] # NoValue /\ CountsAlike(s) /\ window[s].open
            /\ SLOT_STATE[s] \in Window
        BY <2>1, <2>3 DEF SlotOK, IInv, Shapes
      <3>2. CASE ATTENDED[s].ttl = NoLimit
        <4>1. SLOT_STATE'[s] = SLOT_STATE[s] /\ window'[s] = window[s]
          BY <1>1, <3>1, <3>2 DEF CountsAlike
        <4> QED BY <1>1, <2>3, <3>1, <4>1 DEF SlotOK, CountsAlike, UsesAlike, Attended, ATTENDED
      <3>3. CASE ATTENDED[s].ttl # NoLimit
        <4>1. /\ SLOT_STATE[s].expires \in Nat /\ ATTENDED[s].ttl \in Nat
              /\ window[s].age \in Nat
              /\ window[s].age + SLOT_STATE[s].expires = ATTENDED[s].ttl
          BY <2>1, <3>1, <3>3, AttendedPolicy DEF CountsAlike, Counted
        <4>2. CASE SLOT_STATE[s].expires = 0
          <5>1. SLOT_STATE'[s] = SLOT_STATE[s] /\ window'[s] = window[s]
            BY <1>1, <4>1, <4>2
          <5> QED BY <1>1, <2>3, <3>1, <5>1 DEF SlotOK, CountsAlike, UsesAlike, Attended, ATTENDED
        <4>3. CASE SLOT_STATE[s].expires # 0
          <5>1. /\ SLOT_STATE'[s] = [SLOT_STATE[s] EXCEPT !.expires = @ - 1]
                /\ window'[s] = [window[s] EXCEPT !.age = @ + 1]
            BY <1>1, <2>3, <3>1, <3>3, <4>1, <4>3, NullAssumption
          <5>2. CountsAlike(s)'
            BY <2>1, <3>1, <3>3, <4>1, <4>3, <5>1 DEF CountsAlike, UsesAlike, ATTENDED, Window, Counted
          <5> QED BY <1>1, <1>2, <2>1, <2>3, <3>1, <5>1, <5>2 DEF SlotOK, Attended, ATTENDED
        <4> QED BY <4>2, <4>3
      <3> QED BY <3>2, <3>3
    <2> QED BY <2>2, <2>3
  <1>5. Promised
    BY DEF Tick, Promised, Abstract!Next, ATTENDED
  <1> QED BY <1>3, <1>4, <1>5 DEF IInv, ValidConfig

\* Nothing happens to any slot.
LEMMA NothingKeeps ==
    ASSUME IInv, config' = config, UNCHANGED slotVars
    PROVE  IInv' /\ Promised
  <1>1. ASSUME NEW s \in Slots  PROVE SlotOK(s)'
    BY DEF IInv, SlotOK, CountsAlike, UsesAlike, Returning, Routes, ROUTES, Attended, ATTENDED, slotVars
  <1> QED BY <1>1 DEF IInv, Shapes, ValidConfig, slotVars, Promised, ATTENDED

\* The provider's reply brings a refresh token back, whatever has become of the window.
LEMMA ReplyKeeps ==
    ASSUME IInv, config' = config, NEW r \in Routes, NEW v, v # NoValue,
           SLOTS' = [SLOTS EXCEPT ![r.refresh] = v], UNCHANGED <<SLOT_STATE, window>>
    PROVE  IInv' /\ Promised
  <1>1. ASSUME NEW s \in Slots  PROVE SlotOK(s)'
    <2>1. SlotOK(s)
      BY DEF IInv
    <2>2. CASE s = r.refresh
      <3>1. SLOTS'[s] = v /\ Returning(s)'
        BY <2>2 DEF IInv, Shapes, Returning, Routes, ROUTES
      <3> QED BY <2>1, <3>1 DEF SlotOK, CountsAlike, UsesAlike, Attended, ATTENDED
    <2>3. CASE s # r.refresh
      <3>1. SLOTS'[s] = SLOTS[s]
        BY <2>3 DEF IInv, Shapes
      <3> QED BY <2>1, <3>1 DEF SlotOK, CountsAlike, UsesAlike, Returning, Routes, ROUTES, Attended, ATTENDED
    <2> QED BY <2>2, <2>3
  <1> QED BY <1>1 DEF IInv, Shapes, ValidConfig, Promised, ATTENDED

-----------------------------------------------------------------------------
(* The actions *)

\* What the TLS context finds expired are attended slots.
LEMMA DeadAreSlots ==
    ASSUME IInv, NEW slots, NEW state
    PROVE  DeadForTls(slots, state) \in SUBSET Slots
  BY AttendedPolicy DEF DeadForTls, Dead

\* What a human or a script pushes is a value.
LEMMA PushedIsValue ==
    ASSUME NEW s, NEW v \in ValuesFor(s)
    PROVE  v # NoValue
  <1>1. v \in Values
    BY ValuesAssumption DEF ValuesFor
  <1> QED BY <1>1, NullAssumption

\* Whoever pushes, and whatever TLS makes of it.
LEMMA IngestKeeps ==
    ASSUME IInv, NEW s, NEW v \in ValuesFor(s), NEW h, Ingest(s, v, h)
    PROVE  IInv' /\ Promised
  <1> DEFINE closed == IF s \in CertSlots THEN DeadForTls(PushedSlots(s, v), PushedState(s)) ELSE {}
  <1>1. closed \in SUBSET Slots
    BY DeadAreSlots
  <1>2. Push(s, v, closed) /\ config' = config
    BY DEF Ingest
  <1>3. ASSUME s \in Attended  PROVE ~Dead(s, PushedSlots(s, v), PushedState(s))
    <2>1. PushedState(s)[s] = Armed(s)
      BY <1>3, AttendedPolicy DEF PushedState, IInv, Shapes
    <2>2. Armed(s) \in Window /\ Armed(s).expires = ATTENDED[s].ttl
      BY <1>3, AttendedPolicy DEF Armed, Window, Limit
    <2>3. Armed(s) # NoWindow /\ Armed(s).expires # 0
      BY <1>3, <2>2, AttendedPolicy, NullAssumption DEF Window, Limit
    <2> QED BY <2>1, <2>3 DEF Dead
  <1>4. s \in Attended => s \notin closed
    BY <1>3 DEF DeadForTls
  <1> HIDE DEF closed
  <1> QED BY <1>1, <1>2, <1>4, PushedIsValue, PushKeeps

\* What a route reads are slots.
LEMMA RouteReadsSlots ==
    ASSUME IInv, NEW r \in Routes
    PROVE  /\ r.ingest \in Seq(Slots)
           /\ \A b \in DOMAIN r.s3 : r.s3[b] \in Seq(Slots)
           /\ r.sign # NoSlot => r.sign \in Slots
           /\ r.refresh # NoSlot => r.refresh \in Slots /\ OAuthReads(r) \in Seq(Slots)
  <1>1. ValidRoute(r)
    BY DEF IInv, ValidConfig, Routes, ROUTES
  <1>2. ASSUME r.refresh # NoSlot  PROVE r.refresh \in Slots /\ OAuthReads(r) \in Seq(Slots)
    <2>1. r.refresh \in Slots /\ (r.secret # NoSlot => r.secret \in Slots)
      BY <1>1, <1>2 DEF ValidRoute
    <2>2. /\ (IF r.secret = NoSlot THEN <<>> ELSE <<r.secret>>) \in Seq(Slots)
          /\ (IF FromStore(r) THEN <<>> ELSE <<r.refresh>>) \in Seq(Slots)
      BY <2>1
    <2> QED BY <2>1, <2>2 DEF OAuthReads
  <1> QED BY <1>1, <1>2 DEF ValidRoute

\* A request reads slots and does nothing else to them.
LEMMA RequestReads ==
    ASSUME IInv, NEW c \in Clients, NEW r \in Routes, NEW path \in Paths,
           \/ ProxyRequest(c, r, path) \/ WsRequest(c, r, path) \/ S3Request(c, r, path)
           \/ SignRequest(c, r, path) \/ OAuthRequest(c, r, path)
    PROVE  /\ UNCHANGED <<config, gateVars, tlsVars>>
           /\ OAuthRequest(c, r, path) \/ UNCHANGED oauthVars
           /\ \E q \in Seq(Slots) : \E I \in SUBSET DOMAIN q : Get(q, I)
  <1>1. \A q : InOrder(q) \in SUBSET DOMAIN q
    BY DEF InOrder
  <1>2. CASE ProxyRequest(c, r, path) \/ WsRequest(c, r, path)
    BY <1>1, <1>2, RouteReadsSlots DEF ProxyRequest, WsRequest
  <1>3. CASE S3Request(c, r, path)
    BY <1>3, RouteReadsSlots DEF S3Request
  <1>4. CASE SignRequest(c, r, path)
    <2>1. <<r.sign>> \in Seq(Slots) /\ {1} \in SUBSET DOMAIN <<r.sign>>
      BY <1>4, RouteReadsSlots DEF SignRequest
    <2> QED BY <1>4, <2>1 DEF SignRequest
  <1>5. CASE OAuthRequest(c, r, path)
    BY <1>1, <1>5, RouteReadsSlots DEF OAuthRequest
  <1> QED BY <1>2, <1>3, <1>4, <1>5

\* Requests read slots, or bring a refresh token back.
LEMMA RequestsKeep ==
    ASSUME IInv, NEW c \in Clients, NEW r \in Routes,
           \/ FetchToken(c, r) \/ OAuthReply(c, r) \/ OAuthStoreFails(c, r)
           \/ \E path \in Paths : \/ ProxyRequest(c, r, path) \/ WsRequest(c, r, path)
                                  \/ S3Request(c, r, path) \/ SignRequest(c, r, path)
                                  \/ OAuthRequest(c, r, path)
    PROVE  IInv' /\ Promised
  <1>1. CASE FetchToken(c, r)
    BY <1>1, NothingKeeps DEF FetchToken
  <1>2. CASE OAuthReply(c, r) /\ refreshing[c].reply = Rejected
    BY <1>2, NothingKeeps DEF OAuthReply, slotVars
  <1>3. CASE OAuthReply(c, r) /\ refreshing[c].reply # Rejected
    BY <1>3, ReplyKeeps DEF OAuthReply
  <1>4. CASE OAuthStoreFails(c, r)
    BY <1>4, ReplyKeeps DEF OAuthStoreFails
  <1>5. ASSUME NEW path \in Paths,
               \/ ProxyRequest(c, r, path) \/ WsRequest(c, r, path) \/ S3Request(c, r, path)
               \/ SignRequest(c, r, path) \/ OAuthRequest(c, r, path)
        PROVE  IInv' /\ Promised
    BY <1>5, RequestReads, GetKeeps
  <1> QED BY <1>1, <1>2, <1>3, <1>4, <1>5

\* The server between requests.
LEMMA ServerKeeps ==
    ASSUME IInv, Server
    PROVE  IInv' /\ Promised
  <1>1. CASE Rotate \/ (\E h \in Handlers : MintReturns(h))
             \/ (\E c \in Clients : ProviderAnswers(c) \/ OAuthFails(c))
    BY <1>1, NothingKeeps DEF Rotate, MintReturns, ProviderAnswers, OAuthFails
  <1>2. CASE RefreshAlienToken
    BY <1>2, DeadAreSlots, WipeKeeps DEF RefreshAlienToken
  <1>3. CASE Sweep
    <2>1. Expired \in SUBSET Slots
      BY DEF Expired
    <2> QED BY <1>3, <2>1, WipeKeeps DEF Sweep, sweep_attended_slots
  <1>4. CASE TimePasses
    BY <1>4, TickKeeps DEF TimePasses
  <1> QED BY <1>1, <1>2, <1>3, <1>4, RequestsKeep DEF Server

\* A restart empties every slot.
LEMMA DisturbanceKeeps ==
    ASSUME IInv, Disturbance
    PROVE  IInv' /\ Promised
  <1>1. CASE Restart
    BY <1>1, WipeKeeps DEF Restart
  <1>2. ASSUME NEW h \in Handlers, MintFails(h)
        PROVE  IInv' /\ Promised
    BY <1>2, NothingKeeps DEF MintFails
  <1> QED BY <1>1, <1>2 DEF Disturbance

\* The commands push, lock early, or read through a route.
LEMMA CommandsKeep ==
    ASSUME IInv, Commands
    PROVE  IInv' /\ Promised
  <1>1. ASSUME NEW s \in Slots, PushMain(s)  PROVE IInv' /\ Promised
    BY <1>1, IngestKeeps DEF PushMain
  <1>2. ASSUME NEW s \in Slots, LockEarly(s)  PROVE IInv' /\ Promised
    BY <1>2, WipeKeeps DEF LockEarly
  <1>3. CASE BootstrapPushes
    BY <1>3, IngestKeeps DEF BootstrapPushes
  <1>4. ASSUME NEW r \in Routes, BootstrapReadsVault(r)  PROVE IInv' /\ Promised
    <2>1. InOrder(r.ingest) \in SUBSET DOMAIN r.ingest /\ r.ingest \in Seq(Slots)
      BY RouteReadsSlots DEF InOrder
    <2> QED BY <1>4, <2>1, GetKeeps DEF BootstrapReadsVault
  <1>5. ASSUME NEW u \in Unlockers, UnlockPushes(u)  PROVE IInv' /\ Promised
    BY <1>5, IngestKeeps DEF UnlockPushes
  <1>6. CASE UNCHANGED serverVars
    BY <1>6, NothingKeeps DEF serverVars
  <1> QED BY <1>1, <1>2, <1>3, <1>4, <1>5, <1>6
          DEF Commands, BootstrapStart, BootstrapSourceFails, BootstrapMissesVault, UnlockReads,
              UnlockCancelled, UnlockStarts, KeychainLocksItself, HumanOpensKeychain

\* Every step keeps the invariant and is a step of AttendedSlots, or none.
LEMMA NextKeeps ==
    ASSUME IInv, [Next]_vars
    PROVE  IInv' /\ Promised
  <1>1. CASE UNCHANGED vars
    BY <1>1, NothingKeeps DEF vars, serverVars
  <1> QED BY <1>1, ServerKeeps, DisturbanceKeeps, CommandsKeep DEF Next

\* At first every slot is empty and every window shut.
LEMMA InitIInv ==
    ASSUME Init
    PROVE  IInv /\ Abstract!Init
  <1>1. config \in Configs /\ ValidConfig(config)
    BY DEF Init, ServerInit
  <1>2. Abstract!Shut = [open |-> FALSE, given |-> 0, age |-> 0]
    BY DEF Abstract!Shut
  <1>3. Shapes
    BY <1>2 DEF Init, ServerInit, SlotsInit, Shapes, Counted
  <1>4. \A s \in Slots : SlotOK(s)
    BY <1>2 DEF Init, ServerInit, SlotsInit, SlotOK
  <1>5. Abstract!Init
    <2>1. IInv
      BY <1>1, <1>3, <1>4 DEF IInv
    <2> QED BY <2>1, AttendedPolicy DEF Init, ServerInit, SlotsInit, Abstract!Init, Attended
  <1> QED BY <1>1, <1>3, <1>4, <1>5 DEF IInv

\* The invariant holds in every reachable state.
LEMMA IInvHolds == Spec => []IInv
  <1>1. Init => IInv
    BY InitIInv
  <1>2. IInv /\ [Next]_vars => IInv'
    BY NextKeeps
  <1> QED BY <1>1, <1>2, PTL DEF Spec

\* In every reachable state an attended secret is in memory only within its window, except for
\* a refresh token that proxy_oauth stores, and a window is open only around a secret.
THEOREM SecretsAbsent == Spec => []AbsentOutsideWindow
  <1>1. IInv => AbsentOutsideWindow
    <2> SUFFICES ASSUME IInv, NEW s \in Attended
                 PROVE  /\ SLOTS[s] # NoValue /\ SLOT_STATE[s] = NoWindow => Returning(s)
                        /\ SLOT_STATE[s] # NoWindow => SLOTS[s] # NoValue
      BY DEF AbsentOutsideWindow, Returning
    <2>1. s \in Slots
      BY AttendedPolicy
    <2> QED BY <2>1 DEF IInv, SlotOK
  <1> QED BY <1>1, IInvHolds, PTL

\* The proxy implements AttendedSlots: whatever clients, commands, refreshes and restarts do, each
\* time an attended secret leaves, its uses limited or not, it is inside a window that a push opened
\* and that is younger than its ttl, and it leaves at most max_uses times per push.
THEOREM BudgetsKept == Spec => WindowsKept
  <1>1. Init => Abstract!Init
    BY InitIInv
  <1>2. IInv /\ [Next]_vars => [Abstract!Next]_<<ATTENDED, window>>
    BY NextKeeps DEF Promised
  <1> QED BY <1>1, <1>2, IInvHolds, PTL DEF Spec, WindowsKept, Abstract!Spec

-----------------------------------------------------------------------------
(* Unlocking *)

\* While the keychain is open, somebody has answered a prompt for every unlock under way.
UInv ==
    /\ keychain \in {"locked", "unlocked"}
    /\ unlocking \in [Unlockers -> [pc : {"idle", "locked", "read"},
                                    slot : Slots \union {NoSlot}, answered : BOOLEAN]]
    /\ \A u \in Unlockers :
           /\ keychain = "unlocked" /\ unlocking[u].pc # "idle" => unlocking[u].answered
           /\ unlocking[u].pc = "read" => unlocking[u].answered

\* After an answer everything under way is answered.
LEMMA AnsweredAll ==
    ASSUME UInv
    PROVE  /\ Answered \in [Unlockers -> [pc : {"idle", "locked", "read"},
                                          slot : Slots \union {NoSlot}, answered : BOOLEAN]]
           /\ \A u \in Unlockers : /\ Answered[u].pc = unlocking[u].pc
                                   /\ Answered[u].pc # "idle" => Answered[u].answered
  BY DEF UInv, Answered

\* What the unlocks do to the keychain and to each other.
LEMMA UnlockKeeps ==
    ASSUME UInv, NEW u \in Unlockers,
           \/ UnlockReads(u) \/ UnlockCancelled(u) \/ UnlockPushes(u)
           \/ \E s \in Slots : UnlockStarts(u, s)
    PROVE  UInv'
  <1>1. CASE \E s \in Slots : UnlockStarts(u, s)
    BY <1>1 DEF UnlockStarts, UInv
  <1>2. CASE UnlockReads(u)
    <2> DEFINE before == IF keychain = "locked" THEN Answered ELSE unlocking
    <2>1. unlocking[u].pc = "locked" /\ keychain' = "unlocked"
          /\ unlocking' = [before EXCEPT ![u].pc = "read"]
      BY <1>2 DEF UnlockReads
    <2>2. CASE keychain = "locked"
      BY <2>1, <2>2, AnsweredAll DEF UInv
    <2>3. CASE keychain = "unlocked"
      BY <2>1, <2>3 DEF UInv
    <2> QED BY <2>2, <2>3 DEF UInv
  <1>3. CASE UnlockCancelled(u) \/ UnlockPushes(u)
    <2>1. keychain' = keychain /\ unlocking' = [unlocking EXCEPT ![u] = NoUnlock]
      BY <1>3 DEF UnlockCancelled, UnlockPushes
    <2>2. /\ NoUnlock \in [pc : {"idle", "locked", "read"}, slot : Slots \union {NoSlot},
                           answered : BOOLEAN]
          /\ NoUnlock.pc = "idle"
      BY DEF NoUnlock
    <2> QED BY <2>1, <2>2 DEF UInv
  <1> QED BY <1>1, <1>2, <1>3

\* Every step keeps the answers.
LEMMA UInvHolds == Spec => []UInv
  <1>1. Init => UInv
    BY DEF Init, NoUnlock, UInv
  <1>2. UInv /\ [Next]_vars => UInv'
    <2> SUFFICES ASSUME UInv, [Next]_vars  PROVE UInv'
      OBVIOUS
    <2>1. CASE UNCHANGED <<keychain, unlocking>>
      BY <2>1 DEF UInv
    <2>2. CASE Server \/ Disturbance \/ UNCHANGED vars
      <3>1. UNCHANGED <<keychain, unlocking>>
        BY <2>2 DEF Server, Disturbance, Troubled, vars, commandVars
      <3> QED BY <2>1, <3>1
    <2>3. CASE Commands
      <3>1. CASE KeychainLocksItself
        BY <3>1 DEF KeychainLocksItself, UInv
      <3>2. CASE HumanOpensKeychain
        BY <3>2, AnsweredAll DEF HumanOpensKeychain, UInv
      <3>3. CASE \E s \in Slots : PushMain(s) \/ LockEarly(s)
        BY <2>1, <3>3 DEF PushMain, LockEarly, commandVars
      <3>4. CASE \/ BootstrapStart \/ BootstrapSourceFails \/ BootstrapMissesVault
                 \/ BootstrapPushes \/ \E r \in Routes : BootstrapReadsVault(r)
        BY <2>1, <3>4 DEF BootstrapStart, BootstrapSourceFails, BootstrapMissesVault,
                          BootstrapPushes, BootstrapReadsVault
      <3> QED BY <2>3, <3>1, <3>2, <3>3, <3>4, UnlockKeeps DEF Commands
    <2> QED BY <2>2, <2>3 DEF Next
  <1> QED BY <1>1, <1>2, PTL DEF Spec

\* In every reachable state an unlock that has read the keychain was answered by a human after
\* it started, for any number of unlocks and whatever else opens and locks the keychain.
THEOREM AnsweredFirst == Spec => []AnsweredBeforeUnlock
  <1>1. UInv => AnsweredBeforeUnlock
    BY DEF UInv, AnsweredBeforeUnlock
  <1> QED BY <1>1, UInvHolds, PTL

-----------------------------------------------------------------------------
(* The gate *)

\* What a token is worth: its age says which master secret it was derived from.
TokenOK(c) ==
    \/ token[c] = NoToken
    \/ /\ token[c] \in [service : {r.name : r \in Routes}, master : Nat, age : 0..2]
       /\ token[c].age = 0 => token[c].master = MASTER.current
       /\ token[c].age = 1 => token[c].master = MASTER.previous
       /\ token[c].age = 2 => /\ token[c].master < MASTER.current
                              /\ MASTER.previous \in Nat => token[c].master < MASTER.previous

GInv ==
    /\ MASTER \in [current : Nat, previous : Nat \union {NoToken}]
    /\ MASTER.previous \in Nat => MASTER.previous < MASTER.current
    /\ DOMAIN token = Clients
    /\ \A c \in Clients : TokenOK(c)

\* A rotation, and a restart, make every token older.
LEMMA RotationKeeps ==
    ASSUME GInv, config' = config, NEW previous \in {MASTER.current, NoToken},
           MASTER' = [current |-> Fresh, previous |-> previous],
           token' = [c \in Clients |-> IF token[c] = NoToken \/ token[c].age = 2 THEN token[c]
                                       ELSE [token[c] EXCEPT !.age = IF previous = NoToken THEN 2 ELSE @ + 1]]
    PROVE  GInv'
  <1>1. /\ MASTER.current \in Nat /\ Fresh = MASTER.current + 1 /\ NoToken \notin Nat
        /\ MASTER'.current = MASTER.current + 1 /\ MASTER'.previous = previous
        /\ MASTER' \in [current : Nat, previous : Nat \union {NoToken}]
    BY MastersAssumption DEF GInv, Fresh
  <1>2. ASSUME NEW c \in Clients  PROVE TokenOK(c)'
    <2>1. Routes' = Routes
      BY DEF Routes, ROUTES
    <2>2. CASE token[c] = NoToken
      BY <2>2 DEF TokenOK
    <2>3. CASE token[c] # NoToken
      <3>1. /\ token[c] \in [service : {r.name : r \in Routes}, master : Nat, age : 0..2]
            /\ token[c].age = 0 => token[c].master = MASTER.current
            /\ token[c].age = 1 => token[c].master = MASTER.previous
            /\ token[c].age = 2 => token[c].master < MASTER.current
        BY <2>3 DEF GInv, TokenOK
      <3>2. token[c].master < MASTER.current \/ token[c].age = 0
        BY <3>1, MastersAssumption DEF GInv
      <3>3. CASE token[c].age = 2
        BY <1>1, <2>1, <3>1, <3>3 DEF TokenOK
      <3>4. CASE token[c].age \in {0, 1}
        <4>1. token'[c] = [token[c] EXCEPT !.age = IF previous = NoToken THEN 2 ELSE @ + 1]
          BY <2>3, <3>4
        <4>2. CASE previous = NoToken
          BY <1>1, <2>1, <3>1, <3>2, <3>4, <4>1, <4>2 DEF TokenOK
        <4>3. CASE previous = MASTER.current /\ previous # NoToken
          BY <1>1, <2>1, <3>1, <3>2, <3>4, <4>1, <4>3 DEF TokenOK
        <4> QED BY <4>2, <4>3
      <3> QED BY <3>1, <3>3, <3>4
    <2> QED BY <2>2, <2>3
  <1>3. MASTER'.previous \in Nat => MASTER'.previous < MASTER'.current
    BY <1>1
  <1> QED BY <1>1, <1>2, <1>3 DEF GInv

\* Every step keeps the tokens and the master secrets in line.
LEMMA GateKeeps ==
    ASSUME GInv, [Next]_vars
    PROVE  GInv'
  <1>1. CASE config' = config /\ UNCHANGED gateVars
    BY <1>1 DEF GInv, TokenOK, gateVars, Routes, ROUTES
  <1>2. CASE Rotate
    <2>1. /\ config' = config /\ MASTER' = [current |-> Fresh, previous |-> MASTER.current]
          /\ MASTER.current # NoToken
          /\ token' = [c \in Clients |-> IF token[c] = NoToken \/ token[c].age = 2 THEN token[c]
                                         ELSE [token[c] EXCEPT !.age = @ + 1]]
      BY <1>2, MastersAssumption DEF Rotate, rotate_master, GInv
    <2> QED BY <2>1, RotationKeeps
  <1>3. CASE Restart
    <2>1. /\ config' = config /\ MASTER' = [current |-> Fresh, previous |-> NoToken]
          /\ token' = [c \in Clients |-> IF token[c] = NoToken THEN NoToken ELSE [token[c] EXCEPT !.age = 2]]
      BY <1>3 DEF Restart
    <2>2. ASSUME NEW c \in Clients, token[c] # NoToken, token[c].age = 2
          PROVE  [token[c] EXCEPT !.age = 2] = token[c]
      BY <2>2 DEF GInv, TokenOK
    <2>3. token' = [c \in Clients |-> IF token[c] = NoToken \/ token[c].age = 2 THEN token[c]
                                      ELSE [token[c] EXCEPT !.age = 2]]
      BY <2>1, <2>2
    <2> QED BY <2>1, <2>3, RotationKeeps
  <1>4. ASSUME NEW c \in Clients, NEW r \in Routes, FetchToken(c, r)
        PROVE  GInv'
    <2>1. /\ config' = config /\ MASTER' = MASTER /\ Routes' = Routes
          /\ token' = [token EXCEPT ![c] = [service |-> r.name, master |-> MASTER.current, age |-> 0]]
      BY <1>4 DEF FetchToken, Routes, ROUTES
    <2>2. ASSUME NEW d \in Clients  PROVE TokenOK(d)'
      BY <2>1 DEF GInv, TokenOK
    <2> QED BY <2>1, <2>2 DEF GInv
  <1>5. CASE UNCHANGED serverVars
    BY <1>1, <1>5 DEF serverVars
  <1>6. ASSUME NEW c \in Clients, NEW r \in Routes,
               \/ OAuthReply(c, r) \/ OAuthStoreFails(c, r)
               \/ \E path \in Paths : \/ ProxyRequest(c, r, path) \/ WsRequest(c, r, path)
                                      \/ S3Request(c, r, path) \/ SignRequest(c, r, path)
                                      \/ OAuthRequest(c, r, path)
        PROVE  GInv'
    BY <1>1, <1>6 DEF ProxyRequest, WsRequest, S3Request, SignRequest, OAuthRequest, OAuthReply,
                      OAuthStoreFails
  <1>7. CASE \/ RefreshAlienToken \/ Sweep \/ TimePasses
             \/ \E h \in Handlers : MintReturns(h) \/ MintFails(h)
             \/ \E c \in Clients : ProviderAnswers(c) \/ OAuthFails(c)
    BY <1>1, <1>7 DEF RefreshAlienToken, Sweep, TimePasses, MintReturns, MintFails,
                      ProviderAnswers, OAuthFails
  <1>8. CASE Commands
    BY <1>1, <1>5, <1>8
       DEF Commands, PushMain, LockEarly, BootstrapStart, BootstrapSourceFails, BootstrapMissesVault,
           BootstrapPushes, BootstrapReadsVault, UnlockReads, UnlockCancelled, UnlockPushes,
           UnlockStarts, KeychainLocksItself, HumanOpensKeychain, Ingest
  <1> QED BY <1>2, <1>3, <1>4, <1>5, <1>6, <1>7, <1>8 DEF Next, Server, Disturbance, vars

\* The least of some positions is one of them.
LEMMA MinExists ==
    ASSUME NEW S \in SUBSET Nat, S # {}
    PROVE  Min(S) \in S /\ \A m \in S : Min(S) <= m
  <1>1. PICK k \in S : \A m \in S : <<m, k>> \notin OpToRel(<, Nat)
    BY WFMin, NatLessThanWellFounded, Zenon
  <1>2. OpToRel(<, Nat) = {ss \in Nat \X Nat : ss[1] < ss[2]}
    BY Zenon DEF OpToRel
  <1>3. ASSUME NEW m \in S  PROVE k <= m
    <2>1. ~(m < k)
      <3>1. <<m, k>> \in Nat \X Nat
        OBVIOUS
      <3>2. <<m, k>> \notin {ss \in Nat \X Nat : ss[1] < ss[2]}
        BY <1>1, <1>2, Zenon
      <3> QED BY <3>1, <3>2
    <2>2. m \in Nat /\ k \in Nat
      OBVIOUS
    <2> QED BY <2>1, <2>2
  <1> QED BY <1>3 DEF Min

\* A prefix, position by position.
LEMMA PrefixElements ==
    ASSUME NEW S, NEW p \in Seq(S), NEW q \in Seq(S)
    PROVE  IsPrefix(p, q) <=> Len(p) <= Len(q) /\ \A k \in 1..Len(p) : p[k] = q[k]
  <1>1. Len(p) \in Nat /\ Len(q) \in Nat
    OBVIOUS
  <1>2. ASSUME Len(p) <= Len(q)
        PROVE  SubSeq(p, 1, Len(p)) = SubSeq(q, 1, Len(p)) <=> \A k \in 1..Len(p) : p[k] = q[k]
    <2>1. \A k \in 1..Len(p) : SubSeq(p, 1, Len(p))[k] = p[k] /\ SubSeq(q, 1, Len(p))[k] = q[k]
      BY <1>1, <1>2
    <2>2. /\ SubSeq(p, 1, Len(p)) \in Seq(S) /\ Len(SubSeq(p, 1, Len(p))) = Len(p)
          /\ SubSeq(q, 1, Len(p)) \in Seq(S) /\ Len(SubSeq(q, 1, Len(p))) = Len(p)
      BY <1>1, <1>2
    <2>3. ASSUME \A k \in 1..Len(p) : p[k] = q[k]
          PROVE  SubSeq(p, 1, Len(p)) = SubSeq(q, 1, Len(p))
      BY <2>1, <2>2, <2>3, SeqEqual
    <2> QED BY <2>1, <2>3
  <1> QED BY <1>2 DEF IsPrefix

\* Two prefixes of one path: they are the same, or one is a prefix of the other.
LEMMA PrefixesCompare ==
    ASSUME NEW S, NEW p \in Seq(S), NEW q \in Seq(S), NEW path \in Seq(S),
           IsPrefix(p, path), IsPrefix(q, path)
    PROVE  p = q \/ IsStrictPrefix(p, q) \/ IsStrictPrefix(q, p)
  <1>1. Len(p) \in Nat /\ Len(q) \in Nat /\ Len(path) \in Nat
    OBVIOUS
  <1>2. /\ Len(p) <= Len(path) /\ \A k \in 1..Len(p) : p[k] = path[k]
        /\ Len(q) <= Len(path) /\ \A k \in 1..Len(q) : q[k] = path[k]
    BY PrefixElements
  <1>3. IsPrefix(p, q) \/ IsPrefix(q, p)
    <2>1. CASE Len(p) <= Len(q)
      BY <1>1, <1>2, <2>1, PrefixElements
    <2>2. CASE Len(q) <= Len(p)
      BY <1>1, <1>2, <2>2, PrefixElements
    <2> QED BY <1>1, <2>1, <2>2
  <1> QED BY <1>3 DEF IsStrictPrefix

\* What main() and the configurations say of the routes.
LEMMA RoutesAreSorted ==
    ASSUME IInv
    PROVE  /\ DOMAIN ROUTES \in SUBSET Nat
           /\ \A i, j \in DOMAIN ROUTES : ROUTES[i].name = ROUTES[j].name => i = j
           /\ \A i \in DOMAIN ROUTES : ROUTES[i].prefix \in Seq(STRING)
           /\ \A i, j \in DOMAIN ROUTES :
                 i < j /\ (ROUTES[i].sign = NoSlot <=> ROUTES[j].sign = NoSlot)
                     => ~IsStrictPrefix(ROUTES[i].prefix, ROUTES[j].prefix)
  <1>1. DOMAIN ROUTES \in SUBSET Nat /\ \A i \in DOMAIN ROUTES : ROUTES[i] \in ToSet(config.routes)
    <2>1. ROUTES \in Seq(ToSet(config.routes))
      BY ConfigsAssumption DEF IInv, ROUTES
    <2> QED BY <2>1
  <1>2. \A i \in DOMAIN ROUTES : ROUTES[i].prefix \in Seq(STRING)
    BY <1>1, ConfigsAssumption DEF IInv
  <1> QED BY <1>1, <1>2 DEF IInv, ValidConfig, ROUTES

\* Of two routes that cover a path, both signing or neither, the earlier one is the one that
\* the later one gives way to.
LEMMA EarlierIsLonger ==
    ASSUME IInv, NEW path \in Paths, NEW i \in DOMAIN ROUTES, NEW j \in DOMAIN ROUTES,
           ROUTES[i].sign = NoSlot <=> ROUTES[j].sign = NoSlot,
           Covers(ROUTES[i], path), Covers(ROUTES[j], path)
    PROVE  j < i <=> GivesWay(i, j, path)
  <1> DEFINE p == ROUTES[i].prefix
             q == ROUTES[j].prefix
  <1>1. p \in Seq(STRING) /\ q \in Seq(STRING) /\ path \in Seq(STRING) /\ i \in Nat /\ j \in Nat
    BY RoutesAreSorted, PathsAssumption
  <1>2. IsPrefix(p, path) /\ IsPrefix(q, path)
    BY DEF Covers, IsStrictPrefix
  <1>3. p = q \/ IsStrictPrefix(p, q) \/ IsStrictPrefix(q, p)
    BY <1>1, <1>2, PrefixesCompare
  <1>4. /\ j < i => ~IsStrictPrefix(q, p)
        /\ i < j => ~IsStrictPrefix(p, q)
        /\ i = j => ~IsStrictPrefix(p, q)
    BY RoutesAreSorted DEF IsStrictPrefix
  <1> HIDE DEF p, q
  <1>5. GivesWay(i, j, path) <=> IsStrictPrefix(p, q) \/ (p = q /\ j < i)
    BY DEF GivesWay, p, q
  <1> QED BY <1>1, <1>3, <1>4, <1>5

\* The gate opens for a token by the route it was fetched for, while it is not too old.
LEMMA GateOpensOwn ==
    ASSUME IInv, GInv, NEW c \in Clients, token[c] # NoToken,
           NEW i \in DOMAIN ROUTES, ROUTES[i].name = token[c].service, NEW j \in DOMAIN ROUTES
    PROVE  gate_ok(token[c], ROUTES[j]) <=> j = i /\ token[c].age < 2
  <1>1. /\ token[c].age \in 0..2 /\ token[c].master \in Nat
        /\ token[c].age = 0 => token[c].master = MASTER.current
        /\ token[c].age = 1 => token[c].master = MASTER.previous
        /\ token[c].age = 2 => /\ token[c].master < MASTER.current
                               /\ MASTER.previous \in Nat => token[c].master < MASTER.previous
    BY DEF GInv, TokenOK
  <1>2. token[c].master \in {MASTER.current, MASTER.previous} <=> token[c].age < 2
    BY <1>1, MastersAssumption DEF GInv
  <1>3. token[c].service = ROUTES[j].name <=> j = i
    BY RoutesAreSorted
  <1> QED BY <1>2, <1>3 DEF gate_ok

\* The i-th route is the first of S.
LEMMA FirstOf ==
    ASSUME IInv, NEW S \in SUBSET DOMAIN ROUTES, NEW i \in DOMAIN ROUTES
    PROVE  ROUTES[i] \in First(S) <=> i \in S /\ \A j \in S : i <= j
  <1>1. \A k \in S : ROUTES[k] = ROUTES[i] => k = i
    BY RoutesAreSorted
  <1> QED BY <1>1 DEF First

\* A token that is not too old opens its route unless another one takes the path, and one that
\* is too old opens nothing.
LEMMA TokenOpens ==
    ASSUME IInv, GInv, NEW c \in Clients, NEW path \in Paths, token[c] # NoToken,
           NEW i \in DOMAIN ROUTES, ROUTES[i].name = token[c].service, Asks(ROUTES[i], path)
    PROVE  Opens(token[c], path) <=> token[c].age < 2 /\ ~Taken(i, path)
  <1> DEFINE t == token[c]
             mine == CHOOSE r \in Routes : r.name = t.service
             candidates == {j \in DOMAIN ROUTES : ROUTES[j].auth_header = mine.auth_header}
             valid == {j \in candidates : gate_ok(t, ROUTES[j])}
             signing == {j \in DOMAIN ROUTES : ROUTES[j].sign # NoSlot /\ Covers(ROUTES[j], path)}
             others == {j \in DOMAIN ROUTES : ByPath(ROUTES[j]) /\ Covers(ROUTES[j], path)}
             S3s == {j \in DOMAIN ROUTES : IsS3(ROUTES[j])}
             S == CASE IsS3(mine) -> S3s
                    [] ByHeader(mine) -> IF valid # {} THEN valid ELSE candidates
                    [] OTHER -> IF signing # {} THEN signing ELSE others
  <1>1. mine = ROUTES[i]
    <2>1. ROUTES[i] \in Routes /\ \A r \in Routes : r.name = t.service => r = ROUTES[i]
      BY RoutesAreSorted DEF Routes
    <2> QED BY <2>1
  <1>2. match_route(t, path) = First(S) /\ S \in SUBSET DOMAIN ROUTES
    BY DEF match_route
  <1>3. \A j \in DOMAIN ROUTES : gate_ok(t, ROUTES[j]) <=> j = i /\ t.age < 2
    BY GateOpensOwn
  <1>4. DOMAIN ROUTES \in SUBSET Nat
    BY RoutesAreSorted
  <1> HIDE DEF mine, t, S
  <1>5. Opens(t, path) <=> t.age < 2 /\ i \in S /\ \A j \in S : i <= j
    <2>1. \A r \in match_route(t, path) : \E j \in DOMAIN ROUTES : r = ROUTES[j]
      BY <1>2 DEF First
    <2>2. Opens(t, path) <=> t.age < 2 /\ ROUTES[i] \in match_route(t, path)
      BY <1>3, <2>1 DEF Opens
    <2> QED BY <1>2, <2>2, FirstOf
  <1>6. CASE IsS3(ROUTES[i])
    <2>1. S = S3s
      BY <1>1, <1>6 DEF S, ByHeader
    <2>2. Taken(i, path) <=> \E j \in DOMAIN ROUTES : IsS3(ROUTES[j]) /\ j < i
      BY <1>6 DEF Taken, ByHeader, ByPath
    <2> QED BY <1>4, <1>5, <1>6, <2>1, <2>2 DEF t
  <1>7. CASE ByHeader(ROUTES[i])
    <2>1. ~IsS3(ROUTES[i]) /\ ~Taken(i, path)
      BY <1>7 DEF ByHeader, ByPath, Taken
    <2>2. t.age < 2 => S = {i}
      <3>1. t.age < 2 => valid = {i}
        BY <1>1, <1>3
      <3> QED BY <1>1, <1>7, <2>1, <3>1 DEF S
    <2> QED BY <1>4, <1>5, <2>1, <2>2 DEF t
  <1>8. CASE ~IsS3(ROUTES[i]) /\ ~ByHeader(ROUTES[i])
    <2>1. S = IF signing # {} THEN signing ELSE others
      BY <1>1, <1>8 DEF S
    <2>2. Covers(ROUTES[i], path)
      BY <1>8 DEF Asks
    <2>3. CASE ByPath(ROUTES[i])
      <3>1. Taken(i, path) <=>
              \E j \in DOMAIN ROUTES : IF ROUTES[j].sign # NoSlot THEN Covers(ROUTES[j], path)
                                      ELSE ByPath(ROUTES[j]) /\ GivesWay(i, j, path)
        BY <1>8, <2>3 DEF Taken
      <3>2. CASE signing # {}
        BY <1>5, <2>1, <2>3, <3>1, <3>2 DEF ByPath, t
      <3>3. CASE signing = {}
        <4>1. Taken(i, path) <=> \E j \in others : GivesWay(i, j, path)
          BY <3>1, <3>3 DEF ByPath, GivesWay
        <4>2. \A j \in others : j < i <=> GivesWay(i, j, path)
          BY <2>2, <2>3, EarlierIsLonger DEF ByPath
        <4>3. S = others /\ i \in others
          BY <2>1, <2>2, <2>3, <3>3
        <4> QED BY <1>4, <1>5, <4>1, <4>2, <4>3 DEF t
      <3> QED BY <3>2, <3>3
    <2>4. CASE ~ByPath(ROUTES[i])
      <3>1. Taken(i, path) <=> \E j \in DOMAIN ROUTES : ROUTES[j].sign # NoSlot /\ GivesWay(i, j, path)
        BY <1>8, <2>4 DEF Taken
      <3>2. ROUTES[i].sign # NoSlot
        BY <1>8, <2>4 DEF ByPath, ByHeader
      <3>3. S = signing /\ i \in signing
        BY <2>1, <2>2, <3>2
      <3>4. Taken(i, path) <=> \E j \in signing : GivesWay(i, j, path)
        BY <3>1 DEF GivesWay
      <3>5. \A j \in signing : j < i <=> GivesWay(i, j, path)
        BY <2>2, <3>2, EarlierIsLonger
      <3> QED BY <1>4, <1>5, <3>3, <3>4, <3>5 DEF t
    <2> QED BY <2>3, <2>4
  <1> QED BY <1>6, <1>7, <1>8

\* The invariant of the gate holds in every reachable state.
LEMMA GInvHolds == Spec => []GInv
  <1>1. Init => GInv
    BY MastersAssumption DEF Init, ServerInit, GInv, TokenOK
  <1>2. GInv /\ [Next]_vars => GInv'
    BY GateKeeps
  <1> QED BY <1>1, <1>2, PTL DEF Spec

\* In every reachable state, for any list of routes that share headers and prefixes or not and
\* any number of rotations and restarts, a gate token opens its route until the second rotation
\* for every path that no other route takes, and nothing else.
THEOREM TokensOpenTheirRoutes == Spec => []TokenOpensItsRoute
  <1>1. IInv /\ GInv => TokenOpensItsRoute
    BY TokenOpens DEF TokenOpensItsRoute
  <1> QED BY <1>1, IInvHolds, GInvHolds, PTL

-----------------------------------------------------------------------------
(* What the slots hold *)

\* No slot has got a value that is not in V.
Filled(V) ==
    /\ SLOTS' = SLOTS \/ SLOTS' = [s \in Slots |-> SLOTS'[s]]
    /\ \A s \in Slots : SLOTS'[s] \in {SLOTS[s], NoValue} \union V

\* What can be pushed.
Pushable == {Seed, Secret} \union Versions

\* Reading fills no slot.
LEMMA GetFills ==
    ASSUME NEW q, NEW I, Get(q, I)
    PROVE  Filled({})
  <1>1. PICK gone, left : Wiping(gone, SLOTS, left)
    BY DEF Get
  <1> QED BY <1>1 DEF Wiping, Filled

\* Wiping fills no slot.
LEMMA WipeFills ==
    ASSUME NEW S, Wipe(S)
    PROVE  Filled({})
  BY DEF Wipe, Wiping, Filled

\* A push fills one slot.
LEMMA IngestFills ==
    ASSUME IInv, NEW s, NEW v \in ValuesFor(s), NEW h, Ingest(s, v, h)
    PROVE  Filled(Pushable)
  <1>1. PICK dead : Wiping(dead, [SLOTS EXCEPT ![s] = v], PushedState(s))
    BY DEF Ingest, Push, PushedSlots
  <1>2. v \in Pushable
    BY DEF ValuesFor, Pushable
  <1> QED BY <1>1, <1>2 DEF Wiping, Filled, IInv, Shapes

\* What a step does to the slots and to the refreshes.
LEMMA RefreshSteps ==
    ASSUME IInv, [Next]_vars
    PROVE  /\ config' = config
           /\ \/ UNCHANGED oauthVars /\ Filled(Pushable)
              \/ Restart
              \/ \E c \in Clients : ProviderAnswers(c) \/ OAuthFails(c)
              \/ \E c \in Clients, r \in Routes :
                    \/ OAuthReply(c, r) \/ OAuthStoreFails(c, r)
                    \/ \E path \in Paths : OAuthRequest(c, r, path)
  <1> DEFINE G == /\ config' = config
                  /\ \/ UNCHANGED oauthVars /\ Filled(Pushable)
                     \/ Restart
                     \/ \E c \in Clients : ProviderAnswers(c) \/ OAuthFails(c)
                     \/ \E c \in Clients, r \in Routes :
                           \/ OAuthReply(c, r) \/ OAuthStoreFails(c, r)
                           \/ \E path \in Paths : OAuthRequest(c, r, path)
  <1>1. Filled({}) => Filled(Pushable)
    BY DEF Filled
  <1>2. ASSUME config' = config, UNCHANGED oauthVars, UNCHANGED SLOTS
        PROVE  G
    BY <1>2 DEF Filled
  <1>3. CASE UNCHANGED serverVars
    BY <1>2, <1>3 DEF serverVars, slotVars
  <1>4. CASE Rotate \/ \E h \in Handlers : MintReturns(h) \/ MintFails(h)
    BY <1>2, <1>4 DEF Rotate, MintReturns, MintFails, slotVars
  <1>5. CASE RefreshAlienToken \/ Sweep
    BY <1>1, <1>5, WipeFills DEF RefreshAlienToken, Sweep, sweep_attended_slots
  <1>6. CASE TimePasses
    BY <1>2, <1>6 DEF TimePasses, Tick
  <1>7. CASE Restart
    BY <1>7 DEF Restart
  <1>8. ASSUME NEW c \in Clients, NEW r \in Routes, NEW path \in Paths,
               \/ ProxyRequest(c, r, path) \/ WsRequest(c, r, path) \/ S3Request(c, r, path)
               \/ SignRequest(c, r, path) \/ OAuthRequest(c, r, path)
        PROVE  G
    <2>1. config' = config /\ (OAuthRequest(c, r, path) \/ UNCHANGED oauthVars) /\ Filled({})
      BY <1>8, RequestReads, GetFills
    <2> QED BY <1>1, <2>1
  <1>9. ASSUME NEW c \in Clients, NEW r \in Routes,
               FetchToken(c, r) \/ OAuthReply(c, r) \/ OAuthStoreFails(c, r)
        PROVE  G
    <2>1. CASE FetchToken(c, r)
      BY <1>2, <2>1 DEF FetchToken, slotVars
    <2>2. CASE OAuthReply(c, r) \/ OAuthStoreFails(c, r)
      BY <2>2 DEF OAuthReply, OAuthStoreFails
    <2> QED BY <1>9, <2>1, <2>2
  <1>9a. ASSUME NEW c \in Clients, ProviderAnswers(c) \/ OAuthFails(c)
         PROVE  G
    BY <1>9a DEF ProviderAnswers, OAuthFails
  <1>10. CASE Server
    BY <1>4, <1>5, <1>6, <1>8, <1>9, <1>9a, <1>10 DEF Server
  <1>11. CASE Disturbance
    BY <1>4, <1>7, <1>11 DEF Disturbance
  <1>12. ASSUME NEW s, NEW v \in ValuesFor(s), NEW h, Ingest(s, v, h)
         PROVE  G
    BY <1>12, IngestFills DEF Ingest
  <1>13. CASE \E s \in Slots : PushMain(s) \/ LockEarly(s)
    BY <1>1, <1>12, <1>13, WipeFills DEF PushMain, LockEarly
  <1>14. CASE BootstrapPushes \/ \E u \in Unlockers : UnlockPushes(u)
    BY <1>12, <1>14 DEF BootstrapPushes, UnlockPushes
  <1>15. CASE \E r \in Routes : BootstrapReadsVault(r)
    BY <1>1, <1>15, GetFills DEF BootstrapReadsVault
  <1>16. CASE Commands
    BY <1>3, <1>13, <1>14, <1>15, <1>16
       DEF Commands, BootstrapStart, BootstrapSourceFails, BootstrapMissesVault, UnlockReads,
           UnlockCancelled, UnlockStarts, KeychainLocksItself, HumanOpensKeychain
  <1>17. CASE UNCHANGED vars
    BY <1>3, <1>17 DEF vars
  <1> QED BY <1>10, <1>11, <1>16, <1>17 DEF Next

-----------------------------------------------------------------------------
(* Refresh tokens *)

RTypes ==
    /\ SLOTS \in [Slots -> Values \union {NoValue}]
    /\ refreshing \in [Clients -> [sent : Values \union {NoValue},
                                   reply : RefreshTokens \union {NoValue, Rejected}]]
    /\ store \in RefreshTokens \union {NoValue}
    /\ live \subseteq RefreshTokens
    /\ lost \in BOOLEAN

\* A token on its way from the provider is good, and is nowhere else.
OnlyOnItsWay(c) ==
    /\ refreshing[c].reply \in live \ {Seed, store}
    /\ \A s \in Slots : refreshing[c].reply # SLOTS[s]
    /\ \A e \in Clients : refreshing[c].reply # refreshing[e].sent
    /\ \A e \in Clients \ {c} : refreshing[c].reply # refreshing[e].reply

Successor == store \in live \/ \E c \in Clients : refreshing[c].reply \in live

RInv ==
    /\ RTypes
    /\ \A c \in Clients : refreshing[c].reply \notin {NoValue, Rejected} => OnlyOnItsWay(c)
    /\ (\E r \in Routes : r.refresh # NoSlot /\ r.store) /\ store # NoValue /\ ~lost => Successor

\* Nothing that is no token can be taken for one.
LEMMA TokensApart ==
    /\ NoValue \notin RefreshTokens /\ Rejected \notin RefreshTokens /\ NoValue # Rejected
    /\ RefreshTokens \subseteq Values /\ Pushable \subseteq Values
    /\ \A t \in RefreshTokens \ {Seed} : t \notin Pushable
  BY ValuesAssumption, NullAssumption DEF Pushable

\* Filling slots keeps the types.
LEMMA FilledTypes ==
    ASSUME SLOTS \in [Slots -> Values \union {NoValue}], NEW V \in SUBSET Values, Filled(V)
    PROVE  SLOTS' \in [Slots -> Values \union {NoValue}]
  <1>1. \A s \in Slots : SLOTS'[s] \in Values \union {NoValue}
    BY DEF Filled
  <1> QED BY <1>1 DEF Filled

\* Pushes, and all else that is not a refresh.
LEMMA PushesKeep ==
    ASSUME RInv, config' = config, UNCHANGED oauthVars, Filled(Pushable)
    PROVE  RInv'
  <1>1. RTypes'
    BY FilledTypes, TokensApart DEF RInv, RTypes, oauthVars
  <1>2. ASSUME NEW c \in Clients, refreshing[c].reply \notin {NoValue, Rejected}
        PROVE  OnlyOnItsWay(c)'
    <2>1. OnlyOnItsWay(c)
      BY <1>2 DEF RInv
    <2>2. refreshing[c].reply \notin Pushable \union {NoValue}
      BY <2>1, TokensApart DEF OnlyOnItsWay, RInv, RTypes
    <2>3. \A s \in Slots : refreshing[c].reply # SLOTS'[s]
      BY <2>1, <2>2 DEF OnlyOnItsWay, Filled
    <2> QED BY <2>1, <2>3 DEF OnlyOnItsWay, oauthVars
  <1>3. Successor' <=> Successor
    BY DEF Successor, oauthVars
  <1> QED BY <1>1, <1>2, <1>3 DEF RInv, oauthVars, Routes, ROUTES

\* A restart forgets the refreshes under way.
LEMMA RestartKeepsTokens ==
    ASSUME RInv, Restart
    PROVE  RInv'
  <1>1. /\ config' = config /\ store' = store /\ live' = live
        /\ lost' = (lost \/ \E c \in Clients : refreshing[c] # NotRefreshing)
        /\ refreshing' = [c \in Clients |-> NotRefreshing]
        /\ Filled({})
    BY WipeFills DEF Restart
  <1>2. NotRefreshing = [sent |-> NoValue, reply |-> NoValue]
    BY DEF NotRefreshing
  <1>3. RTypes'
    BY <1>1, <1>2, FilledTypes DEF RInv, RTypes
  <1>4. \A c \in Clients : refreshing'[c].reply = NoValue
    BY <1>1, <1>2
  <1>5. ASSUME (\E r \in Routes : r.refresh # NoSlot /\ r.store), store # NoValue, ~lost'
        PROVE  Successor'
    <2>1. ~lost /\ \A c \in Clients : refreshing[c].reply = NoValue
      <3>1. ~(lost \/ \E c \in Clients : refreshing[c] # NotRefreshing)
        BY <1>1, <1>5, Zenon
      <3>2. \A c \in Clients : refreshing[c] = NotRefreshing
        BY <3>1, Zenon
      <3>3. ~lost
        BY <3>1, Zenon
      <3> QED BY <1>2, <3>2, <3>3
    <2>2. Successor
      BY <1>5, <2>1 DEF RInv
    <2> QED BY <1>1, <2>1, <2>2, TokensApart DEF Successor, RInv, RTypes
  <1> QED BY <1>1, <1>3, <1>4, <1>5 DEF RInv, Routes, ROUTES

\* The provider answers, or its answer gets lost.
LEMMA ProviderKeeps ==
    ASSUME RInv, NEW c \in Clients, ProviderAnswers(c) \/ OAuthFails(c)
    PROVE  RInv'
  <1> DEFINE sent == refreshing[c].sent
             fresh == CHOOSE t \in Unissued : TRUE
  <1>1. CASE OAuthFails(c)
    <2>1. /\ config' = config /\ store' = store /\ live' = live /\ lost' = TRUE /\ SLOTS' = SLOTS
          /\ refreshing' = [refreshing EXCEPT ![c] = [sent |-> NoValue, reply |-> NoValue]]
      BY <1>1 DEF OAuthFails, slotVars, NotRefreshing
    <2>2. RTypes'
      BY <2>1 DEF RInv, RTypes
    <2>3. ASSUME NEW d \in Clients, refreshing'[d].reply \notin {NoValue, Rejected}
          PROVE  OnlyOnItsWay(d)'
      <3>1. d # c /\ refreshing'[d] = refreshing[d]
        BY <2>1, <2>3 DEF RInv, RTypes
      <3>2. OnlyOnItsWay(d)
        BY <2>3, <3>1 DEF RInv
      <3>3. \A e \in Clients : refreshing'[e].sent \in {refreshing[e].sent, NoValue}
                               /\ refreshing'[e].reply \in {refreshing[e].reply, NoValue}
        BY <2>1 DEF RInv, RTypes
      <3> QED BY <2>1, <2>3, <3>1, <3>2, <3>3 DEF OnlyOnItsWay
    <2> QED BY <2>1, <2>2, <2>3 DEF RInv
  <1>2. CASE ProviderAnswers(c) /\ sent \notin live
    <2>1. /\ config' = config /\ store' = store /\ live' = live /\ lost' = lost /\ SLOTS' = SLOTS
          /\ refreshing[c].reply = NoValue
          /\ refreshing' = [refreshing EXCEPT ![c].reply = Rejected]
      BY <1>2 DEF ProviderAnswers, slotVars
    <2>2. RTypes'
      BY <2>1 DEF RInv, RTypes
    <2>3. \A e \in Clients : /\ refreshing'[e].sent = refreshing[e].sent
                             /\ refreshing'[e].reply = IF e = c THEN Rejected ELSE refreshing[e].reply
      BY <2>1 DEF RInv, RTypes
    <2>4. ASSUME NEW d \in Clients, refreshing'[d].reply \notin {NoValue, Rejected}
          PROVE  OnlyOnItsWay(d)'
      <3>1. OnlyOnItsWay(d) /\ d # c
        BY <2>3, <2>4 DEF RInv
      <3> QED BY <2>1, <2>3, <2>4, <3>1 DEF OnlyOnItsWay
    <2>5. Successor => Successor'
      <3>1. NoValue \notin live
        BY TokensApart DEF RInv, RTypes
      <3> QED BY <2>1, <2>3, <3>1 DEF Successor
    <2> QED BY <2>1, <2>2, <2>4, <2>5 DEF RInv, Routes, ROUTES
  <1>3. CASE ProviderAnswers(c) /\ sent \in live
    <2>1. /\ config' = config /\ store' = store /\ lost' = lost /\ SLOTS' = SLOTS
          /\ refreshing[c].reply = NoValue
          /\ live' = (live \ {sent}) \union {fresh} /\ fresh \in Unissued
          /\ refreshing' = [refreshing EXCEPT ![c].reply = fresh]
      BY <1>3 DEF ProviderAnswers, slotVars
    <2>2. /\ fresh \in RefreshTokens \ {Seed, store} /\ fresh \notin live
          /\ \A s \in Slots : fresh # SLOTS[s]
          /\ \A e \in Clients : fresh # refreshing[e].sent /\ fresh # refreshing[e].reply
      BY <2>1 DEF Unissued
    <2> HIDE DEF fresh
    <2>3. RTypes'
      BY <2>1, <2>2 DEF RInv, RTypes
    <2>4. \A e \in Clients : /\ refreshing'[e].sent = refreshing[e].sent
                             /\ refreshing'[e].reply = IF e = c THEN fresh ELSE refreshing[e].reply
      BY <2>1 DEF RInv, RTypes
    <2>5. ASSUME NEW d \in Clients, refreshing'[d].reply \notin {NoValue, Rejected}
          PROVE  OnlyOnItsWay(d)'
      <3>1. CASE d = c
        BY <2>1, <2>2, <2>4, <3>1 DEF OnlyOnItsWay
      <3>2. CASE d # c
        <4>1. OnlyOnItsWay(d)
          BY <2>4, <2>5, <3>2 DEF RInv
        <4>2. refreshing[d].reply # sent
          BY <4>1 DEF OnlyOnItsWay
        <4> QED BY <2>1, <2>2, <2>4, <3>2, <4>1, <4>2 DEF OnlyOnItsWay
      <3> QED BY <3>1, <3>2
    <2>6. Successor'
      BY <2>1, <2>4 DEF Successor
    <2> QED BY <2>3, <2>5, <2>6 DEF RInv
  <1> QED BY <1>1, <1>2, <1>3

\* A refresh is sent with what the store or the slot holds.
LEMMA RequestKeepsTokens ==
    ASSUME IInv, RInv, NEW c \in Clients, NEW r \in Routes, NEW path \in Paths,
           OAuthRequest(c, r, path)
    PROVE  RInv'
  <1>1. /\ config' = config /\ store' = store /\ live' = live /\ lost' = lost /\ Filled({})
        /\ refreshing[c] = NotRefreshing
    BY GetFills DEF OAuthRequest
  <1>2. PICK t \in {store, SLOTS[r.refresh]} :
            refreshing' = [refreshing EXCEPT ![c].sent = t] \/ refreshing' = refreshing
    BY DEF OAuthRequest, oauth_current_refresh
  <1>3. r.refresh \in Slots
    BY RouteReadsSlots DEF OAuthRequest
  <1>4. t \in Values \union {NoValue}
    BY <1>2, <1>3, TokensApart DEF RInv, RTypes
  <1>5. RTypes'
    BY <1>1, <1>2, <1>4, FilledTypes DEF RInv, RTypes
  <1>6. \A e \in Clients : /\ refreshing'[e].sent \in {refreshing[e].sent, t}
                           /\ refreshing'[e].reply = refreshing[e].reply
    BY <1>2 DEF RInv, RTypes
  <1>7. ASSUME NEW d \in Clients, refreshing'[d].reply \notin {NoValue, Rejected}
        PROVE  OnlyOnItsWay(d)'
    <2>1. OnlyOnItsWay(d) /\ refreshing[d].reply # NoValue
      BY <1>6, <1>7 DEF RInv
    <2>2. \A s \in Slots : refreshing[d].reply # SLOTS'[s]
      BY <1>1, <2>1 DEF OnlyOnItsWay, Filled
    <2>3. refreshing[d].reply # t
      BY <1>3, <2>1 DEF OnlyOnItsWay
    <2> QED BY <1>1, <1>6, <2>1, <2>2, <2>3 DEF OnlyOnItsWay
  <1>8. Successor => Successor'
    BY <1>1, <1>6 DEF Successor
  <1> QED BY <1>1, <1>5, <1>7, <1>8 DEF RInv, Routes, ROUTES

\* The reply is stored.
LEMMA ReplyKeepsTokens ==
    ASSUME IInv, RInv, NEW c \in Clients, NEW r \in Routes, OAuthReply(c, r)
    PROVE  RInv'
  <1> DEFINE reply == refreshing[c].reply
  <1>1. /\ config' = config /\ live' = live /\ lost' = lost /\ r.refresh # NoSlot /\ reply # NoValue
        /\ refreshing' = [refreshing EXCEPT ![c] = [sent |-> NoValue, reply |-> NoValue]]
    BY DEF OAuthReply, NotRefreshing
  <1>2. \A e \in Clients : refreshing'[e] = IF e = c THEN [sent |-> NoValue, reply |-> NoValue]
                                            ELSE refreshing[e]
    BY <1>1 DEF RInv, RTypes
  <1>3. CASE reply = Rejected
    <2>1. SLOTS' = SLOTS /\ store' = store
      BY <1>3 DEF OAuthReply
    <2>2. RTypes'
      BY <1>1, <2>1 DEF RInv, RTypes
    <2>3. ASSUME NEW d \in Clients, refreshing'[d].reply \notin {NoValue, Rejected}
          PROVE  OnlyOnItsWay(d)'
      <3>1. OnlyOnItsWay(d) /\ d # c
        BY <1>2, <2>3 DEF RInv
      <3> QED BY <1>1, <1>2, <2>1, <2>3, <3>1 DEF OnlyOnItsWay
    <2>4. Successor => Successor'
      <3>1. Rejected \notin live
        BY TokensApart DEF RInv, RTypes
      <3> QED BY <1>1, <1>2, <1>3, <2>1, <3>1 DEF Successor
    <2> QED BY <1>1, <2>1, <2>2, <2>3, <2>4 DEF RInv, Routes, ROUTES
  <1>4. CASE reply # Rejected
    <2>1. /\ SLOTS' = [SLOTS EXCEPT ![r.refresh] = reply]
          /\ store' = IF r.store THEN reply ELSE store
      BY <1>4 DEF OAuthReply
    <2>2. OnlyOnItsWay(c)
      BY <1>1, <1>4 DEF RInv
    <2>3. reply \in live /\ reply \in RefreshTokens /\ reply \in Values
      BY <2>2, TokensApart DEF OnlyOnItsWay, RInv, RTypes
    <2>4. RTypes'
      BY <1>1, <2>1, <2>3 DEF RInv, RTypes
    <2>5. ASSUME NEW d \in Clients, refreshing'[d].reply \notin {NoValue, Rejected}
          PROVE  OnlyOnItsWay(d)'
      <3>1. OnlyOnItsWay(d) /\ d # c /\ refreshing'[d] = refreshing[d]
        BY <1>2, <2>5 DEF RInv
      <3>2. refreshing[d].reply # reply
        BY <3>1 DEF OnlyOnItsWay
      <3>3. \A s \in Slots : refreshing[d].reply # SLOTS'[s]
        BY <2>1, <3>1, <3>2 DEF OnlyOnItsWay, RInv, RTypes
      <3>4. refreshing[d].reply # store'
        BY <2>1, <3>1, <3>2 DEF OnlyOnItsWay
      <3> QED BY <1>1, <1>2, <2>5, <3>1, <3>3, <3>4 DEF OnlyOnItsWay
    <2>6. ASSUME \E q \in Routes : q.refresh # NoSlot /\ q.store
          PROVE  Successor'
      <3>1. PICK q \in Routes : q.refresh # NoSlot /\ q.store
        BY <2>6
      <3>2. q = r
        BY <1>1, <3>1, ConfigsAssumption DEF IInv, Routes, ROUTES
      <3> QED BY <1>1, <2>1, <2>3, <3>1, <3>2 DEF Successor
    <2> QED BY <1>1, <2>4, <2>5, <2>6 DEF RInv, Routes, ROUTES
  <1> QED BY <1>3, <1>4

\* The reply is stored in the slot, and the file cannot be written.
LEMMA StoreFailureKeepsTokens ==
    ASSUME RInv, NEW c \in Clients, NEW r \in Routes, OAuthStoreFails(c, r)
    PROVE  RInv'
  <1> DEFINE reply == refreshing[c].reply
  <1>1. /\ config' = config /\ live' = live /\ lost' = TRUE /\ reply \notin {NoValue, Rejected}
        /\ refreshing' = [refreshing EXCEPT ![c] = [sent |-> NoValue, reply |-> NoValue]]
        /\ SLOTS' = [SLOTS EXCEPT ![r.refresh] = reply] /\ store' \in {store, NoValue}
    BY DEF OAuthStoreFails, NotRefreshing
  <1>2. \A e \in Clients : refreshing'[e] = IF e = c THEN [sent |-> NoValue, reply |-> NoValue]
                                            ELSE refreshing[e]
    BY <1>1 DEF RInv, RTypes
  <1>3. reply \in RefreshTokens /\ reply \in Values
    BY <1>1, TokensApart DEF RInv, RTypes
  <1>4. RTypes'
    BY <1>1, <1>3 DEF RInv, RTypes
  <1>5. ASSUME NEW d \in Clients, refreshing'[d].reply \notin {NoValue, Rejected}
        PROVE  OnlyOnItsWay(d)'
    <2>1. OnlyOnItsWay(d) /\ d # c /\ refreshing'[d] = refreshing[d]
      BY <1>2, <1>5 DEF RInv
    <2>2. refreshing[d].reply # reply
      BY <2>1 DEF OnlyOnItsWay
    <2>3. \A s \in Slots : refreshing[d].reply # SLOTS'[s]
      BY <1>1, <2>1, <2>2 DEF OnlyOnItsWay, RInv, RTypes
    <2>4. refreshing[d].reply # store'
      BY <1>1, <1>2, <1>5, <2>1 DEF OnlyOnItsWay
    <2> QED BY <1>1, <1>2, <1>5, <2>1, <2>3, <2>4 DEF OnlyOnItsWay
  <1> QED BY <1>1, <1>4, <1>5 DEF RInv

\* At first the provider accepts the seed, and nothing is under way.
LEMMA InitRInv ==
    ASSUME Init
    PROVE  RInv
  <1>1. /\ SLOTS = [s \in Slots |-> NoValue] /\ refreshing = [c \in Clients |-> NotRefreshing]
        /\ store = NoValue /\ live = {Seed} /\ lost = FALSE
    BY DEF Init, ServerInit, SlotsInit
  <1>2. NotRefreshing = [sent |-> NoValue, reply |-> NoValue]
    BY DEF NotRefreshing
  <1> QED BY <1>1, <1>2, ValuesAssumption DEF RInv, RTypes

\* Every step keeps the tokens on their way apart.
LEMMA RInvHolds == Spec => []RInv
  <1>1. Init => RInv
    BY InitRInv
  <1>2. IInv /\ RInv /\ [Next]_vars => RInv'
    BY RefreshSteps, PushesKeep, RestartKeepsTokens, ProviderKeeps, RequestKeepsTokens,
       ReplyKeepsTokens, StoreFailureKeepsTokens
  <1> QED BY <1>1, <1>2, IInvHolds, PTL DEF Spec

\* In every reachable state, for any number of clients that refresh at once, restarts and
\* bootstraps that push the old seed, the stored token is good or its successor is on its way,
\* unless an answer of the provider got lost, or the file could not be written.
THEOREM NextTokenIsLive == Spec => []LiveTokenNext
  <1>1. RInv => LiveTokenNext
    BY DEF RInv, Successor, LiveTokenNext, oauth_current_refresh, FromStore
  <1> QED BY <1>1, RInvHolds, PTL

-----------------------------------------------------------------------------
(* TLS *)

TTypes ==
    /\ http_client \in Values \union {NoValue}
    /\ minting \in [Handlers -> Values \union {NoValue}]

\* Nothing that is there is lost: neither secrets that are not attended, nor the TLS client,
\* nor a token being minted for the bootstrap, but for the client it becomes.
Kept ==
    /\ config' = config
    /\ \A s \in Slots \ Attended : SLOTS[s] # NoValue => SLOTS'[s] # NoValue
    /\ http_client # NoValue => http_client' # NoValue
    /\ minting["bootstrap"] # NoValue => minting'["bootstrap"] # NoValue \/ http_client' # NoValue
    /\ minting["lifespan"] = NoValue => minting'["lifespan"] = NoValue
    /\ TTypes'

\* When TLS is ready there is a certificate.
LEMMA ReadyCertificate ==
    ASSUME IInv, NEW slots \in [Slots -> Values \union {NoValue}], NEW state, TlsReady(slots, state)
    PROVE  Certificate(slots) \in Values
  <1>1. CASE config.cert = NoSlot
    BY <1>1, ValuesAssumption DEF Certificate
  <1>2. CASE config.cert # NoSlot
    <2>1. config.cert \in CertSlots /\ config.cert \in Slots
      BY <1>2, ConfigsAssumption DEF CertSlots, IInv
    <2>2. slots[config.cert] # NoValue
      BY <2>1 DEF TlsReady
    <2> QED BY <1>2, <2>1, <2>2 DEF Certificate
  <1> QED BY <1>1, <1>2

\* A rebuild that another step is part of.
LEMMA RebuildKeeps ==
    ASSUME IInv, TTypes, config' = config, NEW slots \in [Slots -> Values \union {NoValue}],
           NEW state, NEW h, h # "lifespan",
           RebuildTls(h, slots, state) \/ UNCHANGED tlsVars,
           \A s \in Slots \ Attended : SLOTS[s] # NoValue => SLOTS'[s] # NoValue
    PROVE  Kept
  <1>1. CASE UNCHANGED tlsVars
    BY <1>1 DEF Kept, TTypes, tlsVars
  <1>2. CASE ~UNCHANGED tlsVars
    <2> DEFINE c == Certificate(slots)
    <2>1. TlsReady(slots, state)
          /\ \/ minting' = [minting EXCEPT ![h] = c] /\ http_client' = http_client
             \/ minting' = minting /\ http_client' = c
      BY <1>2 DEF RebuildTls
    <2>2. c \in Values /\ c # NoValue
      BY <2>1, ReadyCertificate, NullAssumption
    <2> HIDE DEF c
    <2>3. "bootstrap" \in Handlers /\ "lifespan" \in Handlers
      BY HandlersAssumption, CommandHandlersAssumption
    <2>4. CASE minting' = [minting EXCEPT ![h] = c] /\ http_client' = http_client
      BY <2>2, <2>3, <2>4 DEF Kept, TTypes
    <2>5. CASE minting' = minting /\ http_client' = c
      BY <2>2, <2>5 DEF Kept, TTypes
    <2> QED BY <2>1, <2>4, <2>5
  <1> QED BY <1>1, <1>2

\* TLS is not concerned.
LEMMA TlsAside ==
    ASSUME TTypes, config' = config, UNCHANGED tlsVars,
           \A s \in Slots \ Attended : SLOTS[s] # NoValue => SLOTS'[s] # NoValue
    PROVE  Kept
  BY DEF Kept, TTypes, tlsVars

\* Wiping attended slots keeps the others.
LEMMA WipeSpares ==
    ASSUME NEW S \in SUBSET Attended, Wipe(S)
    PROVE  \A s \in Slots \ Attended : SLOTS'[s] = SLOTS[s]
  BY DEF Wipe, Wiping

\* Reading wipes attended slots only.
LEMMA GetSpares ==
    ASSUME NEW q, NEW I, Get(q, I)
    PROVE  \A s \in Slots \ Attended : SLOTS'[s] = SLOTS[s]
  BY DEF Get, Wiping, Dead

\* What a push does to the slots that are not attended.
LEMMA IngestSpares ==
    ASSUME IInv, NEW s, NEW v, NEW h, Ingest(s, v, h)
    PROVE  \A x \in Slots \ Attended : SLOTS'[x] = IF x = s THEN v ELSE SLOTS[x]
  <1>1. PICK dead : /\ Wiping(dead, PushedSlots(s, v), PushedState(s))
                    /\ dead \subseteq DeadForTls(PushedSlots(s, v), PushedState(s))
    BY DEF Ingest, Push
  <1>2. dead \subseteq Attended
    BY <1>1 DEF DeadForTls, Dead
  <1>3. \A x \in Slots : PushedSlots(s, v)[x] = IF x = s THEN v ELSE SLOTS[x]
    BY DEF PushedSlots, IInv, Shapes
  <1> QED BY <1>1, <1>2, <1>3 DEF Wiping

\* A push, with the rebuild it causes.
LEMMA IngestSteadies ==
    ASSUME IInv, RTypes, TTypes, NEW s, NEW v \in ValuesFor(s), NEW h, h # "lifespan",
           Ingest(s, v, h)
    PROVE  Kept
  <1>1. v \in Values /\ v # NoValue
    BY ValuesAssumption, NullAssumption DEF ValuesFor
  <1>2. PushedSlots(s, v) \in [Slots -> Values \union {NoValue}]
    BY <1>1 DEF PushedSlots, RTypes
  <1>3. \A x \in Slots \ Attended : SLOTS[x] # NoValue => SLOTS'[x] # NoValue
    BY <1>1, IngestSpares
  <1>4. config' = config /\ (RebuildTls(h, PushedSlots(s, v), PushedState(s)) \/ UNCHANGED tlsVars)
    BY DEF Ingest
  <1> QED BY <1>2, <1>3, <1>4, RebuildKeeps

\* The server's own steps.
LEMMA ServerSteadies ==
    ASSUME IInv, RInv, TTypes, Server
    PROVE  Kept
  <1> DEFINE Spared == \A s \in Slots \ Attended : SLOTS[s] # NoValue => SLOTS'[s] # NoValue
  <1>1. CASE Rotate \/ \E c \in Clients : ProviderAnswers(c) \/ OAuthFails(c)
    BY <1>1, TlsAside DEF Rotate, ProviderAnswers, OAuthFails, slotVars
  <1>2. CASE RefreshAlienToken
    <2>1. DeadForTls(SLOTS, SLOT_STATE) \in SUBSET Attended
      BY DEF DeadForTls, Dead
    <2>2. Spared
      BY <1>2, <2>1, WipeSpares DEF RefreshAlienToken
    <2>3. config' = config /\ RebuildTls("loop", SLOTS, SLOT_STATE)
      BY <1>2 DEF RefreshAlienToken
    <2>4. SLOTS \in [Slots -> Values \union {NoValue}]
      BY DEF RInv, RTypes
    <2> QED BY <2>2, <2>3, <2>4, RebuildKeeps
  <1>3. CASE Sweep
    <2>1. Expired \in SUBSET Attended
      BY DEF Expired, IInv, SlotOK
    <2> QED BY <1>3, <2>1, WipeSpares, TlsAside DEF Sweep, sweep_attended_slots
  <1>4. CASE TimePasses
    BY <1>4, TlsAside DEF TimePasses, Tick
  <1>5. ASSUME NEW h \in Handlers, MintReturns(h)
        PROVE  Kept
    BY <1>5 DEF MintReturns, slotVars, Kept, TTypes
  <1>6. ASSUME NEW c \in Clients, NEW r \in Routes, NEW path \in Paths,
               \/ ProxyRequest(c, r, path) \/ WsRequest(c, r, path) \/ S3Request(c, r, path)
               \/ SignRequest(c, r, path) \/ OAuthRequest(c, r, path)
        PROVE  Kept
    <2>1. config' = config /\ UNCHANGED tlsVars /\ Spared
      BY <1>6, RequestReads, GetSpares
    <2> QED BY <2>1, TlsAside
  <1>7. ASSUME NEW c \in Clients, NEW r \in Routes, OAuthReply(c, r) \/ OAuthStoreFails(c, r)
        PROVE  Kept
    <2>1. /\ config' = config /\ UNCHANGED tlsVars /\ refreshing[c].reply # NoValue
          /\ SLOTS' = SLOTS \/ SLOTS' = [SLOTS EXCEPT ![r.refresh] = refreshing[c].reply]
      BY <1>7 DEF OAuthReply, OAuthStoreFails
    <2>2. Spared
      BY <2>1 DEF IInv, Shapes
    <2> QED BY <2>1, <2>2, TlsAside
  <1>8. ASSUME NEW c \in Clients, NEW r \in Routes, FetchToken(c, r)
        PROVE  Kept
    BY <1>8, TlsAside DEF FetchToken, slotVars
  <1> QED BY <1>1, <1>2, <1>3, <1>4, <1>5, <1>6, <1>7, <1>8 DEF Server

\* The steps of the commands.
LEMMA CommandsSteady ==
    ASSUME IInv, RInv, TTypes, Commands
    PROVE  Kept
  <1>1. CASE UNCHANGED serverVars
    BY <1>1, TlsAside DEF serverVars, slotVars
  <1>2. ASSUME NEW s, NEW v \in ValuesFor(s), NEW h, h # "lifespan", Ingest(s, v, h)
        PROVE  Kept
    BY <1>2, IngestSteadies DEF RInv
  <1>3. ASSUME NEW s \in Slots, PushMain(s)  PROVE Kept
    BY <1>2, <1>3 DEF PushMain
  <1>4. ASSUME NEW s \in Slots, LockEarly(s)  PROVE Kept
    <2>1. {s} \in SUBSET Attended /\ Wipe({s}) /\ config' = config /\ UNCHANGED tlsVars
      BY <1>4 DEF LockEarly
    <2> QED BY <2>1, WipeSpares, TlsAside
  <1>5. CASE BootstrapPushes
    BY <1>2, <1>5 DEF BootstrapPushes
  <1>6. ASSUME NEW r \in Routes, BootstrapReadsVault(r)  PROVE Kept
    BY <1>6, GetSpares, TlsAside DEF BootstrapReadsVault
  <1>7. ASSUME NEW u \in Unlockers, UnlockPushes(u)  PROVE Kept
    <2>1. u # "lifespan"
      BY CommandHandlersAssumption
    <2> QED BY <1>2, <1>7, <2>1 DEF UnlockPushes
  <1> QED BY <1>1, <1>3, <1>4, <1>5, <1>6, <1>7
          DEF Commands, BootstrapStart, BootstrapSourceFails, BootstrapMissesVault, UnlockReads,
              UnlockCancelled, UnlockStarts, KeychainLocksItself, HumanOpensKeychain

-----------------------------------------------------------------------------
(* Bootstrap *)

BTypes == boot \in [todo : SUBSET DOMAIN config.sources, got : BOOLEAN, trouble : BOOLEAN, missed : BOOLEAN]

\* What local source i was to provide is there, as long as its slot is not attended.
Provided(i) ==
    LET s == config.sources[i].slot
    IN config.sources[i].kind = "local" /\ s \notin Attended =>
           /\ SLOTS[s] # NoValue
           /\ s = config.cert => http_client # NoValue \/ minting["bootstrap"] # NoValue

\* Bootstrap gets on: unless something went wrong, what is done is done.
GettingOn ==
    boot.todo # {} /\ ~boot.trouble => \A i \in DOMAIN config.sources \ boot.todo : Provided(i)

BInv ==
    /\ TTypes /\ BTypes
    /\ SelfSufficient => /\ minting["lifespan"] = NoValue
                         /\ boot.missed => boot.trouble
                         /\ GettingOn

\* What a sequence holds.
LEMMA InSequence ==
    ASSUME NEW S, NEW q \in Seq(S), NEW n \in DOMAIN q
    PROVE  q[n] \in S
  OBVIOUS

\* The bootstrap file names slots.
LEMMA SourcesHaveSlots ==
    ASSUME config \in Configs
    PROVE  /\ \A i \in DOMAIN config.sources : config.sources[i].slot \in Slots
           /\ SelfSufficient => config.cert # NoSlot
  <1>1. config.sources \in Seq([slot : Slots, kind : {"local", "vault"}])
    BY SourcesAssumption
  <1>2. ASSUME NEW i \in DOMAIN config.sources  PROVE config.sources[i].slot \in Slots
    <2>1. config.sources[i] \in [slot : Slots, kind : {"local", "vault"}]
      BY <1>1, InSequence
    <2> QED BY <2>1
  <1>3. ASSUME SelfSufficient  PROVE config.cert # NoSlot
    <2>1. PICK i \in DOMAIN config.sources : config.cert = config.sources[i].slot
      BY <1>3 DEF SelfSufficient
    <2> QED BY <1>2, <2>1, NullAssumption
  <1> QED BY <1>2, <1>3

\* What is sufficient stays so.
LEMMA StaysSufficient ==
    ASSUME config' = config
    PROVE  SelfSufficient' <=> SelfSufficient
  BY DEF SelfSufficient, VaultRoutes, Attended, ATTENDED, Routes, ROUTES

\* Local sources come first.
LEMMA LocalFirst ==
    ASSUME IInv, BTypes, boot.todo # {}
    PROVE  /\ Turn \in boot.todo
           /\ Source.kind = "vault" => \A i \in boot.todo : config.sources[i].kind # "local"
  <1> DEFINE local == {i \in boot.todo : config.sources[i].kind = "local"}
  <1>1. boot.todo \in SUBSET Nat
    BY SourcesAssumption DEF IInv, BTypes
  <1>2. CASE local # {}
    <2>1. Min(local) \in local
      BY <1>1, <1>2, MinExists
    <2>2. Turn = Min(local)
      BY <1>2 DEF Turn
    <2> QED BY <2>1, <2>2 DEF Source
  <1>3. CASE local = {}
    <2>1. Min(boot.todo) \in boot.todo
      BY <1>1, MinExists
    <2>2. Turn = Min(boot.todo)
      BY <1>3 DEF Turn
    <2> QED BY <1>3, <2>1, <2>2
  <1> QED BY <1>2, <1>3

\* When it is the turn of a vault source, all that the vault route needs is there.
LEMMA VaultReady ==
    ASSUME IInv, BInv, SelfSufficient, BootstrapReady, Source.kind = "vault", ~boot.trouble
    PROVE  /\ Serving /\ http_client # NoValue
           /\ VaultRoutes # {} /\ \A r \in VaultRoutes : AllGet(r.ingest)
  <1> DEFINE own == {config.sources[i].slot :
                 i \in {k \in DOMAIN config.sources : config.sources[k].kind = "local"}} \ Attended
  <1>1. boot.todo # {} /\ minting["bootstrap"] = NoValue
    BY DEF BootstrapReady
  <1>2. \A i \in DOMAIN config.sources : config.sources[i].kind = "local" => Provided(i)
    BY <1>1, LocalFirst DEF BInv, GettingOn
  <1>3. \A s \in own : /\ s \notin Attended /\ SLOTS[s] # NoValue
                       /\ s = config.cert => http_client # NoValue
    BY <1>1, <1>2 DEF Provided
  <1>4. config.cert \in own /\ VaultRoutes # {} /\ \A r \in VaultRoutes : ToSet(r.ingest) \subseteq own
    BY DEF SelfSufficient
  <1> HIDE DEF own
  <1>5. ASSUME NEW r \in VaultRoutes  PROVE AllGet(r.ingest)
    BY <1>3, <1>4 DEF AllGet, GetsValue, Servable, Dead, ToSet
  <1> QED BY <1>3, <1>4, <1>5 DEF BInv, Serving

\* A step that keeps what is there leaves bootstrap where it was.
LEMMA KeptProvides ==
    ASSUME IInv, Kept, NEW i \in DOMAIN config.sources, Provided(i)
    PROVE  Provided(i)'
  <1>1. config.sources[i].slot \in Slots
    BY SourcesHaveSlots DEF IInv
  <1> QED BY <1>1 DEF Provided, Kept, Attended, ATTENDED

\* ... and leaves it getting on.
LEMMA KeptGetsOn ==
    ASSUME IInv, BInv, Kept, BTypes',
           SelfSufficient => /\ boot'.missed => boot'.trouble
                             /\ boot'.todo # {} /\ ~boot'.trouble =>
                                  /\ boot.todo # {} /\ ~boot.trouble
                                  /\ \A i \in boot.todo \ boot'.todo : Provided(i)'
    PROVE  BInv'
  <1>1. config' = config /\ (SelfSufficient' <=> SelfSufficient) /\ TTypes'
    BY StaysSufficient DEF Kept
  <1>2. ASSUME SelfSufficient  PROVE GettingOn'
    <2> SUFFICES ASSUME boot'.todo # {}, ~boot'.trouble, NEW i \in DOMAIN config.sources \ boot'.todo
                 PROVE  Provided(i)'
      BY <1>1 DEF GettingOn
    <2>1. CASE i \in boot.todo
      BY <1>2, <2>1
    <2>2. CASE i \notin boot.todo
      BY <1>2, <2>2, KeptProvides DEF BInv, GettingOn
    <2> QED BY <2>1, <2>2
  <1> QED BY <1>1, <1>2 DEF BInv, Kept

\* A step in which bootstrap does nothing.
LEMMA BystanderKeeps ==
    ASSUME IInv, BInv, Kept, UNCHANGED boot
    PROVE  BInv'
  <1>1. BTypes'
    BY DEF BInv, BTypes, Kept
  <1> QED BY <1>1, KeptGetsOn DEF BInv

\* A source is pushed.
LEMMA BootstrapPushKeeps ==
    ASSUME IInv, RInv, BInv, Kept, BootstrapPushes
    PROVE  BInv'
  <1>1. PICK v \in ValuesFor(Source.slot) : Ingest(Source.slot, v, "bootstrap")
    BY DEF BootstrapPushes
  <1>2. /\ boot' = [boot EXCEPT !.todo = @ \ {Turn}, !.got = FALSE] /\ boot.todo # {}
        /\ minting["bootstrap"] = NoValue
    BY DEF BootstrapPushes, BootstrapReady
  <1>3. BTypes'
    BY <1>2 DEF BInv, BTypes, Kept
  <1>4. /\ boot'.todo = boot.todo \ {Turn} /\ boot'.trouble = boot.trouble /\ boot'.missed = boot.missed
        /\ Turn \in DOMAIN config.sources
    BY <1>2, LocalFirst DEF BInv, BTypes
  <1>5. v \in Values /\ v # NoValue
    BY ValuesAssumption, NullAssumption DEF ValuesFor
  <1>6. ASSUME SelfSufficient, NEW k \in DOMAIN config.sources, k = Turn  PROVE Provided(k)'
    <2> DEFINE s == Source.slot
    <2>1. s \in Slots /\ s = config.sources[k].slot
      BY <1>6, SourcesHaveSlots DEF IInv, Source
    <2>2. s \notin Attended => SLOTS'[s] # NoValue
      BY <1>1, <1>5, <2>1, IngestSpares
    <2>3. ASSUME s \notin Attended, s = config.cert
          PROVE  http_client' # NoValue \/ minting'["bootstrap"] # NoValue
      <3>1. CertSlots = {s} /\ config.key = NoSlot /\ config.cert # NoSlot
        BY <1>6, <2>1, <2>3, NullAssumption DEF SelfSufficient, CertSlots
      <3>2. PushedSlots(s, v)[s] = v /\ ~Dead(s, PushedSlots(s, v), PushedState(s))
        BY <2>1, <2>3 DEF PushedSlots, Dead, IInv, Shapes
      <3>3. TlsReady(PushedSlots(s, v), PushedState(s)) /\ Certificate(PushedSlots(s, v)) = v
        BY <1>5, <2>3, <3>1, <3>2 DEF TlsReady, Certificate
      <3>4. RebuildTls("bootstrap", PushedSlots(s, v), PushedState(s))
        BY <1>1, <3>1 DEF Ingest
      <3>5. "bootstrap" \in Handlers
        BY CommandHandlersAssumption
      <3> QED BY <1>5, <3>3, <3>4, <3>5 DEF RebuildTls, BInv, TTypes
    <2> QED BY <2>1, <2>2, <2>3 DEF Provided, Kept, Attended, ATTENDED
  <1> QED BY <1>2, <1>3, <1>4, <1>6, KeptGetsOn DEF BInv

\* The commands keep the invariant.
LEMMA CommandsKeepB ==
    ASSUME IInv, RInv, BInv, Commands
    PROVE  BInv'
  <1>1. Kept
    BY CommandsSteady DEF BInv
  <1>2. config' = config
    BY <1>1 DEF Kept
  <1>3. CASE UNCHANGED boot
    BY <1>1, <1>3, BystanderKeeps
  <1>4. CASE BootstrapStart
    <2>1. boot' = [todo |-> DOMAIN config.sources, got |-> FALSE, trouble |-> FALSE, missed |-> FALSE]
      BY <1>4 DEF BootstrapStart, NoBoot
    <2>2. BTypes'
      BY <1>2, <2>1 DEF BTypes
    <2>3. GettingOn' /\ ~boot'.missed
      BY <1>2, <2>1 DEF GettingOn
    <2>4. minting' = minting
      BY <1>4 DEF BootstrapStart, serverVars, tlsVars
    <2> QED BY <1>1, <1>2, <2>2, <2>3, <2>4, StaysSufficient DEF BInv, Kept
  <1>5. CASE BootstrapSourceFails
    <2>1. boot' = [boot EXCEPT !.todo = @ \ {Turn}, !.got = FALSE, !.trouble = TRUE]
      BY <1>5 DEF BootstrapSourceFails
    <2>2. BTypes' /\ boot'.trouble
      BY <1>2, <2>1 DEF BInv, BTypes
    <2> QED BY <1>1, <2>2, KeptGetsOn
  <1>6. ASSUME NEW r \in Routes, BootstrapReadsVault(r)  PROVE BInv'
    <2>1. /\ BootstrapReady /\ Source.kind = "vault" /\ r \in VaultRoutes
          /\ boot' = IF AllGet(r.ingest) THEN [boot EXCEPT !.got = TRUE]
                     ELSE [boot EXCEPT !.todo = @ \ {Turn}, !.missed = TRUE]
      BY <1>6 DEF BootstrapReadsVault
    <2>2. BTypes'
      BY <1>2, <2>1 DEF BInv, BTypes
    <2>3. CASE AllGet(r.ingest)
      <3>1. boot'.todo = boot.todo /\ boot'.trouble = boot.trouble /\ boot'.missed = boot.missed
        BY <2>1, <2>3 DEF BInv, BTypes
      <3> QED BY <1>1, <2>2, <3>1, KeptGetsOn DEF BInv
    <2>4. CASE ~AllGet(r.ingest)
      <3>1. SelfSufficient => boot.trouble
        BY <2>1, <2>4, VaultReady
      <3>2. boot'.trouble = boot.trouble
        BY <2>1, <2>4 DEF BInv, BTypes
      <3> QED BY <1>1, <2>2, <3>1, <3>2, KeptGetsOn
    <2> QED BY <2>3, <2>4
  <1>7. CASE BootstrapMissesVault
    <2>1. /\ BootstrapReady /\ Source.kind = "vault"
          /\ VaultRoutes = {} \/ ~Serving \/ http_client = NoValue
          /\ boot' = [boot EXCEPT !.todo = @ \ {Turn}, !.missed = TRUE]
      BY <1>7 DEF BootstrapMissesVault
    <2>2. BTypes' /\ boot'.trouble = boot.trouble
      BY <1>2, <2>1 DEF BInv, BTypes
    <2>3. SelfSufficient => boot.trouble
      BY <2>1, VaultReady
    <2> QED BY <1>1, <2>2, <2>3, KeptGetsOn
  <1>8. CASE BootstrapPushes
    BY <1>1, <1>8, BootstrapPushKeeps
  <1>9. CASE \/ \E s \in Slots : PushMain(s) \/ LockEarly(s)
             \/ KeychainLocksItself \/ HumanOpensKeychain
             \/ \E u \in Unlockers : UnlockReads(u) \/ UnlockCancelled(u) \/ UnlockPushes(u)
                                     \/ \E s \in Slots : UnlockStarts(u, s)
    BY <1>3, <1>9 DEF PushMain, LockEarly, KeychainLocksItself, HumanOpensKeychain, UnlockReads,
                      UnlockCancelled, UnlockPushes, UnlockStarts, commandVars
  <1> QED BY <1>4, <1>5, <1>6, <1>7, <1>8, <1>9 DEF Commands

\* A restart, or a failed minting, is trouble.
LEMMA DisturbanceKeepsB ==
    ASSUME IInv, BInv, Disturbance
    PROVE  BInv'
  <1>1. config' = config /\ boot' = [boot EXCEPT !.trouble = @ \/ boot.todo # {}]
    BY DEF Disturbance, Troubled, Restart, MintFails
  <1>2. /\ BTypes' /\ boot'.todo = boot.todo /\ boot'.missed = boot.missed
        /\ boot'.trouble <=> boot.trouble \/ boot.todo # {}
    BY <1>1 DEF BInv, BTypes
  <1>3. TTypes' /\ (SelfSufficient /\ minting["lifespan"] = NoValue => minting'["lifespan"] = NoValue)
    <2>1. CASE Restart
      <3>1. http_client' = FirstClient /\ minting' = FirstMint
        BY <2>1 DEF Restart
      <3>2. Files \in Values /\ "lifespan" \in Handlers
        BY ValuesAssumption, HandlersAssumption
      <3>3. http_client' \in Values \union {NoValue} /\ minting' \in [Handlers -> Values \union {NoValue}]
        BY <3>1, <3>2 DEF FirstClient, FirstMint
      <3>4. SelfSufficient => config.cert # NoSlot
        BY SourcesHaveSlots DEF IInv
      <3>5. SelfSufficient => minting'["lifespan"] = NoValue
        BY <3>1, <3>2, <3>4 DEF FirstMint
      <3> QED BY <3>3, <3>5 DEF TTypes
    <2>2. ASSUME NEW h \in Handlers, MintFails(h)
          PROVE  TTypes' /\ (minting["lifespan"] = NoValue => minting'["lifespan"] = NoValue)
      BY <2>2 DEF MintFails, BInv, TTypes
    <2> QED BY <2>1, <2>2 DEF Disturbance
  <1> QED BY <1>1, <1>2, <1>3, StaysSufficient DEF BInv, GettingOn

\* At first bootstrap has nothing to do.
LEMMA InitBInv ==
    ASSUME Init
    PROVE  BInv
  <1>1. /\ boot = NoBoot /\ http_client = FirstClient /\ minting = FirstMint
        /\ config \in Configs
    BY DEF Init, ServerInit
  <1>2. Files \in Values /\ "lifespan" \in Handlers
    BY ValuesAssumption, HandlersAssumption
  <1>3. http_client \in Values \union {NoValue} /\ minting \in [Handlers -> Values \union {NoValue}]
    BY <1>1, <1>2 DEF FirstClient, FirstMint
  <1>4. SelfSufficient => config.cert # NoSlot
    BY <1>1, SourcesHaveSlots
  <1>5. SelfSufficient => minting["lifespan"] = NoValue
    BY <1>1, <1>2, <1>4 DEF FirstMint
  <1> QED BY <1>1, <1>3, <1>5 DEF BInv, TTypes, BTypes, NoBoot, GettingOn

\* The invariant of TLS and of bootstrap holds in every reachable state.
LEMMA BInvHolds == Spec => []BInv
  <1>1. Init => BInv
    BY InitBInv
  <1>2. IInv /\ RInv /\ BInv /\ [Next]_vars => BInv'
    <2> SUFFICES ASSUME IInv, RInv, BInv, [Next]_vars  PROVE BInv'
      OBVIOUS
    <2>1. CASE Server
      <3>1. Kept
        BY <2>1, ServerSteadies DEF BInv
      <3> QED BY <2>1, <3>1, BystanderKeeps DEF Server, commandVars
    <2>2. CASE UNCHANGED vars
      <3>1. Kept
        BY <2>2, TlsAside DEF BInv, vars, serverVars, slotVars
      <3> QED BY <2>2, <3>1, BystanderKeeps DEF vars, commandVars
    <2> QED BY <2>1, <2>2, CommandsKeepB, DisturbanceKeepsB DEF Next
  <1> QED BY <1>1, <1>2, IInvHolds, RInvHolds, PTL DEF Spec

\* In every reachable state, whatever else goes on, bootstrap has not failed to read a vault
\* source unless something else went wrong, if its own local sources are what the vault needs.
THEOREM VaultIsProvisioned == Spec => []VaultAfterItsRoute
  <1>1. BInv => VaultAfterItsRoute
    BY DEF BInv, VaultAfterItsRoute
  <1> QED BY <1>1, BInvHolds, PTL

-----------------------------------------------------------------------------
(* Types *)

\* The variables of the proxy and of its commands keep their types, for any configuration
\* that main() accepts.
THEOREM TypeCorrect == Spec => []TypeOK
  <1>1. IInv /\ GInv /\ RInv /\ BInv /\ UInv => TypeOK
    <2> SUFFICES ASSUME IInv, GInv, RInv, BInv, UInv  PROVE TypeOK
      OBVIOUS
    <2>1. SlotsTypeOK
      BY DEF IInv, Shapes, RInv, RTypes, SlotsTypeOK, Counted, Abstract!Window
    <2>2. \A c \in Clients : token[c] = NoToken \/
              token[c] \in [service : {r.name : r \in Routes}, master : Nat, age : 0..2]
      BY DEF GInv, TokenOK
    <2>3. ValidConfig(config) /\ MASTER \in [current : Nat, previous : Nat \union {NoToken}]
      BY DEF IInv, GInv
    <2> QED BY <2>1, <2>2, <2>3 DEF RInv, RTypes, BInv, TTypes, BTypes, UInv, TypeOK
  <1> QED BY <1>1, IInvHolds, GInvHolds, RInvHolds, BInvHolds, UInvHolds, PTL
=============================================================================
