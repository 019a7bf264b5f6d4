------------------------------ MODULE ProxySlots ------------------------------
(***************************************************************************)
(* The secret slots of security_proxy.py.  SLOTS holds the values pushed   *)
(* over the ingest socket, SLOT_STATE the windows of the attended slots    *)
(* that are armed.  Where the code keeps the instant a window expires,     *)
(* `expires` is the time that is left of it.                               *)
(*                                                                         *)
(* `window` is a history: what really left the proxy since each slot was   *)
(* last armed, counted where values are handed out and not where the code  *)
(* counts them (AttendedSlots).                                            *)
(***************************************************************************)
EXTENDS Naturals, Sequences, FiniteSets

CONSTANTS
    Slots, NoSlot,
    Values, NoValue,
    NoWindow,
    NoLimit       \* a null ttl or max_uses

ASSUME NullAssumption ==
    /\ NoSlot \notin Slots
    /\ NoValue \notin Values
    /\ NoLimit \notin Nat
    /\ NoWindow \notin [expires : Nat \union {NoLimit}, uses_left : Nat \union {NoLimit}]

VARIABLES
    config,       \* what main() parsed; fixed
    SLOTS,
    SLOT_STATE,
    window

slotVars == <<SLOTS, SLOT_STATE, window>>

ATTENDED == config.attended
Attended == DOMAIN ATTENDED

Limit == Nat \union {NoLimit}
Window == [expires : Limit, uses_left : Limit]

\* main() refuses a window that never closes, and a ttl or max_uses of zero.
Policy == {p \in [ttl : Limit \ {0}, max_uses : Limit \ {0}] : p.ttl # NoLimit \/ p.max_uses # NoLimit}

Abstract == INSTANCE AttendedSlots WITH policy <- ATTENDED

SlotsTypeOK ==
    /\ SLOTS \in [Slots -> Values \union {NoValue}]
    /\ SLOT_STATE \in [Slots -> Window \union {NoWindow}]
    /\ window \in [Slots -> Abstract!Window]

SlotsInit ==
    /\ SLOTS = [s \in Slots |-> NoValue]
    /\ SLOT_STATE = [s \in Slots |-> NoWindow]
    /\ window = [s \in Slots |-> Abstract!Shut]

-----------------------------------------------------------------------------
(* Reading *)

\* Mutant: a value is served until the sweeper takes it away.
DeadWithoutWindow(s, slots, state) ==
    /\ s \in Attended
    /\ slots[s] # NoValue
    /\ state[s] = NoWindow

\* slot_get finds a value it must not serve, and wipes it.
Dead(s, slots, state) ==
    /\ s \in Attended
    /\ slots[s] # NoValue
    /\ state[s] = NoWindow \/ state[s].expires = 0

Servable(s) == SLOTS[s] # NoValue /\ ~Dead(s, SLOTS, SLOT_STATE)

\* Mutant: the window closes, the value stays.
WipingWindow(wiped, slots, state) ==
    /\ SLOTS' = slots
    /\ SLOT_STATE' = [s \in Slots |-> IF s \in wiped THEN NoWindow ELSE state[s]]

\* slot_wipe, for every slot of wiped; slots and state are what is left of the others.
Wiping(wiped, slots, state) ==
    /\ SLOTS' = [s \in Slots |-> IF s \in wiped THEN NoValue ELSE slots[s]]
    /\ SLOT_STATE' = [s \in Slots |-> IF s \in wiped THEN NoWindow ELSE state[s]]

\* Mutant: the window closes only once the budget is below zero.
UseWithoutLast(w, n) == IF w.uses_left = NoLimit THEN w ELSE
                        IF w.uses_left < n THEN NoWindow ELSE [w EXCEPT !.uses_left = @ - n]

\* The window after n uses: none when the budget is spent.
Use(w, n) == IF w.uses_left = NoLimit THEN w ELSE
             IF w.uses_left <= n THEN NoWindow ELSE [w EXCEPT !.uses_left = @ - n]

\* How many of n uses still find the window w open, and get the value.
Served(w, n) == Cardinality({k \in 1..n : Use(w, k - 1) # NoWindow})

\* The history of s when n uses of it are tried, the window being open before.
HandedOut(s, n) ==
    [window[s] EXCEPT !.given = IF SLOT_STATE[s].uses_left = NoLimit THEN 1 - @
                                ELSE @ + Served(SLOT_STATE[s], n)]

\* A request reads slots by the sequence q, which may name a slot more than once.
Times(q, I, s) == Cardinality({i \in I : q[i] = s})

\* Its j-th read gets a value, after those before it.
GetsValue(q, j) ==
    /\ Servable(q[j])
    /\ q[j] \in Attended => Use(SLOT_STATE[q[j]], Times(q, 1..(j - 1), q[j])) # NoWindow

AllGet(q) == \A j \in DOMAIN q : GetsValue(q, j)

\* resolve_ingest_headers reads up to the first slot that has no value for it.
InOrder(q) == {j \in DOMAIN q : \A k \in 1..(j - 1) : GetsValue(q, k)}

\* slot_get for each of the reads I of q: a value is handed out and costs a use, or is wiped.
Get(q, I) ==
    LET read == {q[i] : i \in I}
        dead == {s \in read : Dead(s, SLOTS, SLOT_STATE)}
        given == {s \in read \intersect Attended : Servable(s)}
        left == [s \in Slots |->
            IF s \in given THEN Use(SLOT_STATE[s], Times(q, I, s)) ELSE SLOT_STATE[s]]
        gone == dead \union {s \in given : left[s] = NoWindow}
    IN /\ Wiping(gone, SLOTS, left)
       /\ window' = Abstract!Closing([s \in Slots |->
              IF s \in given THEN HandedOut(s, Times(q, I, s)) ELSE window[s]], gone)

-----------------------------------------------------------------------------
(* Arming, clearing, the passing of time *)

\* slot_arm
Armed(s) == [expires |-> ATTENDED[s].ttl, uses_left |-> ATTENDED[s].max_uses]

\* run_ingest stores the value and arms the slot.
PushedSlots(s, v) == [SLOTS EXCEPT ![s] = v]
PushedState(s) == IF s \in Attended THEN [SLOT_STATE EXCEPT ![s] = Armed(s)] ELSE SLOT_STATE

\* The whole push: `dead` are the slots that are then found expired (build_ssl_context).
Push(s, v, dead) ==
    /\ Wiping(dead, PushedSlots(s, v), PushedState(s))
    /\ window' = Abstract!Closing(
           IF s \in Attended THEN [window EXCEPT ![s] = Abstract!Opened] ELSE window, dead)

\* slot_wipe, on its own: run_ingest's "clear".
Wipe(S) == Wiping(S, SLOTS, SLOT_STATE) /\ window' = Abstract!Closing(window, S)

Expired == {s \in Slots : SLOT_STATE[s] # NoWindow /\ SLOT_STATE[s].expires = 0}

\* Mutant: nothing is swept.
SweepNothing == Expired # {} /\ UNCHANGED slotVars

sweep_attended_slots == Expired # {} /\ Wipe(Expired)

\* One unit of time.
Tick ==
    /\ SLOT_STATE' = [s \in Slots |->
           IF SLOT_STATE[s] # NoWindow /\ SLOT_STATE[s].expires \notin {0, NoLimit}
           THEN [SLOT_STATE[s] EXCEPT !.expires = @ - 1] ELSE SLOT_STATE[s]]
    /\ Abstract!Pass
    /\ SLOTS' = SLOTS
    /\ SLOT_STATE' # SLOT_STATE
=============================================================================
