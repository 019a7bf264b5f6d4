----------------------------- MODULE AttendedSlots -----------------------------
(***************************************************************************)
(* What an attended slot promises, without saying how: its secret leaves   *)
(* the proxy only inside a window that was opened for it, at most          *)
(* max_uses times per window and only before the window is ttl seconds     *)
(* old.  (src/security-proxy/README.md, "Attended slots".)                 *)
(***************************************************************************)
EXTENDS Naturals

CONSTANTS Slots, NoLimit

VARIABLES
    policy,   \* attended slot -> [ttl, max_uses], either of them possibly NoLimit
    window    \* slot -> [open, given, age]: what was handed out and how long after opening

\* given is the number of uses of the window where they are limited.  Where they are not it is
\* the parity of that number, so that each time a secret leaves is a step.
Window == [open : BOOLEAN, given : Nat, age : Nat]
Shut == [open |-> FALSE, given |-> 0, age |-> 0]
Opened == [Shut EXCEPT !.open = TRUE]

Init ==
    /\ DOMAIN policy \subseteq Slots
    /\ \A s \in DOMAIN policy : policy[s].ttl # NoLimit \/ policy[s].max_uses # NoLimit
    /\ window = [s \in Slots |-> Shut]

MayGive(s) ==
    /\ s \in DOMAIN policy
    /\ window[s].open
    /\ policy[s].ttl = NoLimit \/ window[s].age < policy[s].ttl

\* What given may become when the secret of s leaves, once or more often for one request.
MoreGiven(s) ==
    IF policy[s].max_uses = NoLimit THEN {1 - window[s].given}
    ELSE (window[s].given + 1)..policy[s].max_uses

Closing(w, closed) == [s \in Slots |-> [w[s] EXCEPT !.open = @ /\ s \notin closed]]

\* A value arrives for s; windows of other slots found expired on the way are closed.
Open(s, closed) ==
    /\ s \in DOMAIN policy
    /\ s \notin closed
    /\ window' = Closing([window EXCEPT ![s] = Opened], closed)

\* Secrets leave for one request, some windows close, or both.
Give ==
    /\ window' \in [Slots -> Window]
    /\ \A s \in Slots :
          /\ window'[s].given # window[s].given =>
                 MayGive(s) /\ window'[s].given \in MoreGiven(s)
          /\ window'[s].open => window[s].open
          /\ window'[s].age = window[s].age

\* Ages are counted up to ttl only.
Pass ==
    window' = [s \in Slots |->
        IF window[s].open /\ policy[s].ttl # NoLimit /\ window[s].age < policy[s].ttl
        THEN [window[s] EXCEPT !.age = @ + 1] ELSE window[s]]

Next ==
    /\ policy' = policy
    /\ (\E s \in Slots, closed \in SUBSET Slots : Open(s, closed)) \/ Give \/ Pass

Spec == Init /\ [][Next]_<<policy, window>>
=============================================================================
