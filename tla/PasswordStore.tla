----------------------------- MODULE PasswordStore -----------------------------
(***************************************************************************)
(* What the SSH vault promises: each profile keeps the password last saved *)
(* for it until it is deleted, and a deleted profile stays deleted.        *)
(***************************************************************************)
EXTENDS Naturals

CONSTANTS Profiles, Passwords

VARIABLES
  store, \* the password of each saved profile
  gone   \* the profiles deleted so far

Init == store = [r \in {} |-> 0] /\ gone = {}

Put(r, w) ==
  /\ r \notin gone
  /\ store' = [q \in DOMAIN store \cup {r} |-> IF q = r THEN w ELSE store[q]]
  /\ UNCHANGED gone

Remove(r) ==
  /\ store' = [q \in DOMAIN store \ {r} |-> store[q]]
  /\ gone' = gone \cup {r}

Next ==
  \/ \E r \in Profiles, w \in Passwords : Put(r, w)
  \/ \E r \in DOMAIN store : Remove(r)

Spec == Init /\ [][Next]_<<store, gone>>
================================================================================
