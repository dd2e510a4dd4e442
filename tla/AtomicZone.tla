---------------------------- MODULE AtomicZone -----------------------------
(***************************************************************************)
(* What the record store promises, without goroutines, locks or temporary  *)
(* files: one state that readers see, at most one mutation of it pending,  *)
(* and a durable state that only ever becomes the pending mutation, whole. *)
(* A mutation changes one name and moves the serial by one; a process that *)
(* starts sees the durable state.                                          *)
(***************************************************************************)
EXTENDS Naturals

CONSTANTS
    SerialMod,   \* the serial counts modulo this
    Empty        \* the state of a store nobody has written to

VARIABLES
    alive,   \* the process runs
    view,    \* what readers see, or saw last: [serial, records]
    next,    \* the pending mutation's outcome; view when none is pending
    disk     \* what a start would restore

avars == << alive, view, next, disk >>

\* Serial 0 is not told from a missing one when it is restored.
Restored(s) == [s EXCEPT !.serial = IF @ = 0 THEN 1 ELSE @]

Entry(s, n) == IF n \in DOMAIN s.records THEN s.records[n] ELSE {}

\* t is s after one mutation.
Mutation(s, t) ==
    /\ t.serial = (s.serial + 1) % SerialMod
    /\ \A n, m \in (DOMAIN s.records) \cup (DOMAIN t.records) :
         (Entry(s, n) # Entry(t, n) /\ Entry(s, m) # Entry(t, m)) => n = m

AInit == ~ alive /\ view = Empty /\ next = Empty /\ disk = Empty

Boot ==
    /\ ~ alive
    /\ alive' = TRUE
    /\ view' = disk
    /\ next' = disk
    /\ UNCHANGED disk

Begin ==
    /\ alive
    /\ next = view
    /\ Mutation(view, next')
    /\ UNCHANGED << alive, view, disk >>

Write ==
    /\ alive
    /\ next # view
    /\ disk' = Restored(next)
    /\ UNCHANGED << alive, view, next >>

Publish ==
    /\ alive
    /\ next # view
    /\ view' = next
    /\ UNCHANGED << alive, next, disk >>

Die ==
    /\ alive
    /\ alive' = FALSE
    /\ next' = view
    /\ UNCHANGED << view, disk >>

ANext == Boot \/ Begin \/ Write \/ Publish \/ Die

ASpec == AInit /\ [][ANext]_avars
=============================================================================
