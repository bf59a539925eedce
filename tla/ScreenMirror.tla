---------------------------- MODULE ScreenMirror ----------------------------
(***************************************************************************)
(* What DiffMode::StateSync promises to the user, with no diffs, acks or   *)
(* packets in it: the client shows nothing but screens the remote program  *)
(* has displayed, and never an older one after a newer one.  It may skip   *)
(* any number of them.                                                     *)
(***************************************************************************)
EXTENDS Naturals

CONSTANTS Screen,      \* the screens there are
          Blank        \* the one a terminal starts with

VARIABLES screens,     \* screens[v]: the v-th screen displayed, 0..n
          shown,       \* what the client shows
          seen         \* which of the screens that is

vars == <<screens, shown, seen>>

Version == DOMAIN screens

Init == /\ screens \in UNION {[0..n -> Screen] : n \in 0..1}
        /\ screens[0] = Blank
        /\ shown = Blank
        /\ seen = 0

Display(s) ==
    /\ \E next \in {v + 1 : v \in Version} \ Version :
          screens' = [v \in Version \cup {next} |-> IF v = next THEN s ELSE screens[v]]
    /\ UNCHANGED <<shown, seen>>

Show(v) == /\ v >= seen
           /\ seen' = v
           /\ shown' = screens[v]
           /\ UNCHANGED screens

Next == \/ \E s \in Screen : Display(s)
        \/ \E v \in Version : Show(v)

Spec == Init /\ [][Next]_vars
=============================================================================
